-------------------------- MODULE EventQueueProofs --------------------------
(***************************************************************************)
(* Proofs about EventQueue, for any number of employees, senders and rows, *)
(* any batch limit and any set of refused types: its types, the two safety *)
(* invariants, that it implements EventDelivery, and that what is settled, *)
(* stored or refused stays so.                                             *)
(***************************************************************************)
EXTENDS EventQueue, SequenceTheorems, FiniteSetTheorems, TLAPS

USE DEF IdleTask

-----------------------------------------------------------------------------
(***************************************************************************)
(* Lemmas about the table's operators                                      *)
(***************************************************************************)

\* A function on 1..n is a sequence of length n.
LEMMA FunctionIsSeq ==
  ASSUME NEW S, NEW n \in Nat, NEW f \in [1..n -> S]
  PROVE  f \in Seq(S) /\ Len(f) = n /\ DOMAIN f = 1..n
  OBVIOUS

\* mark_success keeps the rows and their types; the marked ones are SUCCESS,
\* the others as they were.
LEMMA MarkSuccessShape ==
  ASSUME rows \in Seq(Row), NEW ids
  PROVE  /\ MarkSuccess(ids) \in Seq(Row)
         /\ Len(MarkSuccess(ids)) = Len(rows)
         /\ DOMAIN MarkSuccess(ids) = DOMAIN rows
         /\ \A i \in DOMAIN rows :
              /\ MarkSuccess(ids)[i].type = rows[i].type
              /\ MarkSuccess(ids)[i].status =
                    IF i \in ids THEN "SUCCESS" ELSE rows[i].status
  <1>1. /\ DOMAIN rows = 1..Len(rows) /\ Len(rows) \in Nat
        /\ \A i \in DOMAIN rows : rows[i] \in Row
    BY LenProperties
  <1>2. \A i \in DOMAIN rows : [rows[i] EXCEPT !.status = "SUCCESS"] \in Row
    BY <1>1 DEF Row
  <1>3. MarkSuccess(ids) \in [1..Len(rows) -> Row]
    BY <1>1, <1>2 DEF MarkSuccess
  <1>4. \A i \in DOMAIN rows :
              /\ MarkSuccess(ids)[i].type = rows[i].type
              /\ MarkSuccess(ids)[i].status =
                    IF i \in ids THEN "SUCCESS" ELSE rows[i].status
    BY <1>1 DEF MarkSuccess, Row
  <1>. QED  BY <1>1, <1>3, <1>4, FunctionIsSeq

\* mark_failed keeps the rows and their types and makes no row SUCCESS.
LEMMA MarkFailedShape ==
  ASSUME rows \in Seq(Row), NEW ids
  PROVE  /\ MarkFailed(ids) \in Seq(Row)
         /\ Len(MarkFailed(ids)) = Len(rows)
         /\ DOMAIN MarkFailed(ids) = DOMAIN rows
         /\ \A i \in DOMAIN rows :
              /\ MarkFailed(ids)[i].type = rows[i].type
              /\ MarkFailed(ids)[i].status =
                    IF i \in ids THEN "FAILED" ELSE rows[i].status
  <1>1. /\ DOMAIN rows = 1..Len(rows) /\ Len(rows) \in Nat
        /\ \A i \in DOMAIN rows : rows[i] \in Row
    BY LenProperties
  <1>2. \A r \in Row : [r EXCEPT !.status = "FAILED", !.retries = @ + 1] \in Row
    <2>. SUFFICES ASSUME NEW r \in Row
         PROVE  [r EXCEPT !.status = "FAILED", !.retries = @ + 1] \in Row
      OBVIOUS
    <2>1. r.retries + 1 \in Nat
      BY DEF Row
    <2>2. [r EXCEPT !.status = "FAILED"] \in Row
      BY DEF Row
    <2>3. \A n \in Nat : \A q \in Row : [q EXCEPT !.retries = n] \in Row
      BY DEF Row
    <2>. QED  BY <2>1, <2>2, <2>3
  <1>3. MarkFailed(ids) \in [1..Len(rows) -> Row]
    BY <1>1, <1>2 DEF MarkFailed
  <1>4. \A i \in DOMAIN rows :
              /\ MarkFailed(ids)[i].type = rows[i].type
              /\ MarkFailed(ids)[i].status =
                    IF i \in ids THEN "FAILED" ELSE rows[i].status
    BY <1>1 DEF MarkFailed, Row
  <1>. QED  BY <1>1, <1>3, <1>4, FunctionIsSeq

\* enqueue leaves the existing rows alone; a new one is PENDING.
LEMMA EnqueuedShape ==
  ASSUME rows \in Seq(Row), Len(rows) <= MaxRows, NEW type \in EventTypes
  PROVE  /\ Enqueued(type) \in Seq(Row)
         /\ Len(Enqueued(type)) <= MaxRows
         /\ Len(Enqueued(type)) >= Len(rows)
         /\ DOMAIN Enqueued(type) = 1..Len(Enqueued(type))
         /\ \A i \in DOMAIN rows :
              i \in DOMAIN Enqueued(type) /\ Enqueued(type)[i] = rows[i]
         /\ \A i \in DOMAIN Enqueued(type) \ DOMAIN rows :
              Enqueued(type)[i].status = "PENDING"
  <1>. DEFINE new == [type |-> type, status |-> "PENDING", retries |-> 0]
  <1>1. new \in Row
    BY DEF Row
  <1>2. /\ DOMAIN rows = 1..Len(rows) /\ Len(rows) \in Nat /\ MaxRows \in Nat
    BY LenProperties, BoundsAssumption
  <1>3. CASE Len(rows) < MaxRows
    <2>. HIDE DEF new
    <2>1. Enqueued(type) = Append(rows, new)
      BY <1>3 DEF Enqueued, new
    <2>2. /\ Append(rows, new) \in Seq(Row)
          /\ Len(Append(rows, new)) = Len(rows) + 1
          /\ \A i \in 1..Len(rows) : Append(rows, new)[i] = rows[i]
          /\ Append(rows, new)[Len(rows) + 1] = new
      BY <1>1
    <2>3. DOMAIN Append(rows, new) = 1..(Len(rows) + 1)
      BY <2>2, LenProperties
    <2>4. new.status = "PENDING"
      BY DEF new
    <2>5. \A i \in DOMAIN Append(rows, new) \ DOMAIN rows : i = Len(rows) + 1
      BY <2>3, <1>2
    <2>. QED  BY <1>2, <1>3, <2>1, <2>2, <2>3, <2>4, <2>5
  <1>4. CASE ~(Len(rows) < MaxRows)
    BY <1>2, <1>4 DEF Enqueued
  <1>. QED  BY <1>3, <1>4

\* LIMIT takes a prefix: with a member it takes every smaller one.
LEMMA OldestIsPrefix ==
  ASSUME NEW S, IsFiniteSet(S), S \subseteq Nat, NEW k \in Nat,
         NEW j \in Oldest(S, k), NEW i \in S, i < j
  PROVE  i \in Oldest(S, k)
  <1>a. i \in Nat /\ j \in Nat /\ i < j
    BY DEF Oldest
  <1>b. \A l \in S : l < i => l < j
    BY <1>a
  <1>1. {l \in S : l < i} \in SUBSET {l \in S : l < j}
    BY <1>b
  <1>0. {l \in S : l < j} \in SUBSET S
    OBVIOUS
  <1>2. IsFiniteSet({l \in S : l < j})
    BY <1>0, FS_Subset
  <1>3. Cardinality({l \in S : l < i}) <= Cardinality({l \in S : l < j})
    BY <1>1, <1>2, FS_Subset
  <1>4. Cardinality({l \in S : l < j}) \in Nat
        /\ Cardinality({l \in S : l < i}) \in Nat
    BY <1>1, <1>2, FS_Subset, FS_CardinalityType
  <1>5. Cardinality({l \in S : l < j}) < k
    BY DEF Oldest
  <1>. QED  BY <1>3, <1>4, <1>5 DEF Oldest

\* What pending_batch reads is a prefix of what is not SUCCESS.
LEMMA PendingBatchIsPrefix ==
  ASSUME rows \in Seq(Row), NEW j \in PendingBatch, NEW i \in 1..j
  PROVE  /\ j \in Unsent
         /\ i \in PendingBatch \/ rows[i].status = "SUCCESS"
  <1>1. /\ DOMAIN rows = 1..Len(rows) /\ Len(rows) \in Nat
        /\ \A l \in DOMAIN rows : rows[l] \in Row
    BY LenProperties
  <1>2. Unsent \in SUBSET (1..Len(rows)) /\ j \in Unsent
    BY <1>1 DEF Unsent, PendingBatch, Oldest
  <1>3. IsFiniteSet(Unsent) /\ Unsent \subseteq Nat
    <2>1. IsFiniteSet(1..Len(rows))
      BY <1>1, FS_Interval
    <2>2. IsFiniteSet(Unsent)
      BY <1>2, <2>1, FS_Subset
    <2>. QED  BY <1>1, <1>2, <2>2
  <1>4. i \in DOMAIN rows
    BY <1>1, <1>2
  <1>5. CASE i = j
    BY <1>2, <1>5
  <1>6. CASE i # j /\ i \in Unsent
    <2>1. i < j
      BY <1>1, <1>2, <1>6
    <2>. QED  BY <1>2, <1>3, <1>6, <2>1, OldestIsPrefix, BoundsAssumption
                 DEF PendingBatch
  <1>7. CASE i \notin Unsent
    BY <1>1, <1>2, <1>4, <1>7 DEF Unsent, Row
  <1>. QED  BY <1>5, <1>6, <1>7

-----------------------------------------------------------------------------
(***************************************************************************)
(* Type correctness                                                        *)
(***************************************************************************)

\* A fresh installation has the types.
LEMMA InitTyped == Init => TypeOK
  BY BoundsAssumption
     DEF Init, TypeOK, Task, Users, Handlers, Row, Request

\* Every step of a handler, a sender or the server keeps the types.
LEMMA StepTyped == TypeOK /\ [Next]_vars => TypeOK'
  <1>. SUFFICES ASSUME TypeOK, [Next]_vars PROVE TypeOK'
    OBVIOUS
  <1>. USE DEF agentVars
  <1>e. \A type \in EventTypes : /\ Enqueued(type) \in Seq(Row)
                                  /\ Len(Enqueued(type)) <= MaxRows
    BY EnqueuedShape DEF TypeOK
  <1>t. /\ {AppStarted, AppStopped, LoginSuccess, LogoutType, IdleStarted,
            IdleEnded} = EventTypes
    BY DEF EventTypes
  <1>b. PendingBatch \subseteq Ids
    BY LenProperties, BoundsAssumption
       DEF PendingBatch, Oldest, Unsent, TypeOK, Ids
  <1>f. Fail => faults' \in Nat
    BY DEF Fail, TypeOK
  <1>1. CASE Tick
    BY <1>1, SendersAssumption DEF Tick, TypeOK, Task
  <1>2. ASSUME NEW s \in Senders, SenderStep(s)
        PROVE  TypeOK'
    <2>1. CASE CaptureSession(s)
      BY <2>1 DEF CaptureSession, TypeOK, Task, Users
    <2>2. CASE SendBatch(s)
      BY <2>2, <1>b DEF SendBatch, TypeOK, Task, Users
    <2>3. CASE Serve(s)
      BY <2>3 DEF Serve, Stored, TypeOK, Task
    <2>4. CASE ReplyOk(s)
      <3>1. /\ rows' \in Seq(Row) /\ Len(rows') <= MaxRows
        BY <2>4, MarkSuccessShape DEF ReplyOk, TypeOK
      <3>2. refreshFor' \in Users
        BY <2>4 DEF ReplyOk, RefreshAfter, TypeOK, Task
      <3>. QED  BY <2>4, <3>1, <3>2 DEF ReplyOk, TypeOK, Task, Users
    <2>. QED  BY <1>2, <2>1, <2>2, <2>3, <2>4 DEF SenderStep
  <1>3. ASSUME NEW s \in Senders, SenderFault(s)
        PROVE  TypeOK'
    <2>1. CASE BatchUnreadable(s)
      BY <2>1, <1>f DEF BatchUnreadable, TypeOK, Task, Users
    <2>2. CASE ReplyOkUnmarked(s)
      <3>2. refreshFor' \in Users
        BY <2>2 DEF ReplyOkUnmarked, RefreshAfter, TypeOK, Task
      <3>. QED  BY <2>2, <3>2, <1>f DEF ReplyOkUnmarked, TypeOK, Task, Users
    <2>3. CASE ReplyError(s)
      <3>1. rows' \in Seq(Row) /\ Len(rows') <= MaxRows
        BY <2>3, MarkFailedShape DEF ReplyError, TypeOK
      <3>2. late' \subseteq Request
        BY <2>3 DEF ReplyError, GivenUp, TypeOK, Task, Request, Users
      <3>. QED  BY <2>3, <3>1, <3>2, <1>f DEF ReplyError, GivenUp, TypeOK, Task, Users
    <2>4. CASE ReplyErrorUnmarked(s)
      <3>1. late' \subseteq Request
        BY <2>4 DEF ReplyErrorUnmarked, GivenUp, TypeOK, Task, Request, Users
      <3>. QED  BY <2>4, <3>1, <1>f DEF ReplyErrorUnmarked, GivenUp, TypeOK, Task, Users
    <2>. QED  BY <1>3, <2>1, <2>2, <2>3, <2>4 DEF SenderFault
  <1>4. ASSUME NEW s \in Senders, SegmentEndEvent(s)
        PROVE  TypeOK'
    BY <1>4, <1>e, <1>t DEF SegmentEndEvent, TypeOK, Task
  <1>5. ASSUME NEW req \in late, ServeLate(req)
        PROVE  TypeOK'
    BY <1>5 DEF ServeLate, Stored, TypeOK, Request, Users
  <1>6. CASE Start
    BY <1>6, <1>e, <1>t DEF Start, TypeOK
  <1>7. CASE Quit
    BY <1>7, <1>e, <1>t DEF Quit, TypeOK
  <1>8. CASE Stop
    BY <1>8 DEF Stop, TypeOK, Task, Request, Users
  <1>9. ASSUME NEW u \in Employees, LoginSession(u)
        PROVE  TypeOK'
    BY <1>9 DEF LoginSession, TypeOK, Users, Handlers
  <1>10. CASE LoginEvent
    BY <1>10, <1>e, <1>t DEF LoginEvent, TypeOK
  <1>11. CASE LogoutEvent
    BY <1>11, <1>e, <1>t DEF LogoutEvent, TypeOK, Handlers
  <1>12. CASE LogoutSession
    BY <1>12 DEF LogoutSession, TypeOK, Users
  <1>13. CASE LogoutAborted
    BY <1>13, <1>f DEF LogoutAborted, TypeOK
  <1>14. CASE SegmentStartEvent
    BY <1>14, <1>e, <1>t DEF SegmentStartEvent, TypeOK, Handlers
  <1>15. CASE UNCHANGED vars
    BY <1>15 DEF vars, TypeOK
  <1>. QED
    BY <1>1, <1>2, <1>3, <1>4, <1>5, <1>6, <1>7, <1>8, <1>9, <1>10, <1>11,
       <1>12, <1>13, <1>14, <1>15 DEF Next

\* Every behaviour keeps every variable in its type (TypeOK of EventQueue).
THEOREM TypeCorrect == Spec => []TypeOK
  BY InitTyped, StepTyped, PTL DEF Spec

-----------------------------------------------------------------------------
(***************************************************************************)
(* The inductive invariant                                                 *)
(***************************************************************************)

\* A fresh installation satisfies the inductive invariant: nothing is under way.
LEMMA InitInv == Init => IInv
  <1>. SUFFICES ASSUME Init PROVE IInv
    OBVIOUS
  <1>1. TypeOK
    BY InitTyped
  <1>2. DOMAIN rows = {}
    BY DEF Init
  <1>. QED
    BY <1>1, <1>2
       DEF Init, IInv, SuccessIsStored, StoredInOrder, AckedAreStored,
           IsPrefix, NamesUser, IsStored

\* A step that leaves the table and the server alone: it is enough that the
\* batches and acknowledgements it leaves behind were fine before it.
LEMMA TableKept ==
  ASSUME IInv, TypeOK', rows' = rows, server' = server,
         \A s \in Senders : /\ IsPrefix(task'[s].batch)
                            /\ task'[s].accepted \subseteq task[s].accepted
                            /\ NamesUser(task'[s]),
         \A req \in late' : IsPrefix(req.batch) /\ req.user \in Employees
  PROVE  IInv'
  BY DEF IInv, SuccessIsStored, StoredInOrder, AckedAreStored, IsPrefix,
         NamesUser, IsStored, Acceptable

\* A step that changes rows but neither their types nor the server: only the
\* rows that are SUCCESS after it matter.
LEMMA RowsChanged ==
  ASSUME IInv, TypeOK', server' = server,
         \A i \in DOMAIN rows : i \in DOMAIN rows' /\ rows'[i].type = rows[i].type,
         SuccessIsStored',
         \A s \in Senders : /\ task'[s].batch \in {task[s].batch, {}}
                            /\ task'[s].accepted \in {task[s].accepted, {}}
                            /\ NamesUser(task'[s]),
         \A req \in late' :
            \/ req \in late
            \/ /\ req.user \in Employees
               /\ \E s \in Senders : req.batch = task[s].batch
  PROVE  IInv'
  <1>1. \A i \in DOMAIN rows : Acceptable(i)' <=> Acceptable(i)
    BY DEF Acceptable
  <1>2. \A i : IsStored(i)' <=> IsStored(i)
    BY DEF IsStored
  <1>3. DOMAIN rows = 1..Len(rows) /\ Len(rows) \in Nat
    BY LenProperties DEF IInv, TypeOK
  <1>4. \A B : IsPrefix(B) => /\ B \subseteq DOMAIN rows'
                             /\ \A j \in B : \A i \in 1..j :
                                   Acceptable(i)' => i \in B \/ IsStored(i)'
    BY <1>1, <1>2, <1>3 DEF IsPrefix
  <1>5. IsPrefix({})
    BY DEF IsPrefix
  <1>6. \A s \in Senders : IsPrefix(task[s].batch)
    BY DEF IInv
  <1>7. \A s \in Senders : IsPrefix(task[s].batch)' /\ NamesUser(task[s])'
    BY <1>4, <1>5, <1>6 DEF IsPrefix, NamesUser
  <1>8. \A req \in late' : IsPrefix(req.batch) /\ req.user \in Employees
    BY <1>6 DEF IInv
  <1>9. (\A req \in late : IsPrefix(req.batch) /\ req.user \in Employees)'
    BY <1>4, <1>8 DEF IsPrefix
  <1>10. (\A i \in Ids : IsStored(i) => i \in DOMAIN rows)'
    BY <1>2 DEF IInv
  <1>11. AckedAreStored'
    BY <1>2 DEF IInv, AckedAreStored
  <1>12. StoredInOrder'
    <2>1. \A j \in DOMAIN rows' : IsStored(j)' => j \in DOMAIN rows
      <3>1. DOMAIN rows' \subseteq Ids
        <4>1. rows' \in Seq(Row) /\ Len(rows') <= MaxRows
          BY DEF TypeOK
        <4>2. DOMAIN rows' = 1..Len(rows') /\ Len(rows') \in Nat
          BY <4>1, LenProperties
        <4>. QED  BY <4>1, <4>2, BoundsAssumption DEF Ids
      <3>. QED  BY <3>1, <1>2 DEF IInv
    <2>. QED  BY <2>1, <1>1, <1>2, <1>3 DEF IInv, StoredInOrder
  <1>. QED  BY <1>7, <1>9, <1>10, <1>11, <1>12 DEF IInv

\* The server stores a batch that is a prefix: the order is kept, because what
\* it would accept below an id of the batch is in the batch or was stored.
LEMMA BatchStored ==
  ASSUME IInv, TypeOK', NEW user \in Employees, NEW batch \in SUBSET Ids,
         IsPrefix(batch), server' = Stored(user, batch), rows' = rows,
         \A s \in Senders : /\ task'[s].batch = task[s].batch
                            /\ NamesUser(task'[s])
                            /\ \/ task'[s].accepted = task[s].accepted
                               \/ task'[s].accepted = {i \in batch : Acceptable(i)},
         late' \subseteq late
  PROVE  IInv'
  <1>1. \A i \in Ids : IsStored(i)' <=> (IsStored(i) \/ (i \in batch /\ Acceptable(i)))
    BY NoUserAssumption DEF Stored, IsStored
  <1>2. \A i : Acceptable(i)' <=> Acceptable(i)
    BY DEF Acceptable
  <1>3. DOMAIN rows = 1..Len(rows) /\ Len(rows) \in Nat /\ DOMAIN rows \subseteq Ids
    BY LenProperties, BoundsAssumption DEF IInv, TypeOK, Ids
  <1>4. \A j \in DOMAIN rows : \A i \in 1..j : i \in DOMAIN rows /\ i \in Ids
    BY <1>3
  <1>5. \A B : IsPrefix(B) => /\ B \subseteq DOMAIN rows'
                             /\ \A j \in B : \A i \in 1..j :
                                   Acceptable(i)' => i \in B \/ IsStored(i)'
    BY <1>1, <1>2, <1>4 DEF IsPrefix
  <1>6. \A s \in Senders : IsPrefix(task[s].batch)' /\ NamesUser(task[s])'
    BY <1>5 DEF IInv, IsPrefix, NamesUser
  <1>7. (\A req \in late : IsPrefix(req.batch) /\ req.user \in Employees)'
    BY <1>5 DEF IInv, IsPrefix
  <1>8. SuccessIsStored'
    BY <1>1, <1>3 DEF IInv, SuccessIsStored
  <1>9. AckedAreStored'
    BY <1>1, <1>3 DEF IInv, AckedAreStored, Acceptable
  <1>10. (\A i \in Ids : IsStored(i) => i \in DOMAIN rows)'
    BY <1>1 DEF IInv, Acceptable
  <1>11. StoredInOrder'
    <2>. SUFFICES ASSUME NEW j \in DOMAIN rows, IsStored(j)',
                         NEW i \in 1..j, Acceptable(i)
                  PROVE  IsStored(i)'
      BY <1>2 DEF StoredInOrder
    <2>1. CASE IsStored(j)
      BY <2>1, <1>1, <1>4 DEF IInv, StoredInOrder
    <2>2. CASE j \in batch
      BY <2>2, <1>1, <1>4 DEF IsPrefix
    <2>. QED  BY <2>1, <2>2, <1>1, <1>3
  <1>. QED  BY <1>6, <1>7, <1>8, <1>9, <1>10, <1>11 DEF IInv

\* An INSERT adds a PENDING row at most.
LEMMA EnqueueKeeps ==
  ASSUME IInv, NEW type \in EventTypes, rows' = Enqueued(type),
         server' = server
  PROVE  /\ SuccessIsStored'
         /\ \A i \in DOMAIN rows : i \in DOMAIN rows' /\ rows'[i].type = rows[i].type
  <1>1. rows \in Seq(Row) /\ Len(rows) <= MaxRows
    BY DEF IInv, TypeOK
  <1>2. \A i \in DOMAIN rows : i \in DOMAIN rows' /\ rows'[i] = rows[i]
    BY <1>1, EnqueuedShape
  <1>3. \A i \in DOMAIN rows' \ DOMAIN rows : rows'[i].status = "PENDING"
    BY <1>1, EnqueuedShape
  <1>4. SuccessIsStored'
    BY <1>2, <1>3 DEF IInv, SuccessIsStored, IsStored
  <1>. QED  BY <1>2, <1>4

\* Every step keeps every batch under way a prefix of what is not delivered,
\* and with it that the server learns in order and that SUCCESS is stored.
LEMMA InvStep == IInv /\ [Next]_vars => IInv'
  <1>. SUFFICES ASSUME IInv, [Next]_vars PROVE IInv'
    OBVIOUS
  <1>. USE DEF agentVars
  <1>t. TypeOK'
    BY StepTyped DEF IInv
  <1>o. /\ \A s \in Senders : IsPrefix(task[s].batch) /\ NamesUser(task[s])
        /\ \A req \in late : IsPrefix(req.batch) /\ req.user \in Employees
    BY DEF IInv
  <1>m. IsPrefix({})
    BY DEF IsPrefix
  <1>y. /\ task \in [Senders -> Task] /\ rows \in Seq(Row)
        /\ DOMAIN rows = 1..Len(rows) /\ Len(rows) \in Nat
    BY LenProperties DEF IInv, TypeOK
  <1>n. /\ AppStarted \in EventTypes /\ AppStopped \in EventTypes
        /\ LoginSuccess \in EventTypes /\ LogoutType \in EventTypes
        /\ IdleStarted \in EventTypes /\ IdleEnded \in EventTypes
    BY DEF EventTypes
  <1>1. CASE Tick
    <2>1. \A s \in Senders : /\ task'[s].batch = task[s].batch
                             /\ task'[s].accepted = task[s].accepted
                             /\ NamesUser(task'[s])
      BY <1>1, <1>o, <1>y DEF Tick, NamesUser, Task
    <2>. QED  BY <1>1, <1>o, <1>t, <2>1, TableKept DEF Tick
  <1>2. ASSUME NEW s \in Senders, CaptureSession(s)
        PROVE  IInv'
    <2>1. session = NoUser \/ session \in Employees
      BY DEF IInv, TypeOK, Users
    <2>2. \A r \in Senders : /\ task'[r].batch \in {task[r].batch, {}}
                             /\ task'[r].accepted \subseteq task[r].accepted
                             /\ NamesUser(task'[r])
      BY <1>2, <1>o, <1>y, <2>1 DEF CaptureSession, NamesUser, Task
    <2>3. \A r \in Senders : IsPrefix(task'[r].batch)
      BY <2>2, <1>o, <1>m
    <2>. QED  BY <1>2, <1>o, <1>t, <2>2, <2>3, TableKept DEF CaptureSession
  <1>3. ASSUME NEW s \in Senders, SendBatch(s)
        PROVE  IInv'
    <2>1. IsPrefix(PendingBatch)
      <3>1. PendingBatch \subseteq DOMAIN rows
        BY DEF PendingBatch, Oldest, Unsent
      <3>2. \A j \in PendingBatch : \A i \in 1..j :
                i \in PendingBatch \/ rows[i].status = "SUCCESS"
        BY <1>y, PendingBatchIsPrefix
      <3>3. \A i \in DOMAIN rows : rows[i].status = "SUCCESS" => IsStored(i)
        BY DEF IInv, SuccessIsStored
      <3>. QED  BY <3>1, <3>2, <3>3 DEF IsPrefix, Acceptable
    <2>2. \A r \in Senders : /\ task'[r].batch \in {task[r].batch, {}, PendingBatch}
                             /\ task'[r].accepted \subseteq task[r].accepted
                             /\ NamesUser(task'[r])
      BY <1>3, <1>o, <1>y DEF SendBatch, NamesUser, Task
    <2>3. \A r \in Senders : IsPrefix(task'[r].batch)
      BY <2>1, <2>2, <1>o, <1>m
    <2>. QED  BY <1>3, <1>o, <1>t, <2>2, <2>3, TableKept DEF SendBatch
  <1>4. ASSUME NEW s \in Senders, Serve(s)
        PROVE  IInv'
    <2>1. task[s].user \in Employees /\ task[s].batch \in SUBSET Ids
      BY <1>4, <1>o, <1>y DEF Serve, NamesUser, Task
    <2>2. \A r \in Senders : /\ task'[r].batch = task[r].batch
                             /\ NamesUser(task'[r])
                             /\ \/ task'[r].accepted = task[r].accepted
                                \/ task'[r].accepted =
                                        {i \in task[s].batch : Acceptable(i)}
      BY <1>4, <1>o, <1>y, <2>1 DEF Serve, NamesUser, Task
    <2>. QED  BY <1>4, <1>o, <1>t, <2>1, <2>2, BatchStored DEF Serve
  <1>5. ASSUME NEW s \in Senders, ReplyOk(s)
        PROVE  IInv'
    <2>1. rows' = MarkSuccess(task[s].accepted) /\ server' = server
      BY <1>5 DEF ReplyOk, AckedIds
    <2>2. \A i \in DOMAIN rows : i \in DOMAIN rows' /\ rows'[i].type = rows[i].type
      BY <2>1, <1>y, MarkSuccessShape
    <2>3. SuccessIsStored'
      BY <2>1, <1>y, MarkSuccessShape
         DEF IInv, SuccessIsStored, AckedAreStored, IsStored
    <2>4. \A r \in Senders : /\ task'[r].batch \in {task[r].batch, {}}
                             /\ task'[r].accepted \in {task[r].accepted, {}}
                             /\ NamesUser(task'[r])
      BY <1>5, <1>o, <1>y DEF ReplyOk, NamesUser, Task
    <2>. QED  BY <1>5, <1>t, <2>1, <2>2, <2>3, <2>4, RowsChanged DEF ReplyOk
  <1>6. ASSUME NEW s \in Senders, BatchUnreadable(s) \/ ReplyOkUnmarked(s)
        PROVE  IInv'
    <2>1. \A r \in Senders : /\ task'[r].batch \in {task[r].batch, {}}
                             /\ task'[r].accepted \subseteq task[r].accepted
                             /\ NamesUser(task'[r])
      BY <1>6, <1>o, <1>y DEF BatchUnreadable, ReplyOkUnmarked, NamesUser, Task
    <2>2. \A r \in Senders : IsPrefix(task'[r].batch)
      BY <2>1, <1>o, <1>m
    <2>. QED  BY <1>6, <1>o, <1>t, <2>1, <2>2, TableKept
              DEF BatchUnreadable, ReplyOkUnmarked
  <1>7. ASSUME NEW s \in Senders, ReplyError(s) \/ ReplyErrorUnmarked(s)
        PROVE  IInv'
    <2>1. rows' \in {rows, MarkFailed(task[s].batch)} /\ server' = server
      BY <1>7 DEF ReplyError, ReplyErrorUnmarked, GivenUp
    <2>2. \A i \in DOMAIN rows : i \in DOMAIN rows' /\ rows'[i].type = rows[i].type
      BY <2>1, <1>y, MarkFailedShape
    <2>3. SuccessIsStored'
      <3>1. CASE rows' = rows
        BY <2>1, <3>1 DEF IInv, SuccessIsStored, IsStored
      <3>2. CASE rows' = MarkFailed(task[s].batch)
        BY <2>1, <3>2, <1>y, MarkFailedShape DEF IInv, SuccessIsStored, IsStored
      <3>. QED  BY <2>1, <3>1, <3>2
    <2>4. \A r \in Senders : /\ task'[r].batch \in {task[r].batch, {}}
                             /\ task'[r].accepted \in {task[r].accepted, {}}
                             /\ NamesUser(task'[r])
      BY <1>7, <1>o, <1>y DEF ReplyError, ReplyErrorUnmarked, GivenUp, NamesUser, Task
    <2>5. task[s].user \in Employees
      BY <1>7, <1>o DEF ReplyError, ReplyErrorUnmarked, NamesUser
    <2>6. \A req \in late' :
            \/ req \in late
            \/ /\ req.user \in Employees
               /\ \E r \in Senders : req.batch = task[r].batch
      BY <1>7, <2>5 DEF ReplyError, ReplyErrorUnmarked, GivenUp
    <2>. QED  BY <1>t, <2>1, <2>2, <2>3, <2>4, <2>6, RowsChanged
  <1>8. ASSUME NEW s \in Senders, SegmentEndEvent(s)
        PROVE  IInv'
    <2>1. \A r \in Senders : /\ task'[r].batch = task[r].batch
                             /\ task'[r].accepted = task[r].accepted
                             /\ NamesUser(task'[r])
      BY <1>8, <1>o, <1>y DEF SegmentEndEvent, NamesUser, Task
    <2>2. rows' = Enqueued(IdleEnded) /\ server' = server /\ late' = late
      BY <1>8 DEF SegmentEndEvent
    <2>. QED  BY <1>n, <1>t, <2>1, <2>2, EnqueueKeeps, RowsChanged
  <1>9. ASSUME NEW req \in late, ServeLate(req)
        PROVE  IInv'
    <2>1. req.user \in Employees /\ IsPrefix(req.batch) /\ req.batch \in SUBSET Ids
      BY <1>o DEF IInv, TypeOK, Request
    <2>2. \A r \in Senders : /\ task'[r] = task[r]
                             /\ NamesUser(task'[r])
      BY <1>9, <1>o DEF ServeLate
    <2>. QED  BY <1>9, <1>t, <2>1, <2>2, BatchStored DEF ServeLate
  <1>10. CASE Start \/ LoginEvent \/ LogoutEvent \/ SegmentStartEvent \/ Quit
    <2>1. /\ \E type \in EventTypes : rows' = Enqueued(type)
          /\ server' = server /\ late' = late /\ task' = task
      BY <1>10, <1>n DEF Start, LoginEvent, LogoutEvent, SegmentStartEvent, Quit
    <2>. QED  BY <1>o, <1>t, <2>1, EnqueueKeeps, RowsChanged
  <1>11. CASE Stop
    <2>1. \A s \in Senders : /\ task'[s].batch = {}
                             /\ task'[s].accepted = {}
                             /\ NamesUser(task'[s])
      BY <1>11 DEF Stop, NamesUser
    <2>2. \A req \in late' : IsPrefix(req.batch) /\ req.user \in Employees
      BY <1>11, <1>o DEF Stop, NamesUser
    <2>. QED  BY <1>11, <1>m, <1>t, <2>1, <2>2, TableKept DEF Stop
  <1>12. CASE \/ \E u \in Employees : LoginSession(u)
              \/ LogoutSession \/ LogoutAborted \/ UNCHANGED vars
    <2>1. rows' = rows /\ server' = server /\ late' = late /\ task' = task
      BY <1>12 DEF LoginSession, LogoutSession, LogoutAborted, vars
    <2>. QED  BY <1>o, <1>t, <2>1, TableKept
  <1>. QED
    BY <1>1, <1>2, <1>3, <1>4, <1>5, <1>6, <1>7, <1>8, <1>9, <1>10, <1>11, <1>12
       DEF Next, SenderStep, SenderFault

\* The strengthening is an invariant.
THEOREM Inductive == Spec => []IInv
  BY InitInv, InvStep, PTL DEF Spec

\* A row marked SUCCESS is stored at the server, in every behaviour of the
\* queue with its faults, crashes and concurrent flushes.
THEOREM SuccessOnlyWhenStored == Spec => []SuccessIsStored
  <1>1. IInv => SuccessIsStored
    BY DEF IInv
  <1>. QED  BY <1>1, Inductive, PTL

\* What the server has of the queue is closed under "enqueued before", up to
\* the events it refuses.
THEOREM DeliveryInOrder == Spec => []StoredInOrder
  <1>1. IInv => StoredInOrder
    BY DEF IInv
  <1>. QED  BY <1>1, Inductive, PTL

-----------------------------------------------------------------------------
(***************************************************************************)
(* EventQueue implements EventDelivery                                     *)
(***************************************************************************)

\* The mapped log and the mapped belief, as EventDelivery sees them.
Log == [i \in DOMAIN rows |-> rows[i].type]
Believed == {i \in DOMAIN rows : rows[i].status = "SUCCESS"}

\* An INSERT is an event that happens, or nothing when the disk is full.
LEMMA EnqueueHappens ==
  ASSUME IInv, TypeOK', NEW type \in EventTypes, rows' = Enqueued(type),
         server' = server
  PROVE  /\ Believed' = Believed
         /\ \/ Log' = Log
            \/ Len(Log) < MaxRows /\ Log' = Append(Log, type)
  <1>1. /\ rows \in Seq(Row) /\ Len(rows) <= MaxRows
        /\ DOMAIN rows = 1..Len(rows) /\ Len(rows) \in Nat
        /\ \A i \in DOMAIN rows : rows[i] \in Row
    BY LenProperties DEF IInv, TypeOK
  <1>2. Believed' = Believed
    <2>1. \A i \in DOMAIN rows : i \in DOMAIN rows' /\ rows'[i] = rows[i]
      BY <1>1, EnqueuedShape
    <2>2. \A i \in DOMAIN rows' \ DOMAIN rows : rows'[i].status = "PENDING"
      BY <1>1, EnqueuedShape
    <2>. QED  BY <2>1, <2>2 DEF Believed
  <1>3. CASE Len(rows) < MaxRows
    <2>. DEFINE new == [type |-> type, status |-> "PENDING", retries |-> 0]
    <2>1. rows' = Append(rows, new) /\ new \in Row /\ new.type = type
      BY <1>3 DEF Enqueued, Row
    <2>. HIDE DEF new
    <2>2. /\ Len(rows') = Len(rows) + 1 /\ DOMAIN rows' = 1..(Len(rows) + 1)
          /\ \A i \in 1..Len(rows) : rows'[i] = rows[i]
          /\ rows'[Len(rows) + 1] = new
      BY <1>1, <2>1
    <2>3. /\ Log \in Seq(EventTypes) /\ Len(Log) = Len(rows)
          /\ \A i \in 1..Len(rows) : Log[i] = rows[i].type
      <3>1. Log \in [1..Len(rows) -> EventTypes]
        BY <1>1 DEF Log, Row
      <3>. QED  BY <1>1, <3>1, FunctionIsSeq DEF Log
    <2>4. /\ Log' \in Seq(EventTypes) /\ Len(Log') = Len(rows) + 1
          /\ \A i \in 1..(Len(rows) + 1) : Log'[i] = rows'[i].type
      <3>1. \A i \in 1..(Len(rows) + 1) : rows'[i].type \in EventTypes
        BY <1>1, <2>1, <2>2 DEF Row
      <3>2. Log' \in [1..(Len(rows) + 1) -> EventTypes]
        BY <2>2, <3>1 DEF Log
      <3>. QED  BY <1>1, <2>2, <3>2, FunctionIsSeq DEF Log
    <2>5. /\ Append(Log, type) \in Seq(EventTypes)
          /\ Len(Append(Log, type)) = Len(rows) + 1
          /\ \A i \in 1..Len(rows) : Append(Log, type)[i] = Log[i]
          /\ Append(Log, type)[Len(rows) + 1] = type
      BY <1>1, <2>3
    <2>6. \A i \in 1..(Len(rows) + 1) : Log'[i] = Append(Log, type)[i]
      BY <1>1, <2>1, <2>2, <2>3, <2>4, <2>5
    <2>7. Log' = Append(Log, type)
      BY <2>4, <2>5, <2>6, SeqEqual
    <2>. QED  BY <1>2, <1>3, <2>3, <2>7
  <1>4. CASE ~(Len(rows) < MaxRows)
    BY <1>2, <1>4 DEF Enqueued, Log
  <1>. QED  BY <1>3, <1>4

\* A batch the server stores is a delivery in order.
LEMMA StoreDelivers ==
  ASSUME IInv, NEW user \in Employees, NEW batch \in SUBSET Ids,
         IsPrefix(batch), server' = Stored(user, batch), rows' = rows
  PROVE  Delivery!Deliver(user, batch)
  <1>1. DOMAIN Log = DOMAIN rows
    BY DEF Log
  <1>2. \A i : Acceptable(i) <=> i \in DOMAIN Log /\ Log[i] \notin RejectedTypes
    BY DEF Acceptable, Log
  <1>. QED
    BY <1>1, <1>2 DEF Delivery!Deliver, Delivery!Refused, Delivery!Positions,
                      Stored, IsPrefix, IsStored, Ids, Log

\* A fresh installation is an empty history with nothing delivered.
LEMMA InitImplements == Init => Delivery!Init
  BY DEF Init, Delivery!Init, Delivery!Positions, Ids

\* What a step of the queue does to rows and server is an event that happens, a
\* delivery, a belief about stored events, or nothing the abstraction sees.
LEMMA StepImplements ==
  IInv /\ TypeOK' /\ [Next]_vars => [Delivery!Next]_(Delivery!abstractVars)
  <1>. SUFFICES ASSUME IInv, TypeOK', [Next]_vars
                PROVE  [Delivery!Next]_(Delivery!abstractVars)
    OBVIOUS
  <1>. USE DEF agentVars
  <1>o. /\ \A s \in Senders : IsPrefix(task[s].batch) /\ NamesUser(task[s])
        /\ \A req \in late : IsPrefix(req.batch) /\ req.user \in Employees
    BY DEF IInv
  <1>y. /\ task \in [Senders -> Task] /\ rows \in Seq(Row)
        /\ DOMAIN rows = 1..Len(rows) /\ Len(rows) \in Nat
        /\ Len(rows) <= MaxRows
    BY LenProperties DEF IInv, TypeOK
  <1>n. /\ AppStarted \in EventTypes /\ AppStopped \in EventTypes
        /\ LoginSuccess \in EventTypes /\ LogoutType \in EventTypes
        /\ IdleStarted \in EventTypes /\ IdleEnded \in EventTypes
    BY DEF EventTypes
  <1>1. CASE rows' = rows /\ server' = server
    BY <1>1 DEF Delivery!abstractVars
  <1>2. ASSUME NEW type \in EventTypes, rows' = Enqueued(type), server' = server
        PROVE  [Delivery!Next]_(Delivery!abstractVars)
    <2>1. Believed' = Believed
      BY <1>2, EnqueueHappens
    <2>2. CASE Log' = Log
      BY <1>2, <2>1, <2>2 DEF Delivery!abstractVars, Log, Believed
    <2>3. CASE Len(Log) < MaxRows /\ Log' = Append(Log, type)
      <3>1. Delivery!Happen(type)
        BY <1>2, <2>1, <2>3 DEF Delivery!Happen, Log, Believed
      <3>2. Delivery!Next
        BY <3>1 DEF Delivery!Next
      <3>. QED  BY <3>2
    <2>. QED  BY <1>2, <2>2, <2>3, EnqueueHappens
  <1>3. ASSUME NEW user \in Employees, NEW batch \in SUBSET Ids,
               IsPrefix(batch), server' = Stored(user, batch), rows' = rows
        PROVE  [Delivery!Next]_(Delivery!abstractVars)
    <2>1. Delivery!Deliver(user, batch)
      BY <1>3, StoreDelivers
    <2>2. Delivery!Next
      BY <2>1 DEF Delivery!Next, Delivery!Positions, Ids
    <2>. QED  BY <2>2
  <1>4. ASSUME server' = server, DOMAIN rows' = DOMAIN rows, SuccessIsStored',
               \A i \in DOMAIN rows : rows'[i].type = rows[i].type
        PROVE  [Delivery!Next]_(Delivery!abstractVars)
    <2>1. Log' = Log
      BY <1>4 DEF Log
    <2>2. \A i \in Believed' : server[i] # NoUser
      BY <1>4 DEF SuccessIsStored, IsStored, Believed
    <2>3. Believed' \in SUBSET Ids
      BY <1>4, <1>y, BoundsAssumption DEF Believed, Ids
    <2>4. PICK ids \in SUBSET Ids : ids = Believed'
      BY <2>3
    <2>5. Delivery!Believe(ids)
      BY <1>4, <2>1, <2>2, <2>4 DEF Delivery!Believe, Log, Believed
    <2>6. Delivery!Next
      BY <2>5 DEF Delivery!Next, Delivery!Positions, Ids
    <2>. QED  BY <2>6
  <1>5. SuccessIsStored'
    <2>1. IInv'
      BY InvStep
    <2>. QED  BY <2>1 DEF IInv
  <1>6. ASSUME NEW s \in Senders, SenderStep(s)
        PROVE  [Delivery!Next]_(Delivery!abstractVars)
    <2>1. CASE CaptureSession(s) \/ SendBatch(s)
      BY <2>1, <1>1 DEF CaptureSession, SendBatch
    <2>2. CASE Serve(s)
      <3>1. task[s].user \in Employees /\ task[s].batch \in SUBSET Ids
        BY <2>2, <1>o, <1>y DEF Serve, NamesUser, Task
      <3>. QED  BY <2>2, <3>1, <1>o, <1>3 DEF Serve
    <2>3. CASE ReplyOk(s)
      <3>1. rows' = MarkSuccess(task[s].accepted) /\ server' = server
        BY <2>3 DEF ReplyOk, AckedIds
      <3>. QED  BY <3>1, <1>y, <1>4, <1>5, MarkSuccessShape
    <2>. QED  BY <1>6, <2>1, <2>2, <2>3 DEF SenderStep
  <1>7. ASSUME NEW s \in Senders, SenderFault(s)
        PROVE  [Delivery!Next]_(Delivery!abstractVars)
    <2>1. CASE BatchUnreadable(s) \/ ReplyOkUnmarked(s) \/ ReplyErrorUnmarked(s)
      BY <2>1, <1>1 DEF BatchUnreadable, ReplyOkUnmarked, ReplyErrorUnmarked, GivenUp
    <2>2. CASE ReplyError(s)
      <3>1. rows' = MarkFailed(task[s].batch) /\ server' = server
        BY <2>2 DEF ReplyError, GivenUp
      <3>. QED  BY <3>1, <1>y, <1>4, <1>5, MarkFailedShape
    <2>. QED  BY <1>7, <2>1, <2>2 DEF SenderFault
  <1>8. ASSUME NEW s \in Senders, SegmentEndEvent(s)
        PROVE  [Delivery!Next]_(Delivery!abstractVars)
    BY <1>8, <1>2, <1>n DEF SegmentEndEvent
  <1>9. ASSUME NEW req \in late, ServeLate(req)
        PROVE  [Delivery!Next]_(Delivery!abstractVars)
    <2>1. req.user \in Employees /\ IsPrefix(req.batch) /\ req.batch \in SUBSET Ids
      BY <1>o DEF IInv, TypeOK, Request
    <2>. QED  BY <1>9, <2>1, <1>3 DEF ServeLate
  <1>10. CASE Start \/ LoginEvent \/ LogoutEvent \/ SegmentStartEvent \/ Quit
    BY <1>10, <1>2, <1>n DEF Start, LoginEvent, LogoutEvent, SegmentStartEvent, Quit
  <1>11. CASE \/ Tick \/ Stop \/ \E u \in Employees : LoginSession(u)
              \/ LogoutSession \/ LogoutAborted \/ UNCHANGED vars
    BY <1>11, <1>1 DEF Tick, Stop, LoginSession, LogoutSession, LogoutAborted, vars
  <1>. QED
    BY <1>6, <1>7, <1>8, <1>9, <1>10, <1>11 DEF Next

\* The queue, with its concurrent senders, retries, faults and crashes,
\* implements in-order, once-only, irrevocable delivery.
THEOREM Refinement == Spec => ImplementsDelivery
  <1>1. IInv => TypeOK
    BY DEF IInv
  <1>. QED
    BY InitImplements, StepImplements, Inductive, <1>1, PTL
       DEF Spec, ImplementsDelivery, Delivery!Spec

-----------------------------------------------------------------------------
(***************************************************************************)
(* What is settled stays: EventuallySettled asks that every row the server *)
(* accepts ends up SUCCESS and stays so.  That it ends up there takes      *)
(* fairness; that it stays so does not.                                    *)
(***************************************************************************)

\* A row is done with when it is SUCCESS and no sender has it in its batch any more.
Done(i) ==
  /\ i \in DOMAIN rows /\ rows[i].status = "SUCCESS"
  /\ \A s \in Senders : i \notin task[s].batch

\* A row that is done with is never taken up again: no flush reads it, and no failure
\* of another, of a batch read before or of the process makes it FAILED.
DoneStays == [][\A i \in Ids : Done(i) => Done(i)']_vars

\* Whom an event is stored for is decided once, whoever sends it again and however
\* late a request arrives.
AttributionStays == [][\A i \in Ids : IsStored(i) => server'[i] = server[i]]_vars

\* What the server does not accept is neither stored there nor believed to be.
RefusedStaysUnsent ==
  \A i \in DOMAIN rows :
     rows[i].type \in RejectedTypes => ~IsStored(i) /\ rows[i].status # "SUCCESS"

\* A batch that a step puts into a sender's hands has no row that is SUCCESS.
LEMMA NextBatch ==
  ASSUME TypeOK, [Next]_vars, NEW s \in Senders, NEW i \in task'[s].batch
  PROVE  i \in task[s].batch \/ i \in Unsent
  <1>. DEFINE G == i \in task[s].batch \/ i \in Unsent
  <1>1. task \in [Senders -> Task]
    BY DEF TypeOK
  <1>2. ASSUME NEW t \in Senders, NEW new, task' = [task EXCEPT ![t] = new],
               new.batch \subseteq task[t].batch \cup Unsent
        PROVE  G
    BY <1>1, <1>2
  <1>3. ASSUME task' = task PROVE G
    BY <1>3
  <1>4. IdleTask.batch = {}
    BY DEF IdleTask
  <1>5. ASSUME NEW t \in Senders, SendBatch(t) PROVE G
    <2>1. PendingBatch \subseteq Unsent
      BY DEF PendingBatch, Oldest
    <2>2. PICK new : /\ task' = [task EXCEPT ![t] = new]
                     /\ new = IF PendingBatch = {} THEN IdleTask
                              ELSE [task[t] EXCEPT !.pc = "sent", !.batch = PendingBatch]
      BY <1>5 DEF SendBatch
    <2>3. new.batch \subseteq Unsent
      BY <1>1, <1>4, <2>1, <2>2 DEF Task
    <2>. QED  BY <1>2, <2>2, <2>3
  <1>6. ASSUME NEW t \in Senders,
               CaptureSession(t) \/ Serve(t) \/ SegmentEndEvent(t) \/ Tick
        PROVE  G
    <2>1. CASE CaptureSession(t)
      <3>1. PICK new : /\ task' = [task EXCEPT ![t] = new]
                       /\ new = IF session = NoUser THEN IdleTask
                                ELSE [task[t] EXCEPT !.pc = "captured", !.user = session]
        BY <2>1 DEF CaptureSession
      <3>2. new.batch \subseteq task[t].batch
        BY <1>1, <1>4, <3>1 DEF Task
      <3>. QED  BY <1>2, <3>1, <3>2
    <2>2. CASE Serve(t)
      BY <1>1, <2>2 DEF Serve, Task
    <2>3. CASE SegmentEndEvent(t)
      BY <1>1, <2>3 DEF SegmentEndEvent, Task
    <2>4. CASE Tick
      BY <1>1, <2>4, SendersAssumption DEF Tick, Task
    <2>. QED  BY <1>6, <2>1, <2>2, <2>3, <2>4
  <1>7. ASSUME NEW t \in Senders,
               ReplyOk(t) \/ SenderFault(t)
        PROVE  G
    <2>1. task' = [task EXCEPT ![t] = IdleTask]
      BY <1>7 DEF ReplyOk, SenderFault, BatchUnreadable, ReplyOkUnmarked, ReplyError,
                      ReplyErrorUnmarked, GivenUp
    <2>. QED  BY <1>2, <1>4, <2>1
  <1>8. ASSUME Stop PROVE G
    BY <1>4, <1>8 DEF Stop
  <1>9. ASSUME \/ \E req \in late : ServeLate(req)
               \/ Start \/ Quit
               \/ \E u \in Employees : LoginSession(u)
               \/ LoginEvent \/ LogoutEvent \/ LogoutSession \/ LogoutAborted
               \/ SegmentStartEvent \/ UNCHANGED vars
        PROVE  task' = task
    BY <1>9 DEF ServeLate, Start, Quit, LoginSession, LoginEvent, LogoutEvent, LogoutSession,
                LogoutAborted, SegmentStartEvent, vars
  <1>. HIDE DEF G
  <1>10. Tick => \E t \in Senders : CaptureSession(t) \/ Serve(t) \/ SegmentEndEvent(t) \/ Tick
    BY SendersAssumption
  <1>11. G
    BY <1>3, <1>5, <1>6, <1>7, <1>8, <1>9, <1>10 DEF Next, SenderStep
  <1>. QED  BY <1>11 DEF G

\* What a step does to the table: an INSERT or one of the two UPDATEs.
LEMMA NextRows ==
  ASSUME [Next]_vars
  PROVE  \/ rows' = rows
         \/ \E type \in EventTypes : rows' = Enqueued(type)
         \/ \E ids : rows' = MarkSuccess(ids)
         \/ \E s \in Senders : rows' = MarkFailed(task[s].batch)
  <1>1. ASSUME \/ Start \/ Quit \/ LoginEvent \/ LogoutEvent \/ SegmentStartEvent
               \/ \E s \in Senders : SegmentEndEvent(s)
        PROVE  \E type \in EventTypes : rows' = Enqueued(type)
    BY <1>1 DEF Start, Quit, LoginEvent, LogoutEvent, SegmentStartEvent, SegmentEndEvent,
                EventTypes
  <1>2. ASSUME NEW s \in Senders, ReplyOk(s) PROVE \E ids : rows' = MarkSuccess(ids)
    BY <1>2 DEF ReplyOk
  <1>3. ASSUME NEW s \in Senders, ReplyError(s) PROVE rows' = MarkFailed(task[s].batch)
    BY <1>3 DEF ReplyError
  <1>4. ASSUME \/ Tick \/ Stop \/ LogoutSession \/ LogoutAborted
               \/ \E u \in Employees : LoginSession(u)
               \/ \E req \in late : ServeLate(req)
               \/ \E s \in Senders : \/ CaptureSession(s) \/ SendBatch(s) \/ Serve(s)
                                     \/ BatchUnreadable(s) \/ ReplyOkUnmarked(s)
                                     \/ ReplyErrorUnmarked(s)
               \/ UNCHANGED vars
        PROVE  rows' = rows
    BY <1>4 DEF Tick, Stop, LogoutSession, LogoutAborted, LoginSession, ServeLate,
                CaptureSession, SendBatch, Serve, BatchUnreadable, ReplyOkUnmarked,
                ReplyErrorUnmarked, vars
  <1>. QED  BY <1>1, <1>2, <1>3, <1>4 DEF Next, SenderStep, SenderFault

\* No row goes away or changes its type, and one that is SUCCESS stays so, unless a
\* batch it is in fails.
LEMMA RowsKept ==
  ASSUME TypeOK, [Next]_vars, NEW i \in DOMAIN rows
  PROVE  /\ i \in DOMAIN rows' /\ rows'[i].type = rows[i].type
         /\ rows[i].status = "SUCCESS" /\ (\A s \in Senders : i \notin task[s].batch)
                => rows'[i].status = "SUCCESS"
  <1>0. rows \in Seq(Row) /\ Len(rows) <= MaxRows
    BY DEF TypeOK
  <1>1. ASSUME NEW type \in EventTypes, rows' = Enqueued(type)
        PROVE  i \in DOMAIN rows' /\ rows'[i] = rows[i]
    BY <1>0, <1>1, EnqueuedShape
  <1>2. ASSUME NEW ids, rows' = MarkSuccess(ids)
        PROVE  /\ i \in DOMAIN rows' /\ rows'[i].type = rows[i].type
               /\ rows[i].status = "SUCCESS" => rows'[i].status = "SUCCESS"
    BY <1>0, <1>2, MarkSuccessShape
  <1>3. ASSUME NEW s \in Senders, rows' = MarkFailed(task[s].batch)
        PROVE  /\ i \in DOMAIN rows' /\ rows'[i].type = rows[i].type
               /\ i \notin task[s].batch => rows'[i].status = rows[i].status
    BY <1>0, <1>3, MarkFailedShape
  <1>. QED  BY <1>1, <1>2, <1>3, NextRows

\* What a step does at the server: nothing, or it stores a batch.
LEMMA NextStored ==
  ASSUME [Next]_vars PROVE server' = server \/ \E user, batch : server' = Stored(user, batch)
  <1>1. ASSUME NEW s \in Senders, Serve(s) PROVE \E user, batch : server' = Stored(user, batch)
    BY <1>1 DEF Serve
  <1>2. ASSUME NEW req \in late, ServeLate(req)
        PROVE  \E user, batch : server' = Stored(user, batch)
    BY <1>2 DEF ServeLate
  <1>3. ASSUME \/ Tick \/ Start \/ Quit \/ Stop
               \/ LoginEvent \/ LogoutEvent \/ LogoutSession \/ LogoutAborted
               \/ SegmentStartEvent
               \/ \E u \in Employees : LoginSession(u)
               \/ \E s \in Senders : \/ CaptureSession(s) \/ SendBatch(s) \/ ReplyOk(s)
                                     \/ SenderFault(s) \/ SegmentEndEvent(s)
               \/ UNCHANGED vars
        PROVE  server' = server
    BY <1>3 DEF Tick, Start, Quit, Stop, LoginEvent, LogoutEvent, LogoutSession,
                LogoutAborted, SegmentStartEvent, LoginSession, CaptureSession, SendBatch,
                ReplyOk, SenderFault, BatchUnreadable, ReplyOkUnmarked, ReplyError,
                ReplyErrorUnmarked, GivenUp,
                SegmentEndEvent, vars
  <1>. QED  BY <1>1, <1>2, <1>3 DEF Next, SenderStep

\* A row that is done with stays so.
THEOREM SettledStays == Spec => DoneStays
  <1>1. TypeOK /\ [Next]_vars => [\A i \in Ids : Done(i) => Done(i)']_vars
    <2>. SUFFICES ASSUME TypeOK, [Next]_vars, NEW i \in Ids, Done(i) PROVE Done(i)'
      OBVIOUS
    <2>1. i \in DOMAIN rows' /\ rows'[i].status = "SUCCESS"
      BY RowsKept DEF Done
    <2>2. i \notin Unsent
      BY DEF Unsent, Done
    <2>3. \A s \in Senders : i \notin task'[s].batch
      BY <2>2, NextBatch DEF Done
    <2>. QED  BY <2>1, <2>3 DEF Done
  <1>. QED  BY <1>1, TypeCorrect, PTL DEF Spec, DoneStays

\* An event is stored for one employee and for good.
THEOREM StoredForGood == Spec => AttributionStays
  <1>1. TypeOK /\ [Next]_vars => [\A i \in Ids : IsStored(i) => server'[i] = server[i]]_vars
    <2>. SUFFICES ASSUME TypeOK, [Next]_vars, NEW i \in Ids, IsStored(i)
                  PROVE  server'[i] = server[i]
      OBVIOUS
    <2>1. ASSUME NEW user, NEW batch, server' = Stored(user, batch)
          PROVE  server'[i] = server[i]
      BY <2>1 DEF Stored, IsStored
    <2>. QED  BY <2>1, NextStored
  <1>. QED  BY <1>1, TypeCorrect, PTL DEF Spec, AttributionStays

\* An event of a type the server refuses is never taken for delivered.
THEOREM RefusedIsNeverSuccess == Spec => []RefusedStaysUnsent
  <1>. DEFINE J == \A i \in Ids : IsStored(i) => Acceptable(i)
  <1>1. Init => J
    BY DEF Init, IsStored
  <1>2. TypeOK /\ J /\ [Next]_vars => J'
    <2>. SUFFICES ASSUME TypeOK, J, [Next]_vars, NEW i \in Ids, IsStored(i)'
                  PROVE  Acceptable(i)'
      OBVIOUS
    <2>1. Acceptable(i)
      <3>1. ASSUME NEW user, NEW batch, server' = Stored(user, batch) PROVE Acceptable(i)
        BY <3>1 DEF Stored, IsStored
      <3>. QED  BY <3>1, NextStored DEF IsStored
    <2>. QED  BY <2>1, RowsKept DEF Acceptable
  <1>3. IInv /\ J => RefusedStaysUnsent
    <2>. SUFFICES ASSUME IInv, J, NEW i \in DOMAIN rows, rows[i].type \in RejectedTypes
                  PROVE  ~IsStored(i) /\ rows[i].status # "SUCCESS"
      BY DEF RefusedStaysUnsent
    <2>1. i \in Ids
      BY LenProperties, BoundsAssumption DEF IInv, TypeOK, Ids
    <2>2. ~IsStored(i)
      BY <2>1 DEF Acceptable
    <2>. QED  BY <2>2 DEF IInv, SuccessIsStored
  <1>. HIDE DEF J
  <1>. QED  BY <1>1, <1>2, <1>3, TypeCorrect, Inductive, PTL DEF Spec

=============================================================================
