--------------------- MODULE GovernanceScheduler_proofs ---------------------
(***************************************************************************)
(* Proofs about the governance scheduler, for every set of rows, runners   *)
(* and lock keys, every configuration RunnerConfig.validate accepts and    *)
(* any number of faults.                                                   *)
(*                                                                         *)
(* Exclusion rests on who holds a lock (LockInv).  The second half is for  *)
(* one caller: its copies of the rows stand until it has written them, so  *)
(* a run starts at the cursor of its row, and what was eligible when the   *)
(* cycle began stays ahead of that cursor (DrainInv).                      *)
(***************************************************************************)
EXTENDS GovernanceScheduler, NaturalOrder, FiniteSetTheorems, SequenceTheorems, TLAPS

\* A caller past "ready" is working on the head of its queue.
CallHasJob == \A u \in Runners : pc[u] # "ready" => queue[u] # <<>>

\* A caller past TryLockOrgJob holds the lock of its row until Release, unless a
\* session that held a lock was lost.
HoldsLock == lost = {} => \A u \in Runners : pc[u] # "ready" => lock[KeyOf(u)] = u

TypeInv == TypeOK /\ CallHasJob
LockInv == TypeInv /\ HoldsLock

(***************************************************************************)
(* Facts about the operators the actions are built from.                   *)
(***************************************************************************)

\* A queue that is not empty has a head that is a job state and a tail that is a queue.
LEMMA QueueFacts ==
    ASSUME NEW q \in Seq(JobState), q # <<>>
    PROVE  Head(q) \in JobState /\ Tail(q) \in Seq(JobState)
  OBVIOUS

\* The backoff is a time the configuration allows.
LEMMA BackoffType == \A n \in Int : backoffFor(n) \in Int
  BY ConfigAssumption DEF backoffFor

\* A bounded nonempty set of items has a largest element.
LEMMA LargestItem ==
    ASSUME NEW S \in SUBSET Items, S # {}
    PROVE  \E m \in S : \A n \in S : n <= m
  <1> DEFINE T == {LastItem - i : i \in S}
  <1>0. LastItem \in Nat
    BY InstanceAssumption
  <1>1. T \in SUBSET Nat /\ T # {}
    <2>1. \A i \in S : LastItem - i \in Nat
      BY <1>0 DEF Items
    <2>. QED
      BY <2>1
  <1>2. PICK t \in T : \A n \in T : t <= n
    BY <1>1, SmallestNat
  <1>3. PICK m \in S : t = LastItem - m
    BY <1>2
  <1>4. \A n \in S : LastItem - m <= LastItem - n
    BY <1>2, <1>3
  <1>5. \A n \in S : n <= m
    <2> SUFFICES ASSUME NEW n \in S PROVE n <= m
      OBVIOUS
    <2>1. n \in Int /\ m \in Int /\ LastItem - m <= LastItem - n
      BY <1>4 DEF Items
    <2>. QED
      BY <1>0, <2>1
  <1>. QED
    BY <1>5

\* A page is a set of items, and its cursor is one of the cursors.
LEMMA PageFacts ==
    ASSUME TypeOK, NEW r \in Rows, NEW c \in Cursors
    PROVE  /\ PageItems(r, c) \in SUBSET Items
           /\ NextCursor(PageItems(r, c), c) \in Cursors
  <1> DEFINE page == PageItems(r, c)
  <1>1. page \subseteq Items
    BY DEF PageItems, TypeOK
  <1>3. CASE page = {}
    BY <1>1, <1>3 DEF NextCursor
  <1>4. CASE page # {}
    <2>1. \E i \in page : \A j \in page : j <= i
      BY <1>1, <1>4, LargestItem
    <2>2. NextCursor(page, c) \in page
      BY <1>4, <2>1 DEF NextCursor
    <2>. QED
      BY <1>1, <2>2, InstanceAssumption DEF Items, Cursors
  <1>. QED
    BY <1>1, <1>3, <1>4


\* What a committed page leaves of the work and of the histories.
LEMMA PageCommitsType ==
    ASSUME TypeOK, NEW r \in Rows, NEW page \in SUBSET Items, PageCommits(r, page)
    PROVE  /\ work' \in [Rows -> SUBSET Items]
           /\ pending' \in [Rows -> SUBSET Items]
           /\ lost' \in SUBSET Runners
  BY DEF TypeOK, PageCommits

\* A finite set of rows has a finite set of due times.
LEMMA FiniteTimes ==
    ASSUME NEW S \in SUBSET Rows, NEW f \in [Rows -> Int]
    PROVE  Cardinality({f[s] : s \in S}) \in Nat
  <1> DEFINE T == {f[s] : s \in S}
             g == [s \in S |-> f[s]]
  <1>1. IsFiniteSet(S)
    BY FS_Subset, InstanceAssumption
  <1>2. g \in Surjection(S, T)
    BY DEF Surjection
  <1>3. IsFiniteSet(T)
    <2> HIDE DEF g, T
    <2>. QED
      BY <1>1, <1>2, FS_Surjection
  <1>. QED
    BY <1>3, FS_CardinalityType

\* Time passing keeps due times integers: the rank of an overdue row is minus the size
\* of a finite set.
LEMMA TickType == ASSUME TypeInv, Tick PROVE TypeInv'
  <1> DEFINE passed == [r \in Rows |-> due[r] - 1]
             overdue == {r \in Rows : passed[r] < 0}
             late(r) == {x \in overdue : passed[x] >= passed[r]}
             size(r) == Cardinality({passed[s] : s \in late(r)})
  <1>1. passed \in [Rows -> Int]
    BY DEF TypeInv, TypeOK
  <1>2. \A r \in Rows : size(r) \in Nat
    <2> HIDE DEF passed
    <2>. QED
      BY <1>1, FiniteTimes
  <1>3. due' = [r \in Rows |-> IF r \in overdue THEN -size(r) ELSE passed[r]]
    BY DEF Tick
  <1>4. due' \in [Rows -> Int]
    <2> HIDE DEF size, passed
    <2>. QED
      BY <1>1, <1>2, <1>3
  <1>5. budget' \in [Runners -> Nat]
    BY DEF Tick, TypeInv, TypeOK
  <1>. QED
    BY <1>4, <1>5 DEF Tick, TypeInv, TypeOK, CallHasJob, history

\* The row of a call is a row.
LEMMA JobType ==
    ASSUME TypeOK, NEW u \in Runners, queue[u] # <<>>
    PROVE  /\ JobOf(u) \in JobState
           /\ RowOf(u) \in Rows
           /\ KeyOf(u) \in Keys
           /\ Tail(queue[u]) \in Seq(JobState)
  <1>1. queue[u] \in Seq(JobState)
    BY DEF TypeOK
  <1>2. JobOf(u) \in JobState /\ Tail(queue[u]) \in Seq(JobState)
    BY <1>1, QueueFacts DEF JobOf
  <1>. QED
    BY <1>2, InstanceAssumption DEF RowOf, KeyOf, JobState

\* The end of a call keeps the caller's state well typed.
LEMMA ReturnsType ==
    ASSUME TypeInv, NEW u \in Runners, queue[u] # <<>>, Returns(u)
    PROVE  /\ pc' \in [Runners -> Steps]
           /\ queue' \in [Runners -> Seq(JobState)]
           /\ cursor' \in [Runners -> Cursors]
           /\ pages' \in [Runners -> Nat]
           /\ budget' \in [Runners -> Nat]
           /\ cancelled' \in [Runners -> BOOLEAN]
           /\ CallHasJob'
  <1>1. Tail(queue[u]) \in Seq(JobState)
    BY JobType DEF TypeInv
  <1>. QED
    BY <1>1, InstanceAssumption
       DEF TypeInv, TypeOK, CallHasJob, Returns, Steps, Cursors, SchedulerCursorStart

(***************************************************************************)
(* Type correctness.                                                       *)
(***************************************************************************)

\* Listing a batch of due jobs leaves the caller a well-typed queue of copies of rows.
LEMMA ListDueJobsType ==
    ASSUME TypeInv, NEW u \in Runners, ListDueJobs(u)
    PROVE  TypeInv'
  <1>1. PICK list \in [1 .. Smaller(ListLimit, Cardinality(DueRows)) -> DueRows] :
            queue' = [queue EXCEPT ![u] =
                [i \in DOMAIN list |-> [row |-> list[i], cursor |-> row[list[i]].cursor,
                                        failures |-> row[list[i]].failures]]]
    BY DEF ListDueJobs
  <1> DEFINE n == Smaller(ListLimit, Cardinality(DueRows))
             q == [i \in 1 .. n |-> [row |-> list[i], cursor |-> row[list[i]].cursor,
                                     failures |-> row[list[i]].failures]]
  <1>2. IsFiniteSet(DueRows) /\ Cardinality(DueRows) \in Nat
    BY FS_Subset, FS_CardinalityType, InstanceAssumption DEF DueRows
  <1>3. n \in Nat
    BY <1>2, ConfigAssumption DEF Smaller
  <1>4. \A i \in 1 .. n : q[i] \in JobState
    BY DEF DueRows, TypeInv, TypeOK, SchedulerJob, JobState
  <1>5. q \in Seq(JobState)
    <2> HIDE DEF n
    <2>1. q \in [1 .. n -> JobState]
      BY <1>4
    <2> HIDE DEF q
    <2>. QED
      BY <1>3, <2>1
  <1>6. queue' = [queue EXCEPT ![u] = q]
    BY <1>1
  <1> HIDE DEF q
  <1>7. queue' \in [Runners -> Seq(JobState)]
    BY <1>5, <1>6 DEF TypeInv, TypeOK
  <1>8. CallHasJob'
    BY <1>6 DEF ListDueJobs, CallHasJob, TypeInv, TypeOK
  <1>. QED
    BY <1>7, <1>8 DEF ListDueJobs, TypeInv, TypeOK, loop, history

\* Every step inside RunDueJob keeps rows, locks and callers well typed.
LEMMA CallType ==
    ASSUME TypeInv, NEW u \in Runners, Call(u)
    PROVE  TypeInv'
  <1>1. queue[u] # <<>>
    BY DEF Call, InCall, UnknownJob, TryLockOrgJob, SkippedLocked, LockError,
           MarkJobStarted, MarkStartedError, RunPage, RunPageError, StopAtBound, Finish,
           MarkJobCompleted, MarkJobPartial, MarkJobFailed, FinishError, Release
  <1>2. /\ JobOf(u) \in JobState
        /\ RowOf(u) \in Rows
        /\ KeyOf(u) \in Keys
    BY <1>1, JobType DEF TypeInv
  <1>3. CASE UnknownJob(u) \/ SkippedLocked(u) \/ LockError(u)
    <2>1. Returns(u) /\ UNCHANGED <<row, due, lock, work, history>> /\ faults' \in Nat
      BY <1>3 DEF UnknownJob, SkippedLocked, LockError, Fault, TypeInv, TypeOK
    <2>. QED
      BY <1>1, <2>1, ReturnsType DEF TypeInv, TypeOK, history
  <1>4. CASE TryLockOrgJob(u)
    BY <1>1, <1>2, <1>4
       DEF TryLockOrgJob, GoTo, TypeInv, TypeOK, CallHasJob, Steps, loop, history
  <1>5. CASE MarkJobStarted(u)
    <2>1. JobOf(u).cursor \in Cursors
      BY <1>2 DEF JobState
    <2>. QED
      BY <1>1, <1>2, <1>5, <2>1, ConfigAssumption
         DEF MarkJobStarted, GoTo, TypeInv, TypeOK, CallHasJob, Steps, SchedulerJob,
             SchedulerJobStatus
  <1>6. CASE MarkStartedError(u) \/ FinishError(u)
    <2>1. GoTo(u, "release") /\ UNCHANGED <<row, due, lock, loop, work, history>>
      BY <1>6 DEF MarkStartedError, FinishError
    <2>2. faults' \in Nat
      BY <1>6 DEF MarkStartedError, FinishError, Fault, TypeInv, TypeOK
    <2>. QED
      BY <1>1, <2>1, <2>2 DEF GoTo, TypeInv, TypeOK, CallHasJob, Steps, loop, history
  <1>7. CASE RunPage(u)
    <2> DEFINE page == PageItems(RowOf(u), cursor[u])
               next == NextCursor(page, cursor[u])
    <2>1. page \in SUBSET Items /\ next \in Cursors
      BY <1>2, PageFacts DEF TypeInv, TypeOK
    <2>2. PageCommits(RowOf(u), page)
      BY <1>7 DEF RunPage
    <2>3. /\ work' \in [Rows -> SUBSET Items]
          /\ pending' \in [Rows -> SUBSET Items]
          /\ lost' \in SUBSET Runners
      BY <1>2, <2>1, <2>2, PageCommitsType DEF TypeInv
    <2>. QED
      BY <1>1, <1>7, <2>1, <2>3
         DEF RunPage, GoTo, TypeInv, TypeOK, CallHasJob, Steps, Outcomes
  <1>8. CASE RunPageError(u)
    <2> DEFINE page == PageItems(RowOf(u), cursor[u])
               next == NextCursor(page, cursor[u])
    <2>1. page \in SUBSET Items /\ next \in Cursors
      BY <1>2, PageFacts DEF TypeInv, TypeOK
    <2>2. UNCHANGED <<work, history>> \/ PageCommits(RowOf(u), page)
      BY <1>8 DEF RunPageError
    <2>3. /\ work' \in [Rows -> SUBSET Items]
          /\ pending' \in [Rows -> SUBSET Items]
          /\ lost' \in SUBSET Runners
      BY <1>2, <2>1, <2>2, PageCommitsType DEF TypeInv, TypeOK, history
    <2>. QED
      BY <1>1, <1>8, <2>3
         DEF RunPageError, GoTo, TypeInv, TypeOK, CallHasJob, Steps, Outcomes, loop
  <1>9. CASE StopAtBound(u)
    BY <1>1, <1>9
       DEF StopAtBound, GoTo, TypeInv, TypeOK, CallHasJob, Steps, Outcomes, loop, history
  <1>10. CASE Finish(u)
    <2>1. row' \in [Rows -> SchedulerJob] /\ due' \in [Rows -> Int]
      <3>1. CASE MarkJobCompleted(u)
        <4>1. SchedulerCursorStart \in Cursors
          BY InstanceAssumption DEF Cursors, SchedulerCursorStart
        <4>. QED
          BY <1>2, <3>1, <4>1, ConfigAssumption
             DEF MarkJobCompleted, TypeInv, TypeOK, SchedulerJob, SchedulerJobStatus
      <3>2. CASE MarkJobPartial(u)
        BY <1>2, <3>2, ConfigAssumption
           DEF MarkJobPartial, TypeInv, TypeOK, SchedulerJob, SchedulerJobStatus
      <3>3. CASE MarkJobFailed(u)
        <4>1. JobOf(u).failures + 1 \in Int
          BY <1>2 DEF JobState
        <4>2. backoffFor(JobOf(u).failures + 1) \in Int
          BY <4>1, BackoffType
        <4>. QED
          BY <1>2, <3>3, <4>2
             DEF MarkJobFailed, TypeInv, TypeOK, SchedulerJob, SchedulerJobStatus
      <3>. QED
        BY <1>10, <3>1, <3>2, <3>3 DEF Finish
    <2>. QED
      BY <1>1, <1>10, <2>1
         DEF Finish, GoTo, TypeInv, TypeOK, CallHasJob, Steps, loop, history
  <1>11. CASE Release(u)
    BY <1>1, <1>11, ReturnsType DEF Release, Unlocked, TypeInv, TypeOK, history
  <1>. QED
    BY <1>3, <1>4, <1>5, <1>6, <1>7, <1>8, <1>9, <1>10, <1>11 DEF Call

\* A caller inside RunDueJob always has a row it works on, and all state is well typed.
LEMMA TypeInvariant == Spec => []TypeInv
  <1>1. Init => TypeInv
    <2> SUFFICES ASSUME Init PROVE TypeInv
      OBVIOUS
    <2>1. <<>> \in Seq(JobState)
      OBVIOUS
    <2>. QED
      BY <2>1, InstanceAssumption
         DEF Init, TypeInv, TypeOK, CallHasJob, SchedulerJob, SchedulerJobStatus, Steps,
             Cursors, SchedulerCursorStart
  <1>2. TypeInv /\ [Next]_vars => TypeInv'
    <2> SUFFICES ASSUME TypeInv, [Next]_vars PROVE TypeInv'
      OBVIOUS
    <2>1. CASE UNCHANGED vars
      BY <2>1 DEF vars, TypeInv, TypeOK, CallHasJob, loop, history
    <2>2. CASE Tick
      BY <2>2, TickType
    <2>3. ASSUME NEW r \in Rows, NEW on \in BOOLEAN, SetEnabled(r, on) PROVE TypeInv'
      BY <2>3 DEF SetEnabled, TypeInv, TypeOK, CallHasJob, SchedulerJob, loop, history
    <2>4. ASSUME NEW r \in Rows, NEW i \in Items, BecomesEligible(r, i) PROVE TypeInv'
      BY <2>4 DEF BecomesEligible, TypeInv, TypeOK, CallHasJob, loop, history
    <2>5. ASSUME NEW u \in Runners, Cancel(u) PROVE TypeInv'
      BY <2>5 DEF Cancel, Fault, TypeInv, TypeOK, CallHasJob, loop, history
    <2>6. ASSUME NEW u \in Runners, Crash(u) PROVE TypeInv'
      BY <2>6, InstanceAssumption
         DEF Crash, Fault, Unlocked, TypeInv, TypeOK, CallHasJob, Steps, Cursors,
             SchedulerCursorStart, history
    <2>7. ASSUME NEW u \in Runners, SessionLost(u) PROVE TypeInv'
      BY <2>7 DEF SessionLost, Fault, Unlocked, TypeInv, TypeOK, CallHasJob, loop, history
    <2>. QED
      BY <2>1, <2>2, <2>3, <2>4, <2>5, <2>6, <2>7, ListDueJobsType, CallType DEF Next
  <1>. QED
    BY <1>1, <1>2, PTL DEF Spec

\* Type correctness of the scheduler: rows, locks, callers and work sets stay well formed.
THEOREM TypeCorrect == Spec => []TypeOK
  <1>1. TypeInv => TypeOK
    BY DEF TypeInv
  <1>. QED
    BY <1>1, TypeInvariant, PTL

(***************************************************************************)
(* Mutual exclusion.  MutualExclusion is not inductive: that two callers   *)
(* are not in the same row says nothing about who holds the lock.  The     *)
(* inductive fact is HoldsLock: from TryLockOrgJob to Release the caller   *)
(* is the holder recorded for the key of its row.                          *)
(***************************************************************************)

\* A step that leaves the callers' places and queues and the locks alone keeps HoldsLock.
LEMMA SameCallsHoldsLock ==
    ASSUME HoldsLock, UNCHANGED <<pc, queue, lock, lost>>
    PROVE  HoldsLock'
  BY DEF HoldsLock, KeyOf, RowOf, JobOf

\* Ending a call keeps HoldsLock for the callers that are still inside one.
LEMMA ReturnsHoldsLock ==
    ASSUME LockInv, NEW u \in Runners, Returns(u), UNCHANGED lost,
           lock' = lock \/ lock' = Unlocked(u)
    PROVE  HoldsLock'
  <1> SUFFICES ASSUME lost = {}, NEW v \in Runners, pc'[v] # "ready"
               PROVE  lock'[KeyOf(v)'] = v
    BY DEF HoldsLock
  <1>1. v # u /\ pc[v] = pc'[v] /\ queue'[v] = queue[v]
    BY DEF Returns, LockInv, TypeInv, TypeOK
  <1>2. KeyOf(v)' = KeyOf(v) /\ lock[KeyOf(v)] = v
    BY <1>1 DEF KeyOf, RowOf, JobOf, LockInv, HoldsLock
  <1>3. KeyOf(v) \in Keys
    BY <1>1, JobType DEF LockInv, TypeInv, CallHasJob
  <1>. QED
    BY <1>1, <1>2, <1>3 DEF Unlocked

\* Moving on inside a call keeps HoldsLock.
LEMMA GoToHoldsLock ==
    ASSUME LockInv, NEW u \in Runners, pc[u] # "ready", NEW at, GoTo(u, at),
           UNCHANGED <<lock, lost>>
    PROVE  HoldsLock'
  BY DEF GoTo, LockInv, TypeInv, TypeOK, HoldsLock, KeyOf, RowOf, JobOf

\* Every step of a call keeps HoldsLock.
LEMMA CallHoldsLock ==
    ASSUME LockInv, NEW u \in Runners, Call(u)
    PROVE  HoldsLock'
  <1>1. CASE UnknownJob(u) \/ SkippedLocked(u) \/ LockError(u) \/ Release(u)
    BY <1>1, ReturnsHoldsLock DEF UnknownJob, SkippedLocked, LockError, Release, history
  <1>2. CASE TryLockOrgJob(u)
    <2> SUFFICES ASSUME lost = {}, NEW v \in Runners, pc'[v] # "ready"
                 PROVE  lock'[KeyOf(v)'] = v
      BY <1>2 DEF HoldsLock, TryLockOrgJob, history
    <2>1. KeyOf(v)' = KeyOf(v) /\ KeyOf(u) \in Keys
      BY <1>2, JobType DEF TryLockOrgJob, GoTo, InCall, KeyOf, RowOf, JobOf, LockInv, TypeInv
    <2>2. CASE v = u
      BY <1>2, <2>1, <2>2 DEF TryLockOrgJob, LockInv, TypeInv, TypeOK
    <2>3. CASE v # u
      <3>1. pc[v] # "ready" /\ lock[KeyOf(v)] = v /\ KeyOf(v) \in Keys
        BY <1>2, <2>3, JobType
           DEF TryLockOrgJob, GoTo, LockInv, TypeInv, TypeOK, HoldsLock, CallHasJob
      <3>2. KeyOf(v) # KeyOf(u)
        BY <1>2, <3>1, InstanceAssumption DEF TryLockOrgJob
      <3>. QED
        BY <1>2, <2>1, <3>1, <3>2 DEF TryLockOrgJob, LockInv, TypeInv, TypeOK
    <2>. QED
      BY <2>2, <2>3
  <1>3. CASE \/ MarkJobStarted(u) \/ MarkStartedError(u) \/ RunPage(u) \/ RunPageError(u)
             \/ StopAtBound(u) \/ Finish(u) \/ FinishError(u)
    <2>1. pc[u] # "ready" /\ UNCHANGED <<lock, lost>> /\ \E at : GoTo(u, at)
      BY <1>3 DEF MarkJobStarted, MarkStartedError, RunPage, RunPageError, StopAtBound,
                  Finish, MarkJobCompleted, MarkJobPartial, MarkJobFailed, FinishError,
                  PageCommits, InCall, Outcomes, history
    <2>. QED
      BY <2>1, GoToHoldsLock
  <1>. QED
    BY <1>1, <1>2, <1>3 DEF Call

\* While no lock session is lost, a caller inside RunDueJob holds the lock of its row.
LEMMA LockInvariant == Spec => []LockInv
  <1>1. Init => HoldsLock
    BY DEF Init, HoldsLock
  <1>2. TypeInv /\ HoldsLock /\ [Next]_vars => HoldsLock'
    <2> SUFFICES ASSUME LockInv, [Next]_vars PROVE HoldsLock'
      BY DEF LockInv
    <2>1. CASE UNCHANGED vars
      BY <2>1, SameCallsHoldsLock DEF vars, LockInv, history
    <2>2. CASE Tick
      BY <2>2, SameCallsHoldsLock DEF Tick, LockInv, history
    <2>3. ASSUME NEW r \in Rows, NEW on \in BOOLEAN, SetEnabled(r, on) PROVE HoldsLock'
      BY <2>3, SameCallsHoldsLock DEF SetEnabled, LockInv, history
    <2>4. ASSUME NEW r \in Rows, NEW i \in Items, BecomesEligible(r, i) PROVE HoldsLock'
      BY <2>4, SameCallsHoldsLock DEF BecomesEligible, LockInv, history
    <2>5. ASSUME NEW u \in Runners, ListDueJobs(u) PROVE HoldsLock'
      BY <2>5 DEF ListDueJobs, HoldsLock, KeyOf, RowOf, JobOf, LockInv, TypeInv, TypeOK,
                  history
    <2>6. ASSUME NEW u \in Runners, Cancel(u) PROVE HoldsLock'
      BY <2>6, SameCallsHoldsLock DEF Cancel, LockInv, history
    <2>7. ASSUME NEW u \in Runners, Crash(u) PROVE HoldsLock'
      <3> SUFFICES ASSUME lost = {}, NEW v \in Runners, pc'[v] # "ready"
                   PROVE  lock'[KeyOf(v)'] = v
        BY <2>7 DEF HoldsLock, Crash, history
      <3>1. v # u /\ pc[v] = pc'[v] /\ queue'[v] = queue[v]
        BY <2>7 DEF Crash, LockInv, TypeInv, TypeOK
      <3>2. KeyOf(v)' = KeyOf(v) /\ lock[KeyOf(v)] = v
        BY <3>1 DEF KeyOf, RowOf, JobOf, LockInv, HoldsLock
      <3>3. KeyOf(v) \in Keys
        BY <3>1, JobType DEF LockInv, TypeInv, CallHasJob
      <3>. QED
        BY <2>7, <3>1, <3>2, <3>3 DEF Crash, Unlocked
    <2>8. ASSUME NEW u \in Runners, SessionLost(u) PROVE HoldsLock'
      BY <2>8 DEF SessionLost, HoldsLock
    <2>. QED
      BY <2>1, <2>2, <2>3, <2>4, <2>5, <2>6, <2>7, <2>8, CallHoldsLock DEF Next
  <1>3. LockInv <=> TypeInv /\ HoldsLock
    BY DEF LockInv
  <1>. QED
    BY <1>1, <1>2, <1>3, TypeInvariant, PTL DEF Spec

\* Mutual exclusion of RunDueJob per (organization, job), for any number of callers and
\* rows, however lock keys collide, through crashes, cancellations and database errors,
\* as long as the session that holds an advisory lock lives as long as its runner.
THEOREM MutexHolds == Spec => []MutualExclusion
  <1>1. LockInv => MutualExclusion
    BY DEF LockInv, HoldsLock, MutualExclusion, Calling, Executing, Outcomes, KeyOf
  <1>. QED
    BY <1>1, LockInvariant, PTL

(***************************************************************************)
(* What a step may not do.                                                 *)
(***************************************************************************)

\* What a step may change of a row's cursor, failure count and status.
RowStep ==
    lost = {} => \A r \in Rows :
        (row'[r].cursor # row[r].cursor \/ row'[r].failures # row[r].failures
         \/ row'[r].status # row[r].status)
        => /\ lock[LockKey[r]] # NoRunner
           /\ Calling(lock[LockKey[r]]) /\ RowOf(lock[LockKey[r]]) = r

\* The only writer of a row's cursor, failure count and status is the caller that holds
\* the row's lock, while no lock session is lost.
THEOREM RowChangesUnderLockHolds == Spec => RowChangesUnderLock
  <1>1. LockInv /\ [Next]_vars => [RowStep]_vars
    <2> SUFFICES ASSUME LockInv, lost = {}, Next PROVE RowStep
      BY DEF RowStep
    <2>1. CASE UNCHANGED row
      BY <2>1 DEF RowStep
    <2>2. ASSUME NEW r \in Rows, NEW on \in BOOLEAN, SetEnabled(r, on) PROVE RowStep
      BY <2>2 DEF SetEnabled, RowStep, LockInv, TypeInv, TypeOK, SchedulerJob
    <2>3. ASSUME NEW u \in Runners, MarkJobStarted(u) \/ Finish(u) PROVE RowStep
      <3>1. queue[u] # <<>> /\ pc[u] \in Executing
        BY <2>3 DEF MarkJobStarted, Finish, MarkJobCompleted, MarkJobPartial, MarkJobFailed,
                    InCall, Executing, Outcomes
      <3>2. RowOf(u) \in Rows
        BY <3>1, JobType DEF LockInv, TypeInv
      <3>3. lock[LockKey[RowOf(u)]] = u /\ u # NoRunner
        BY <3>1, InstanceAssumption DEF LockInv, HoldsLock, KeyOf, Executing, Outcomes
      <3>4. \A r \in Rows : r # RowOf(u) => row'[r] = row[r]
        BY <2>3, <3>2 DEF MarkJobStarted, Finish, MarkJobCompleted, MarkJobPartial,
                          MarkJobFailed, LockInv, TypeInv, TypeOK
      <3>. QED
        BY <3>1, <3>3, <3>4 DEF RowStep, Calling
    <2>4. ASSUME NEW u \in Runners, Call(u) PROVE RowStep
      BY <2>1, <2>3, <2>4
         DEF Call, UnknownJob, TryLockOrgJob, SkippedLocked, LockError, MarkStartedError,
             RunPage, RunPageError, StopAtBound, FinishError, Release
    <2>. QED
      BY <2>1, <2>2, <2>4 DEF Next, Tick, BecomesEligible, ListDueJobs, Cancel, Crash,
                              SessionLost
  <1>. QED
    BY <1>1, LockInvariant, PTL DEF Spec, RowChangesUnderLock, RowStep

(***************************************************************************)
(* One caller at a time.  A run works from the cursor and the failure      *)
(* count that ListDueJobs read, so what it skips and how long it backs off *)
(* depends on nobody having run the row since.  With one caller the        *)
(* snapshots of the rows still to run stand (SnapshotsStand), and then the *)
(* cursor never passes an item of the drain cycle (Drained).               *)
(***************************************************************************)

OneCaller == \A u, v \in Runners : u = v

\* The rows still listed are as they were read, the one in work until its terminal write.
SnapshotsStand ==
    \A u \in Runners : \A i \in DOMAIN queue[u] : i > 1 \/ pc[u] # "release" =>
        /\ queue[u][i].cursor = row[queue[u][i].row].cursor
        /\ queue[u][i].failures = row[queue[u][i].row].failures

RowsDiffer ==
    \A u \in Runners : \A i, j \in DOMAIN queue[u] : i # j => queue[u][i].row # queue[u][j].row

Drained ==
    /\ \A r \in Rows : pending[r] \subseteq work[r] /\ \A i \in pending[r] : row[r].cursor < i
    /\ \A u \in Runners :
          /\ pc[u] \in {"paging", "partial"} => \A i \in pending[RowOf(u)] : cursor[u] < i
          /\ pc[u] = "completed" => pending[RowOf(u)] = {}

DrainInv == TypeInv /\ SnapshotsStand /\ RowsDiffer /\ Drained

\* A queue is a function, its head the first element and its tail the others.
LEMMA QueueShape ==
    ASSUME NEW q \in Seq(JobState), q # <<>>
    PROVE  /\ Len(q) \in Nat /\ DOMAIN q = 1 .. Len(q) /\ 1 \in DOMAIN q /\ Head(q) = q[1]
           /\ \A i \in DOMAIN q : q[i] \in JobState /\ i \in Nat
           /\ \A i \in DOMAIN Tail(q) : i + 1 \in DOMAIN q /\ i + 1 > 1 /\ Tail(q)[i] = q[i + 1]
  <1>1. Len(q) \in Nat /\ DOMAIN q = 1 .. Len(q) /\ Len(q) # 0
    BY LenProperties, EmptySeq
  <1>2. Head(q) = q[1] /\ 1 \in DOMAIN q
    BY <1>1
  <1>3. \A i \in DOMAIN q : q[i] \in JobState /\ i \in Nat
    BY <1>1
  <1>4. /\ Tail(q) \in Seq(JobState) /\ Len(Tail(q)) = Len(q) - 1
        /\ \A i \in 1 .. Len(q) - 1 : Tail(q)[i] = q[i + 1]
    BY <1>1
  <1>5. DOMAIN Tail(q) = 1 .. Len(q) - 1
    BY <1>4, LenProperties
  <1>. QED
    BY <1>1, <1>2, <1>3, <1>4, <1>5

\* A page takes the first items after the cursor: what it leaves lies behind its last item,
\* and it leaves nothing when it is not full.
LEMMA PageTakesFirst ==
    ASSUME TypeOK, NEW r \in Rows, NEW c \in Cursors, NEW i \in work[r], c < i,
           i \notin PageItems(r, c)
    PROVE  /\ NextCursor(PageItems(r, c), c) < i
           /\ ~ Done(PageItems(r, c))
  <1> DEFINE page == PageItems(r, c)
             S == {j \in work[r] : j > c}
             Upto(k) == {j \in work[r] : c < j /\ j <= k}
  <1>0. /\ work[r] \in SUBSET Items /\ LastItem \in Nat /\ PageSize \in Nat /\ c \in Nat
        /\ \A k \in work[r] : k \in Nat
    BY InstanceAssumption, ConfigAssumption DEF TypeOK, Items, Cursors
  <1>1. page = {k \in work[r] : k > c /\ Cardinality(Upto(k)) <= PageSize}
    BY DEF PageItems
  <1>2. IsFiniteSet(work[r])
    <2>1. IsFiniteSet(Items)
      BY <1>0, FS_Interval DEF Items
    <2>. QED
      BY <1>0, <2>1, FS_Subset
  <1>3. \A k : IsFiniteSet(Upto(k)) /\ Cardinality(Upto(k)) \in Nat
    <2>1. \A k : Upto(k) \in SUBSET work[r]
      OBVIOUS
    <2>. QED
      BY <1>2, <2>1, FS_Subset, FS_CardinalityType
  <1>4. NextCursor(page, c) < i
    <2>1. CASE page = {}
      BY <2>1 DEF NextCursor
    <2>2. CASE page # {}
      <3>1. page \in SUBSET Items
        BY <1>0, <1>1
      <3>2. \E k \in page : \A j \in page : j <= k
        BY <2>2, <3>1, LargestItem
      <3>3. PICK k \in page : k = NextCursor(page, c)
        BY <2>2, <3>2 DEF NextCursor
      <3>4. ASSUME i <= k PROVE FALSE
        <4>1. Upto(i) \in SUBSET Upto(k)
          BY <1>0, <1>1, <3>4
        <4>2. Cardinality(Upto(i)) <= Cardinality(Upto(k))
          BY <1>3, <4>1, FS_Subset
        <4>3. Cardinality(Upto(k)) <= PageSize /\ ~ (Cardinality(Upto(i)) <= PageSize)
          BY <1>0, <1>1
        <4>4. PICK m \in Nat, n \in Nat : m = Cardinality(Upto(i)) /\ n = Cardinality(Upto(k))
          BY <1>3
        <4>5. PageSize \in Nat
          BY <1>0
        <4>6. m <= n /\ n <= PageSize /\ ~ (m <= PageSize)
          BY <4>2, <4>3, <4>4
        <4>. QED
          BY <4>5, <4>6
      <3>5. k \in Nat /\ i \in Nat
        BY <1>0, <1>1
      <3>. QED
        BY <3>3, <3>4, <3>5
    <2>. QED
      BY <2>1, <2>2
  <1>5. ~ Done(page)
    <2>1. PICK m \in S \ page : \A n \in S \ page : m <= n
      <3>1. S \ page \in SUBSET Nat /\ S \ page # {}
        BY <1>0
      <3>. QED
        BY <3>1, SmallestNat
    <2> DEFINE T == {j \in work[r] : c < j /\ j < m}
    <2>2. m \in work[r] /\ c < m /\ m \in Nat /\ m \notin page
      BY <1>0, <2>1
    <2>3. T \in SUBSET page
      <3>1. ASSUME NEW j \in T, j \notin page PROVE FALSE
        <4>1. j \in S /\ j \in Nat /\ j < m
          BY <1>0
        <4>2. m <= j
          BY <2>1, <3>1, <4>1
        <4>. QED
          BY <2>2, <4>1, <4>2
      <3>. QED
        BY <3>1
    <2>4. Upto(m) = T \cup {m} /\ m \notin T
      BY <1>0, <2>2
    <2>5. IsFiniteSet(T) /\ IsFiniteSet(page)
      BY <1>1, <1>2, FS_Subset
    <2>6. Cardinality(Upto(m)) = Cardinality(T) + 1
      BY <2>4, <2>5, FS_AddElement
    <2>7. Cardinality(T) <= Cardinality(page) /\ Cardinality(T) \in Nat /\ Cardinality(page) \in Nat
      BY <2>3, <2>5, FS_Subset, FS_CardinalityType
    <2>8. ~ (Cardinality(Upto(m)) <= PageSize)
      BY <1>0, <1>1, <2>2
    <2>. QED
      BY <1>0, <2>6, <2>7, <2>8 DEF Done
  <1>. QED
    BY <1>4, <1>5

\* Steps that leave the queues and what snapshots hold of the rows alone.
LEMMA SameRowsStand ==
    ASSUME SnapshotsStand, RowsDiffer, TypeOK, UNCHANGED queue,
           \A r \in Rows : row'[r].cursor = row[r].cursor /\ row'[r].failures = row[r].failures,
           \A v \in Runners : pc[v] = "release" => pc'[v] = "release"
    PROVE  SnapshotsStand' /\ RowsDiffer'
  <1>1. ASSUME NEW u \in Runners, NEW i \in DOMAIN queue[u] PROVE queue[u][i].row \in Rows
    <2>1. queue[u] \in Seq(JobState)
      BY DEF TypeOK
    <2>2. queue[u][i] \in JobState
      BY <2>1, LenProperties, ElementOfSeq
    <2>. QED
      BY <2>2 DEF JobState
  <1>. QED
    BY <1>1 DEF SnapshotsStand, RowsDiffer

\* A call that ends takes its row off the list; the snapshots of the others stand.
LEMMA ReturnsStand ==
    ASSUME DrainInv, NEW u \in Runners, queue[u] # <<>>, Returns(u), UNCHANGED row
    PROVE  SnapshotsStand' /\ RowsDiffer'
  <1>1. TypeOK /\ SnapshotsStand /\ RowsDiffer
    BY DEF DrainInv, TypeInv
  <1>2. queue[u] \in Seq(JobState)
    BY <1>1 DEF TypeOK
  <1>3. \A i \in DOMAIN Tail(queue[u]) :
            i + 1 \in DOMAIN queue[u] /\ i + 1 > 1 /\ Tail(queue[u])[i] = queue[u][i + 1] /\ i \in Nat
    <2>1. Tail(queue[u]) \in Seq(JobState)
      BY <1>2, QueueFacts
    <2>2. \A i \in DOMAIN Tail(queue[u]) : i \in Nat
      BY <2>1, LenProperties
    <2>. QED
      BY <1>2, <2>2, QueueShape
  <1>4. queue'[u] = Tail(queue[u]) /\ \A v \in Runners : v # u => queue'[v] = queue[v] /\ pc'[v] = pc[v]
    BY <1>1 DEF Returns, TypeOK
  <1>5. SnapshotsStand'
    <2> SUFFICES ASSUME NEW v \in Runners, NEW i \in DOMAIN queue'[v], i > 1 \/ pc'[v] # "release"
                 PROVE  /\ queue'[v][i].cursor = row[queue'[v][i].row].cursor
                        /\ queue'[v][i].failures = row[queue'[v][i].row].failures
      BY DEF SnapshotsStand
    <2>1. CASE v = u
      <3>1. i \in DOMAIN Tail(queue[u])
        BY <1>4, <2>1
      <3>2. queue'[v][i] = queue[u][i + 1] /\ i + 1 \in DOMAIN queue[u] /\ i + 1 > 1
        BY <1>3, <1>4, <2>1, <3>1
      <3>. QED
        BY <1>1, <3>2 DEF SnapshotsStand
    <2>2. CASE v # u
      BY <1>1, <1>4, <2>2 DEF SnapshotsStand
    <2>. QED
      BY <2>1, <2>2
  <1>6. RowsDiffer'
    <2> SUFFICES ASSUME NEW v \in Runners, NEW i \in DOMAIN queue'[v], NEW j \in DOMAIN queue'[v], i # j
                 PROVE  queue'[v][i].row # queue'[v][j].row
      BY DEF RowsDiffer
    <2>1. CASE v = u
      <3>1. i \in DOMAIN Tail(queue[u]) /\ j \in DOMAIN Tail(queue[u])
        BY <1>4, <2>1
      <3>2. i \in Nat /\ j \in Nat
        BY <1>3, <3>1
      <3>3. i + 1 # j + 1
        BY <3>2
      <3>4. queue'[v][i] = queue[u][i + 1] /\ queue'[v][j] = queue[u][j + 1]
        BY <1>3, <1>4, <2>1, <3>1
      <3>5. i + 1 \in DOMAIN queue[u] /\ j + 1 \in DOMAIN queue[u]
        BY <1>3, <3>1
      <3>. QED
        BY <1>1, <3>3, <3>4, <3>5 DEF RowsDiffer
    <2>2. CASE v # u
      BY <1>1, <1>4, <2>2 DEF RowsDiffer
    <2>. QED
      BY <2>1, <2>2
  <1>. QED
    BY <1>5, <1>6

\* Fresh snapshots hold what the rows hold, and no row is listed twice: the order of the
\* listing is strict.
LEMMA ListingStands ==
    ASSUME DrainInv, NEW u \in Runners, ListDueJobs(u)
    PROVE  SnapshotsStand' /\ RowsDiffer'
  <1>1. TypeOK /\ SnapshotsStand /\ RowsDiffer
    BY DEF DrainInv, TypeInv
  <1>2. PICK list \in [1 .. Smaller(ListLimit, Cardinality(DueRows)) -> DueRows] :
            /\ IsDueList(list)
            /\ queue' = [queue EXCEPT ![u] =
                [i \in DOMAIN list |-> [row |-> list[i], cursor |-> row[list[i]].cursor,
                                        failures |-> row[list[i]].failures]]]
    BY DEF ListDueJobs
  <1>3. /\ DOMAIN queue'[u] = DOMAIN list
        /\ \A i \in DOMAIN list : /\ queue'[u][i].row = list[i]
                                  /\ queue'[u][i].cursor = row[list[i]].cursor
                                  /\ queue'[u][i].failures = row[list[i]].failures
        /\ \A v \in Runners : v # u => queue'[v] = queue[v]
    BY <1>1, <1>2 DEF TypeOK
  <1>4. row' = row /\ pc' = pc
    BY DEF ListDueJobs
  <1>5. ASSUME NEW i \in DOMAIN list, NEW j \in DOMAIN list, i # j PROVE list[i] # list[j]
    <2>1. i \in Nat /\ j \in Nat
      <3>1. Smaller(ListLimit, Cardinality(DueRows)) \in Nat
        <4>1. IsFiniteSet(DueRows) /\ Cardinality(DueRows) \in Nat
          BY FS_Subset, FS_CardinalityType, InstanceAssumption DEF DueRows
        <4>. QED
          BY <4>1, ConfigAssumption DEF Smaller
      <3>. QED
        BY <3>1
    <2>2. list[i] \in Rows /\ list[j] \in Rows
      BY DEF DueRows
    <2>3. i < j \/ j < i
      BY <1>5, <2>1
    <2>4. ListedBefore(list[i], list[j]) \/ ListedBefore(list[j], list[i])
      BY <1>2, <2>3 DEF IsDueList
    <2>5. ~ ListedBefore(list[i], list[i]) /\ ~ ListedBefore(list[j], list[j])
      <3>1. \A r \in Rows : due[r] \in Int /\ r \in Int
        BY <1>1, InstanceAssumption DEF TypeOK
      <3>. QED
        BY <2>2, <3>1 DEF ListedBefore
    <2>. QED
      BY <2>4, <2>5
  <1>6. SnapshotsStand'
    <2> SUFFICES ASSUME NEW v \in Runners, NEW i \in DOMAIN queue'[v], i > 1 \/ pc'[v] # "release"
                 PROVE  /\ queue'[v][i].cursor = row[queue'[v][i].row].cursor
                        /\ queue'[v][i].failures = row[queue'[v][i].row].failures
      BY <1>4 DEF SnapshotsStand
    <2>1. CASE v = u
      BY <1>3, <2>1
    <2>2. CASE v # u
      BY <1>1, <1>3, <1>4, <2>2 DEF SnapshotsStand
    <2>. QED
      BY <2>1, <2>2
  <1>7. RowsDiffer'
    <2> SUFFICES ASSUME NEW v \in Runners, NEW i \in DOMAIN queue'[v], NEW j \in DOMAIN queue'[v], i # j
                 PROVE  queue'[v][i].row # queue'[v][j].row
      BY DEF RowsDiffer
    <2>1. CASE v = u
      <3>1. i \in DOMAIN list /\ j \in DOMAIN list
        BY <1>3, <2>1
      <3>2. queue'[v][i].row = list[i] /\ queue'[v][j].row = list[j]
        BY <1>3, <2>1, <3>1
      <3>3. list[i] # list[j]
        BY <1>5, <3>1
      <3>. QED
        BY <3>2, <3>3
    <2>2. CASE v # u
      BY <1>1, <1>3, <2>2 DEF RowsDiffer
    <2>. QED
      BY <2>1, <2>2
  <1>. QED
    BY <1>6, <1>7

\* The one caller's terminal write reaches the row it has in work and no other it has listed.
LEMMA FinishStands ==
    ASSUME OneCaller, DrainInv, NEW u \in Runners, queue[u] # <<>>, UNCHANGED queue, pc'[u] = "release",
           \A r \in Rows : r # RowOf(u) => row'[r] = row[r]
    PROVE  SnapshotsStand' /\ RowsDiffer'
  <1>1. TypeOK /\ SnapshotsStand /\ RowsDiffer
    BY DEF DrainInv, TypeInv
  <1>2. queue[u] \in Seq(JobState)
    BY <1>1 DEF TypeOK
  <1>3. 1 \in DOMAIN queue[u] /\ RowOf(u) = queue[u][1].row
    BY <1>2, QueueShape DEF RowOf, JobOf
  <1>4. ASSUME NEW i \in DOMAIN queue[u], i > 1
        PROVE  row'[queue[u][i].row] = row[queue[u][i].row]
    <2>0. queue[u][i] \in JobState /\ i \in Nat
      BY <1>2, QueueShape
    <2>1. queue[u][i].row \in Rows /\ i # 1
      BY <1>4, <2>0 DEF JobState
    <2>2. queue[u][i].row # RowOf(u)
      BY <1>1, <1>3, <2>1 DEF RowsDiffer
    <2>. QED
      BY <2>1, <2>2
  <1>5. SnapshotsStand'
    <2> SUFFICES ASSUME NEW v \in Runners, NEW i \in DOMAIN queue[v], i > 1 \/ pc'[v] # "release"
                 PROVE  /\ queue[v][i].cursor = row'[queue[v][i].row].cursor
                        /\ queue[v][i].failures = row'[queue[v][i].row].failures
      BY DEF SnapshotsStand
    <2>1. v = u
      BY DEF OneCaller
    <2>. QED
      BY <1>1, <1>4, <2>1 DEF SnapshotsStand
  <1>. QED
    BY <1>1, <1>5 DEF RowsDiffer

\* A crash leaves its caller nothing listed.
LEMMA CrashStands ==
    ASSUME DrainInv, NEW u \in Runners, Crash(u)
    PROVE  SnapshotsStand' /\ RowsDiffer'
  <1>1. TypeOK /\ SnapshotsStand /\ RowsDiffer
    BY DEF DrainInv, TypeInv
  <1>2. /\ queue'[u] = <<>> /\ row' = row
        /\ \A v \in Runners : v # u => queue'[v] = queue[v] /\ pc'[v] = pc[v]
    BY <1>1 DEF Crash, TypeOK
  <1>3. \A i \in DOMAIN queue'[u] : FALSE
    <2>1. DOMAIN queue'[u] = 1 .. 0
      BY <1>2
    <2>. QED
      BY <2>1
  <1>4. SnapshotsStand'
    <2> SUFFICES ASSUME NEW v \in Runners, NEW i \in DOMAIN queue'[v], i > 1 \/ pc'[v] # "release"
                 PROVE  /\ queue'[v][i].cursor = row[queue'[v][i].row].cursor
                        /\ queue'[v][i].failures = row[queue'[v][i].row].failures
      BY <1>2 DEF SnapshotsStand
    <2>1. v # u
      BY <1>3
    <2>. QED
      BY <1>1, <1>2, <2>1 DEF SnapshotsStand
  <1>5. RowsDiffer'
    BY <1>1, <1>2, <1>3 DEF RowsDiffer
  <1>. QED
    BY <1>4, <1>5

\* Steps that take nothing out of the work but what they take out of the cycle, move no
\* persisted cursor and start or complete no run.
LEMMA DrainedKept ==
    ASSUME TypeInv, Drained,
           \A r \in Rows : /\ pending'[r] \subseteq pending[r] /\ pending'[r] \subseteq work'[r]
                           /\ row'[r].cursor = row[r].cursor,
           \A v \in Runners : pc'[v] \in {"paging", "partial"} =>
                pc[v] \in {"paging", "partial"} /\ queue'[v] = queue[v] /\ cursor'[v] = cursor[v],
           \A v \in Runners : pc'[v] = "completed" => pc[v] = "completed" /\ queue'[v] = queue[v]
    PROVE  Drained'
  <1>1. \A r \in Rows : pending'[r] \subseteq work'[r] /\ \A i \in pending'[r] : row'[r].cursor < i
    BY DEF Drained
  <1>2. ASSUME NEW v \in Runners, pc'[v] \in {"paging", "partial"}
        PROVE  \A i \in pending'[RowOf(v)'] : cursor'[v] < i
    <2>1. pc[v] \in {"paging", "partial"} /\ queue'[v] = queue[v] /\ cursor'[v] = cursor[v]
      BY <1>2
    <2>2. RowOf(v)' = RowOf(v)
      BY <2>1 DEF RowOf, JobOf
    <2>3. RowOf(v) \in Rows
      BY <2>1, JobType DEF TypeInv, CallHasJob
    <2>. QED
      BY <2>1, <2>2, <2>3 DEF Drained
  <1>3. ASSUME NEW v \in Runners, pc'[v] = "completed" PROVE pending'[RowOf(v)'] = {}
    <2>1. pc[v] = "completed" /\ queue'[v] = queue[v]
      BY <1>3
    <2>2. RowOf(v)' = RowOf(v)
      BY <2>1 DEF RowOf, JobOf
    <2>3. RowOf(v) \in Rows
      BY <2>1, JobType DEF TypeInv, CallHasJob
    <2>4. pending[RowOf(v)] = {}
      BY <2>1 DEF Drained
    <2>. QED
      BY <2>2, <2>3, <2>4
  <1>. QED
    BY <1>1, <1>2, <1>3 DEF Drained

\* A run starts from the persisted cursor: the items of its cycle, old or new, lie ahead of it.
LEMMA StartDrains ==
    ASSUME OneCaller, DrainInv, NEW u \in Runners, MarkJobStarted(u)
    PROVE  SnapshotsStand' /\ RowsDiffer' /\ Drained'
  <1>0. TypeInv /\ TypeOK /\ SnapshotsStand /\ RowsDiffer /\ Drained
    BY DEF DrainInv, TypeInv
  <1>1. queue[u] # <<>> /\ queue[u] \in Seq(JobState) /\ pc[u] = "locked"
    BY <1>0 DEF MarkJobStarted, InCall, TypeOK
  <1>2. RowOf(u) \in Rows
    BY <1>0, <1>1, JobType
  <1>3. 1 \in DOMAIN queue[u] /\ JobOf(u) = queue[u][1]
    BY <1>1, QueueShape DEF JobOf
  <1>4. JobOf(u).cursor = row[RowOf(u)].cursor
    BY <1>0, <1>1, <1>3 DEF SnapshotsStand, RowOf
  <1>5. /\ queue' = queue /\ work' = work /\ pc'[u] = "paging" /\ cursor'[u] = JobOf(u).cursor
        /\ \A r \in Rows : row'[r].cursor = row[r].cursor /\ row'[r].failures = row[r].failures
    BY <1>0, <1>2 DEF MarkJobStarted, GoTo, TypeOK, SchedulerJob
  <1>6. SnapshotsStand' /\ RowsDiffer'
    <2>1. \A v \in Runners : pc[v] = "release" => pc'[v] = "release"
      BY <1>1 DEF OneCaller
    <2>. QED
      BY <1>0, <1>5, <2>1, SameRowsStand
  <1>7. /\ \A r \in Rows : r # RowOf(u) => pending'[r] = pending[r]
        /\ pending'[RowOf(u)] = IF row[RowOf(u)].cursor = SchedulerCursorStart THEN work[RowOf(u)]
                                ELSE pending[RowOf(u)]
    BY <1>0, <1>2 DEF MarkJobStarted, TypeOK
  <1>8. pending'[RowOf(u)] \subseteq work[RowOf(u)] /\ \A i \in pending'[RowOf(u)] : row[RowOf(u)].cursor < i
    <2>1. CASE row[RowOf(u)].cursor = SchedulerCursorStart
      <3>0. work[RowOf(u)] \in SUBSET Items
        BY <1>0, <1>2 DEF TypeOK
      <3>1. \A i \in work[RowOf(u)] : 0 < i
        BY <3>0, InstanceAssumption DEF Items
      <3>. QED
        BY <1>7, <2>1, <3>1 DEF SchedulerCursorStart
    <2>2. CASE row[RowOf(u)].cursor # SchedulerCursorStart
      BY <1>0, <1>2, <1>7, <2>2 DEF Drained
    <2>. QED
      BY <2>1, <2>2
  <1>9. \A r \in Rows : pending'[r] \subseteq work'[r] /\ \A i \in pending'[r] : row'[r].cursor < i
    BY <1>0, <1>5, <1>7, <1>8 DEF Drained
  <1>10. RowOf(u)' = RowOf(u)
    BY <1>5 DEF RowOf, JobOf
  <1>11. \A i \in pending'[RowOf(u)'] : cursor'[u] < i
    BY <1>4, <1>5, <1>8, <1>10
  <1>12. \A v \in Runners : v = u
    BY DEF OneCaller
  <1>. QED
    BY <1>5, <1>6, <1>9, <1>11, <1>12 DEF Drained

\* A page processes the first items ahead of the cursor; a run that finds fewer than a page
\* has drained the cycle.
LEMMA PageDrains ==
    ASSUME OneCaller, DrainInv, NEW u \in Runners, RunPage(u)
    PROVE  SnapshotsStand' /\ RowsDiffer' /\ Drained'
  <1> DEFINE page == PageItems(RowOf(u), cursor[u])
  <1>0. TypeInv /\ TypeOK /\ SnapshotsStand /\ RowsDiffer /\ Drained
    BY DEF DrainInv, TypeInv
  <1>1. queue[u] # <<>> /\ pc[u] = "paging" /\ cursor[u] \in Cursors
    BY <1>0 DEF RunPage, InCall, TypeOK
  <1>2. RowOf(u) \in Rows
    BY <1>0, <1>1, JobType
  <1>3. /\ queue' = queue /\ row' = row
        /\ pc'[u] = IF Done(page) THEN "completed" ELSE "paging"
        /\ cursor'[u] = NextCursor(page, cursor[u])
        /\ work' = [work EXCEPT ![RowOf(u)] = @ \ page]
        /\ pending' = [pending EXCEPT ![RowOf(u)] = @ \ page]
    BY <1>0 DEF RunPage, GoTo, PageCommits, TypeOK
  <1>4. \A v \in Runners : v = u
    BY DEF OneCaller
  <1> HIDE DEF page
  <1>5. SnapshotsStand' /\ RowsDiffer'
    <2>1. \A v \in Runners : pc[v] = "release" => pc'[v] = "release"
      BY <1>1, <1>4
    <2>. QED
      BY <1>0, <1>3, <2>1, SameRowsStand
  <1>6. /\ pending'[RowOf(u)] = pending[RowOf(u)] \ page
        /\ work'[RowOf(u)] = work[RowOf(u)] \ page
        /\ \A r \in Rows : r # RowOf(u) => pending'[r] = pending[r] /\ work'[r] = work[r]
    BY <1>0, <1>2, <1>3 DEF TypeOK
  <1>7. \A r \in Rows : pending'[r] \subseteq work'[r] /\ \A i \in pending'[r] : row'[r].cursor < i
    <2> SUFFICES ASSUME NEW r \in Rows
                 PROVE  pending'[r] \subseteq work'[r] /\ \A i \in pending'[r] : row'[r].cursor < i
      OBVIOUS
    <2>1. pending[r] \subseteq work[r] /\ \A i \in pending[r] : row[r].cursor < i
      BY <1>0 DEF Drained
    <2>2. CASE r = RowOf(u)
      BY <1>3, <1>6, <2>1, <2>2
    <2>3. CASE r # RowOf(u)
      BY <1>3, <1>6, <2>1, <2>3
    <2>. QED
      BY <2>2, <2>3
  <1>8. ASSUME NEW i \in pending'[RowOf(u)] PROVE cursor'[u] < i /\ ~ Done(page)
    <2>1. i \in pending[RowOf(u)] /\ i \notin page
      BY <1>6
    <2>2. i \in work[RowOf(u)] /\ cursor[u] < i
      BY <1>0, <1>1, <1>2, <2>1 DEF Drained
    <2>. QED
      BY <1>0, <1>1, <1>2, <1>3, <2>1, <2>2, PageTakesFirst DEF page
  <1>9. RowOf(u)' = RowOf(u)
    BY <1>3 DEF RowOf, JobOf
  <1>10. pc'[u] \in {"paging", "partial"} => \A i \in pending'[RowOf(u)'] : cursor'[u] < i
    BY <1>8, <1>9
  <1>11. pc'[u] = "completed" => pending'[RowOf(u)'] = {}
    BY <1>3, <1>8, <1>9
  <1>. QED
    BY <1>4, <1>5, <1>7, <1>10, <1>11 DEF Drained

\* A terminal write stores the start sentinel for a drained cycle, the cursor of a bounded
\* run, and after a failure the cursor the row had.
LEMMA FinishDrains ==
    ASSUME OneCaller, DrainInv, NEW u \in Runners, Finish(u)
    PROVE  SnapshotsStand' /\ RowsDiffer' /\ Drained'
  <1>0. TypeInv /\ TypeOK /\ SnapshotsStand /\ RowsDiffer /\ Drained
    BY DEF DrainInv, TypeInv
  <1>1. queue[u] # <<>> /\ UNCHANGED <<queue, work, pending>> /\ pc'[u] = "release"
    BY <1>0 DEF Finish, MarkJobCompleted, MarkJobPartial, MarkJobFailed, InCall, GoTo, history, TypeOK
  <1>2. RowOf(u) \in Rows
    BY <1>0, <1>1, JobType
  <1>3. \A r \in Rows : r # RowOf(u) => row'[r] = row[r]
    BY <1>0, <1>2 DEF Finish, MarkJobCompleted, MarkJobPartial, MarkJobFailed, TypeOK
  <1>4. SnapshotsStand' /\ RowsDiffer'
    BY <1>1, <1>3, FinishStands
  <1>5. \A i \in pending[RowOf(u)] : row'[RowOf(u)].cursor < i
    <2>1. CASE MarkJobCompleted(u)
      BY <1>0, <2>1 DEF MarkJobCompleted, InCall, Drained
    <2>2. CASE MarkJobPartial(u)
      <3>1. pc[u] = "partial" /\ row'[RowOf(u)].cursor = cursor[u]
        BY <1>0, <1>2, <2>2 DEF MarkJobPartial, InCall, TypeOK
      <3>. QED
        BY <1>0, <3>1 DEF Drained
    <2>3. CASE MarkJobFailed(u)
      <3>1. row'[RowOf(u)].cursor = row[RowOf(u)].cursor
        BY <1>0, <1>2, <2>3 DEF MarkJobFailed, TypeOK
      <3>. QED
        BY <1>0, <1>2, <3>1 DEF Drained
    <2>. QED
      BY <2>1, <2>2, <2>3 DEF Finish
  <1>6. \A r \in Rows : pending'[r] \subseteq work'[r] /\ \A i \in pending'[r] : row'[r].cursor < i
    BY <1>0, <1>1, <1>3, <1>5 DEF Drained
  <1>7. \A v \in Runners : pc'[v] = "release"
    BY <1>1 DEF OneCaller
  <1>. QED
    BY <1>4, <1>6, <1>7 DEF Drained

\* A page that fails leaves the cycle as it is, or, when only its acknowledgement was lost,
\* without the items it processed.
LEMMA PageErrorDrains ==
    ASSUME OneCaller, DrainInv, NEW u \in Runners, RunPageError(u)
    PROVE  SnapshotsStand' /\ RowsDiffer' /\ Drained'
  <1> DEFINE page == PageItems(RowOf(u), cursor[u])
  <1>0. TypeInv /\ TypeOK /\ SnapshotsStand /\ RowsDiffer /\ Drained
    BY DEF DrainInv, TypeInv
  <1>1. queue[u] # <<>> /\ pc[u] = "paging" /\ UNCHANGED <<row, queue>> /\ pc'[u] = "failed"
    BY <1>0 DEF RunPageError, InCall, GoTo, TypeOK
  <1>2. RowOf(u) \in Rows
    BY <1>0, <1>1, JobType
  <1>3. \A v \in Runners : pc[v] = "paging" /\ pc'[v] = "failed"
    BY <1>1 DEF OneCaller
  <1>4. UNCHANGED <<work, pending>> \/ PageCommits(RowOf(u), page)
    BY DEF RunPageError, history
  <1> HIDE DEF page
  <1>5. \A r \in Rows : pending'[r] \subseteq pending[r] /\ pending'[r] \subseteq work'[r]
    <2> SUFFICES ASSUME NEW r \in Rows PROVE pending'[r] \subseteq pending[r] /\ pending'[r] \subseteq work'[r]
      OBVIOUS
    <2>1. pending[r] \subseteq work[r]
      BY <1>0 DEF Drained
    <2>2. CASE UNCHANGED <<work, pending>>
      BY <2>1, <2>2
    <2>3. CASE PageCommits(RowOf(u), page)
      <3>1. /\ pending'[r] = IF r = RowOf(u) THEN pending[r] \ page ELSE pending[r]
            /\ work'[r] = IF r = RowOf(u) THEN work[r] \ page ELSE work[r]
        BY <1>0, <1>2, <2>3 DEF PageCommits, TypeOK
      <3>. QED
        BY <2>1, <3>1
    <2>. QED
      BY <1>4, <2>2, <2>3
  <1>6. SnapshotsStand' /\ RowsDiffer'
    BY <1>0, <1>1, <1>3, SameRowsStand
  <1>7. Drained'
    BY <1>0, <1>1, <1>3, <1>5, DrainedKept
  <1>. QED
    BY <1>6, <1>7

\* Every step inside RunDueJob keeps the snapshots and the drain cycle in order.
LEMMA CallDrains ==
    ASSUME OneCaller, DrainInv, NEW u \in Runners, Call(u)
    PROVE  SnapshotsStand' /\ RowsDiffer' /\ Drained'
  <1>0. TypeInv /\ TypeOK /\ SnapshotsStand /\ RowsDiffer /\ Drained
    BY DEF DrainInv, TypeInv
  <1>1. \A r \in Rows : pending[r] \subseteq work[r]
    BY <1>0 DEF Drained
  <1>2. CASE UnknownJob(u) \/ SkippedLocked(u) \/ LockError(u) \/ Release(u)
    <2>1. Returns(u) /\ UNCHANGED <<row, work, pending>> /\ queue[u] # <<>>
      BY <1>2 DEF UnknownJob, SkippedLocked, LockError, Release, InCall, history
    <2>2. \A v \in Runners : pc'[v] = "ready"
      BY <1>0, <2>1 DEF Returns, OneCaller, TypeOK
    <2>3. SnapshotsStand' /\ RowsDiffer'
      BY <2>1, ReturnsStand
    <2>4. Drained'
      BY <1>0, <1>1, <2>1, <2>2, DrainedKept
    <2>. QED
      BY <2>3, <2>4
  <1>3. CASE TryLockOrgJob(u) \/ MarkStartedError(u) \/ StopAtBound(u) \/ FinishError(u)
    <2>1. UNCHANGED <<row, work, pending, queue, cursor>>
      BY <1>3 DEF TryLockOrgJob, MarkStartedError, StopAtBound, FinishError, GoTo, loop, history
    <2>2. /\ pc[u] # "release" /\ pc'[u] # "completed"
          /\ pc'[u] \in {"paging", "partial"} => pc[u] \in {"paging", "partial"}
      BY <1>0, <1>3 DEF TryLockOrgJob, MarkStartedError, StopAtBound, FinishError, GoTo, InCall,
                        Outcomes, TypeOK
    <2>3. \A v \in Runners : v = u
      BY DEF OneCaller
    <2>4. SnapshotsStand' /\ RowsDiffer'
      BY <1>0, <2>1, <2>2, <2>3, SameRowsStand
    <2>5. Drained'
      BY <1>0, <1>1, <2>1, <2>2, <2>3, DrainedKept
    <2>. QED
      BY <2>4, <2>5
  <1>. QED
    BY <1>2, <1>3, StartDrains, PageDrains, PageErrorDrains, FinishDrains DEF Call

\* DrainInv is inductive for one caller.
LEMMA DrainStep ==
    ASSUME OneCaller, DrainInv, TypeInv', [Next]_vars
    PROVE  DrainInv'
  <1>0. TypeInv /\ TypeOK /\ SnapshotsStand /\ RowsDiffer /\ Drained
    BY DEF DrainInv, TypeInv
  <1>1. \A r \in Rows : pending[r] \subseteq work[r]
    BY <1>0 DEF Drained
  <1> SUFFICES SnapshotsStand' /\ RowsDiffer' /\ Drained'
    BY DEF DrainInv
  <1>2. ASSUME UNCHANGED <<queue, pc, cursor, pending>>,
               \A r \in Rows : work[r] \subseteq work'[r],
               \A r \in Rows : row'[r].cursor = row[r].cursor /\ row'[r].failures = row[r].failures
        PROVE  SnapshotsStand' /\ RowsDiffer' /\ Drained'
    <2>1. SnapshotsStand' /\ RowsDiffer'
      BY <1>0, <1>2, SameRowsStand
    <2>2. \A r \in Rows : pending'[r] \subseteq pending[r] /\ pending'[r] \subseteq work'[r]
      BY <1>1, <1>2
    <2>3. Drained'
      BY <1>0, <1>2, <2>2, DrainedKept
    <2>. QED
      BY <2>1, <2>3
  <1>3. CASE UNCHANGED vars
    BY <1>2, <1>3 DEF vars, loop, history
  <1>4. CASE Tick
    BY <1>2, <1>4 DEF Tick, history
  <1>5. ASSUME NEW r \in Rows, NEW on \in BOOLEAN, SetEnabled(r, on)
        PROVE  SnapshotsStand' /\ RowsDiffer' /\ Drained'
    <2>1. \A s \in Rows : row'[s].cursor = row[s].cursor /\ row'[s].failures = row[s].failures
      BY <1>0, <1>5 DEF SetEnabled, TypeOK, SchedulerJob
    <2>2. UNCHANGED <<queue, pc, cursor, pending, work>>
      BY <1>5 DEF SetEnabled, loop, history
    <2>. QED
      BY <1>2, <2>1, <2>2
  <1>6. ASSUME NEW r \in Rows, NEW i \in Items, BecomesEligible(r, i)
        PROVE  SnapshotsStand' /\ RowsDiffer' /\ Drained'
    <2>1. \A s \in Rows : work[s] \subseteq work'[s]
      BY <1>0, <1>6 DEF BecomesEligible, TypeOK
    <2>2. UNCHANGED <<queue, pc, cursor, pending, row>>
      BY <1>6 DEF BecomesEligible, loop, history
    <2>. QED
      BY <1>2, <2>1, <2>2
  <1>7. ASSUME NEW u \in Runners, ListDueJobs(u)
        PROVE  SnapshotsStand' /\ RowsDiffer' /\ Drained'
    <2>1. UNCHANGED <<pc, pending, work, row>> /\ pc[u] = "ready"
      BY <1>7 DEF ListDueJobs, history
    <2>2. \A v \in Runners : pc'[v] = "ready"
      BY <2>1 DEF OneCaller
    <2>3. Drained'
      BY <1>0, <1>1, <2>1, <2>2, DrainedKept
    <2>. QED
      BY <1>7, <2>3, ListingStands
  <1>8. ASSUME NEW u \in Runners, Cancel(u) \/ SessionLost(u)
        PROVE  SnapshotsStand' /\ RowsDiffer' /\ Drained'
    BY <1>2, <1>8 DEF Cancel, SessionLost, loop, history
  <1>9. ASSUME NEW u \in Runners, Crash(u)
        PROVE  SnapshotsStand' /\ RowsDiffer' /\ Drained'
    <2>1. UNCHANGED <<pending, work, row>>
      BY <1>9 DEF Crash, history
    <2>2. \A v \in Runners : pc'[v] = "ready"
      BY <1>0, <1>9 DEF Crash, OneCaller, TypeOK
    <2>3. Drained'
      BY <1>0, <1>1, <2>1, <2>2, DrainedKept
    <2>. QED
      BY <1>9, <2>3, CrashStands
  <1>. QED
    BY <1>3, <1>4, <1>5, <1>6, <1>7, <1>8, <1>9, CallDrains DEF Next

\* One caller finds the rows it has listed as it read them, and no cursor passes an item of a
\* drain cycle.
LEMMA DrainInvariant == ASSUME OneCaller PROVE Spec => []DrainInv
  <1>1. Init /\ TypeInv => DrainInv
    <2> SUFFICES ASSUME Init, TypeInv PROVE DrainInv
      OBVIOUS
    <2>1. \A u \in Runners : \A i \in DOMAIN queue[u] : FALSE
      <3>1. \A u \in Runners : queue[u] = <<>>
        BY DEF Init
      <3>2. DOMAIN <<>> = {}
        OBVIOUS
      <3>. QED
        BY <3>1, <3>2
    <2>2. SnapshotsStand /\ RowsDiffer
      BY <2>1 DEF SnapshotsStand, RowsDiffer
    <2>3. Drained
      BY DEF Init, Drained
    <2>. QED
      BY <2>2, <2>3 DEF DrainInv
  <1>2. DrainInv /\ TypeInv' /\ [Next]_vars => DrainInv'
    BY DrainStep
  <1>. QED
    BY <1>1, <1>2, TypeInvariant, PTL DEF Spec

\* With one caller, nothing eligible when a drain cycle began is ever left behind a cursor,
\* and a run recorded as completed has drained the cycle: through crashes, cancellations,
\* failed and unacknowledged pages, failed terminal writes and lost lock sessions.
THEOREM NothingSkippedHolds == ASSUME OneCaller PROVE Spec => []NothingSkipped
  <1>1. DrainInv => NothingSkipped
    BY DEF DrainInv, Drained, NothingSkipped, InCall
  <1>. QED
    BY <1>1, DrainInvariant, PTL

\* What a step that counts a failure does to the due time.
BackoffStep ==
    \A r \in Rows : row'[r].failures > row[r].failures => due'[r] = backoffFor(row'[r].failures)

\* With one caller, the failure count the backoff is computed from is the one the row carries.
THEOREM BackoffMatchesFailuresHolds == ASSUME OneCaller PROVE Spec => BackoffMatchesFailures
  <1>1. DrainInv /\ [Next]_vars => [BackoffStep]_vars
    <2> SUFFICES ASSUME DrainInv, Next, NEW r \in Rows, row'[r].failures > row[r].failures
                 PROVE  due'[r] = backoffFor(row'[r].failures)
      BY DEF BackoffStep
    <2>0. TypeInv /\ TypeOK /\ SnapshotsStand
      BY DEF DrainInv, TypeInv
    <2>1. row[r].failures \in Nat
      BY <2>0 DEF TypeOK, SchedulerJob
    <2>2. row'[r].failures # row[r].failures
      BY <2>1
    <2>3. ASSUME NEW s \in Rows, NEW on \in BOOLEAN, SetEnabled(s, on) PROVE FALSE
      BY <2>0, <2>2, <2>3 DEF SetEnabled, TypeOK, SchedulerJob
    <2>4. ASSUME NEW u \in Runners, MarkJobStarted(u) PROVE FALSE
      BY <2>0, <2>2, <2>4 DEF MarkJobStarted, TypeOK, SchedulerJob
    <2>5. ASSUME NEW u \in Runners, Finish(u) PROVE due'[r] = backoffFor(row'[r].failures)
      <3>1. queue[u] # <<>> /\ queue[u] \in Seq(JobState)
        BY <2>0, <2>5 DEF Finish, MarkJobCompleted, MarkJobPartial, MarkJobFailed, InCall, TypeOK
      <3>2. RowOf(u) \in Rows
        BY <2>0, <3>1, JobType
      <3>3. CASE MarkJobCompleted(u) \/ MarkJobPartial(u)
        <4>1. row'[RowOf(u)].failures = 0
          BY <2>0, <3>2, <3>3 DEF MarkJobCompleted, MarkJobPartial, TypeOK
        <4>2. r # RowOf(u) => row'[r] = row[r]
          BY <2>0, <3>2, <3>3 DEF MarkJobCompleted, MarkJobPartial, TypeOK
        <4>. QED
          BY <2>1, <4>1, <4>2
      <3>4. CASE MarkJobFailed(u)
        <4>1. r = RowOf(u)
          BY <2>0, <2>2, <3>4 DEF MarkJobFailed, TypeOK
        <4>2. row'[r].failures = row[r].failures + 1 /\ due'[r] = backoffFor(JobOf(u).failures + 1)
          BY <2>0, <3>4, <4>1 DEF MarkJobFailed, TypeOK
        <4>3. 1 \in DOMAIN queue[u] /\ JobOf(u) = queue[u][1]
          BY <3>1, QueueShape DEF JobOf
        <4>4. JobOf(u).failures = row[r].failures
          BY <2>0, <3>4, <4>1, <4>3 DEF SnapshotsStand, RowOf, MarkJobFailed, InCall
        <4>. QED
          BY <4>2, <4>4
      <3>. QED
        BY <2>5, <3>3, <3>4 DEF Finish
    <2>6. CASE UNCHANGED row
      BY <2>2, <2>6
    <2>7. ASSUME NEW u \in Runners, Call(u) PROVE due'[r] = backoffFor(row'[r].failures)
      BY <2>4, <2>5, <2>6, <2>7
         DEF Call, UnknownJob, TryLockOrgJob, SkippedLocked, LockError, MarkStartedError,
             RunPage, RunPageError, StopAtBound, FinishError, Release
    <2>. QED
      BY <2>3, <2>6, <2>7 DEF Next, Tick, BecomesEligible, ListDueJobs, Cancel, Crash, SessionLost
  <1>. QED
    BY <1>1, DrainInvariant, PTL DEF Spec, BackoffMatchesFailures, BackoffStep
=============================================================================
