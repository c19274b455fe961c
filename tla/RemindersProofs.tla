--------------------------- MODULE RemindersProofs ---------------------------
(***************************************************************************)
(* Proofs about Reminders, for any reminders, number of attempts and       *)
(* bounds: no job is given up early, none sends more often than its        *)
(* attempts and the one recovery from a crash allow, and a reminder shown  *)
(* as pending has a job that will be taken up.                             *)
(*                                                                         *)
(* The last rests on the chain of jobs of a reminder (Follows): the        *)
(* handler of a recurring reminder is past its last write only when a job  *)
(* for a later time is in the queue.  So the last job of a reminder cannot *)
(* be finished.                                                            *)
(***************************************************************************)
EXTENDS Reminders, NaturalsInduction, WellFoundedInduction, TLAPS

\* A step that replaces one job by a good one keeps all jobs good.
LEMMA OneJob ==
    ASSUME RemindersInv, NEW j \in Jobs, NEW q \in Job, GoodJob(q),
           job' = [job EXCEPT ![j] = q]
    PROVE  /\ job' \in [Jobs -> Job]
           /\ \A k \in Jobs : GoodJob(job'[k])
BY DEF RemindersInv, TypeOK

\* The fields of a job have the types of Job, and a record that agrees with a job
\* in what Job says of its fields is one.
LEMMA JobFields ==
    ASSUME NEW q \in Job
    PROVE  /\ q.state \in {"absent", "delayed", "active", "completed", "failed"}
           /\ q.step \in {"deliver", "read", "write", "add", "mark"}
           /\ q.made \in Nat /\ q.made <= MaxAttempts
           /\ q.stalls \in 0 .. 2 /\ q.sends \in Nat /\ q.next \in Slots
BY RemindersAssumption DEF Job

\* A good job stays good when an attempt begins, goes on or ends as it should:
\* p is the job before, q the job after.
LEMMA GoodAfter ==
    ASSUME NEW p \in Job, NEW q \in Job, GoodJob(p), p.state \in {"delayed", "active"},
           \/ /\ q.state = "active" /\ q.step = "deliver"
              /\ q.made = p.made /\ q.stalls = p.stalls /\ q.sends = p.sends
              /\ p.state = "delayed"
           \/ /\ p.state = "active" /\ p.step = "deliver"
              /\ q.state = "active" /\ q.step = "read"
              /\ q.made = p.made /\ q.stalls = p.stalls
              /\ q.sends = p.sends + 1 \/ (q.sends = p.sends /\ p.made >= MaxAttempts - 1)
           \/ /\ p.state = "active" /\ p.step # "deliver"
              /\ q.state = "completed" \/ (q.state = "active" /\ q.step # "deliver")
              /\ q.made = p.made /\ q.stalls = p.stalls /\ q.sends = p.sends
           \/ /\ p.state = "active" /\ q.made = p.made + 1
              /\ q.state = "failed" \/ (q.state = "delayed" /\ q.made < MaxAttempts)
              /\ q.stalls = p.stalls /\ q.sends = p.sends
           \/ /\ p.state = "active" /\ q.stalls = p.stalls + 1
              /\ q.state = "failed" \/ (q.state = "delayed" /\ q.stalls < 2)
              /\ q.made = p.made /\ q.sends = p.sends
    PROVE  GoodJob(q)
BY JobFields, RemindersAssumption DEF GoodJob, Tried

\* The next occurrence is a slot, and never the number that stands for none.
LEMMA NextIsSlot ==
    ASSUME TypeOK, NEW r \in Reminders
    PROVE  ComputeNextOccurrence(r) \in Slots \ {0}
BY RemindersAssumption DEF TypeOK, Row, ComputeNextOccurrence, Greater, Slots, Later

\* The initial state satisfies the inductive invariant.
LEMMA InitRemindersInv == Init => RemindersInv
BY RemindersAssumption
   DEF Init, RemindersInv, TypeOK, Row, Status, Pattern, Job, NoJob, Request, Idle, Slots,
       Later, GoodJob, Tried

\* What the API does preserves the invariant: it adds fresh jobs only.
LEMMA ApiInv ==
    ASSUME RemindersInv, NEW r \in Reminders, Api(r)
    PROVE  RemindersInv'
<1> USE RemindersAssumption DEF RemindersInv
<1>1. CASE \E t \in now .. MaxTime, pattern \in Pattern : ScheduleReminder(r, t, pattern)
    BY <1>1 DEF ScheduleReminder, TypeOK, Row, Status, Request, Slots, Later
<1>2. CASE \E t \in now .. MaxTime : SchedulePredictive(r, t)
    BY <1>2 DEF SchedulePredictive, TypeOK, Row, Status, Pattern, Slots, Later
<1>3. CASE \E t \in now .. MaxTime : ModifyReminderTime(r, t)
    BY <1>3 DEF ModifyReminderTime, TypeOK, Row, Request, Slots, Later
<1>4. CASE Enqueue(r)
    <2> DEFINE j == <<r, request[r].time>>
    <2>1. j \in Jobs
        BY DEF TypeOK, Request, Jobs
    <2>2. job' \in [Jobs -> Job] /\ \A k \in Jobs : GoodJob(job'[k])
        <3>1. CASE job[j].state = "absent"
            <4> DEFINE q == [job[j] EXCEPT !.state = "delayed"]
            <4>1. q \in Job /\ GoodJob(q)
                BY <2>1, <3>1 DEF TypeOK, Job, GoodJob, Tried
            <4>2. job' = [job EXCEPT ![j] = q]
                BY <1>4, <2>1, <3>1 DEF Enqueue, Add
            <4> QED
                BY <2>1, <4>1, <4>2, OneJob
        <3>2. CASE job[j].state # "absent"
            BY <1>4, <3>2 DEF Enqueue, Add, TypeOK
        <3> QED
            BY <3>1, <3>2
    <2> QED
        BY <1>4, <2>2 DEF Enqueue, TypeOK, Request, Idle, Slots, Later
<1>5. CASE EnqueueFails(r)
    BY <1>5 DEF EnqueueFails, Fault, TypeOK, Row, Status, Request, Idle, Slots, Later
<1>6. CASE PickToModify(r)
    BY <1>6 DEF PickToModify, TypeOK, Request, Slots, Later
<1>7. CASE CancelReminder(r)
    BY <1>7 DEF CancelReminder, TypeOK, Row, Status
<1>8. CASE RequestLost(r)
    BY <1>8 DEF RequestLost, Fault, TypeOK, Request, Idle, Slots, Later
<1> QED
    BY <1>1, <1>2, <1>3, <1>4, <1>5, <1>6, <1>7, <1>8 DEF Api

\* What the worker does to one job keeps that job good.
LEMMA WorkerInv ==
    ASSUME RemindersInv, NEW j \in Jobs, Handle(j) \/ Throws(j) \/ MarkFailed(j)
    PROVE  RemindersInv'
<1> USE RemindersAssumption DEF RemindersInv
<1>0. job[j] \in Job /\ GoodJob(job[j]) /\ j[1] \in Reminders /\ j[2] \in Slots
    BY DEF TypeOK, Jobs
<1>1. CASE Pick(j)
    <2> DEFINE q == [job[j] EXCEPT !.state = "active", !.step = "deliver", !.next = 0]
    <2>1. 0 \in Slots
        BY DEF Slots, Later
    <2>2. q \in Job
        BY <1>0, <2>1 DEF Job
    <2>3. GoodJob(q)
        <3>1. /\ q.state = "active" /\ q.step = "deliver" /\ q.made = job[j].made
              /\ q.stalls = job[j].stalls /\ q.sends = job[j].sends
            BY <1>0 DEF Job
        <3>2. job[j].state = "delayed"
            BY <1>1 DEF Pick
        <3> HIDE DEF q
        <3> QED
            BY <1>0, <2>2, <3>1, <3>2, GoodAfter
    <2>4. job' = [job EXCEPT ![j] = q]
        BY <1>0, <1>1 DEF Pick, TypeOK, Job
    <2> QED
        BY <1>1, <2>2, <2>3, <2>4, OneJob DEF Pick, TypeOK
<1>2. CASE Deliver(j)
    <2> DEFINE q == [job[j] EXCEPT !.sends = @ + 1, !.step = "read"]
    <2>1. job[j].sends + 1 \in Nat
        BY <1>0, JobFields
    <2>2. q \in Job
        BY <1>0, <2>1 DEF Job
    <2>3. GoodJob(q)
        <3>1. /\ q.state = job[j].state /\ q.step = "read" /\ q.made = job[j].made
              /\ q.stalls = job[j].stalls /\ q.sends = job[j].sends + 1
            BY <1>0 DEF Job
        <3>2. job[j].state = "active" /\ job[j].step = "deliver"
            BY <1>2 DEF Deliver, At
        <3> HIDE DEF q
        <3> QED
            BY <1>0, <2>2, <3>1, <3>2, GoodAfter
    <2>4. job' = [job EXCEPT ![j] = q]
        BY <1>0, <1>2 DEF Deliver, TypeOK, Job
    <2> QED
        BY <1>2, <2>2, <2>3, <2>4, OneJob DEF Deliver, TypeOK
<1>3. CASE GiveUp(j)
    <2> DEFINE q == [job[j] EXCEPT !.step = "read"]
    <2>1. q \in Job
        BY <1>0 DEF Job
    <2>2. GoodJob(q)
        <3>1. /\ q.state = job[j].state /\ q.step = "read" /\ q.made = job[j].made
              /\ q.stalls = job[j].stalls /\ q.sends = job[j].sends
            BY <1>0 DEF Job
        <3>2. /\ job[j].state = "active" /\ job[j].step = "deliver"
              /\ job[j].made >= MaxAttempts - 1
            BY <1>3 DEF GiveUp, At
        <3> HIDE DEF q
        <3> QED
            BY <1>0, <2>1, <3>1, <3>2, GoodAfter
    <2>3. job' = [job EXCEPT ![j] = q]
        BY <1>0, <1>3 DEF GiveUp, TypeOK, Job
    <2> QED
        BY <1>3, <2>1, <2>2, <2>3, OneJob DEF GiveUp, TypeOK
<1>4. CASE ReadRow(j)
    <2>1. PICK q \in {[job[j] EXCEPT !.step = "mark"],
                      [job[j] EXCEPT !.step = "write",
                                     !.next = ComputeNextOccurrence(j[1])]} :
             job' = [job EXCEPT ![j] = q]
        BY <1>0, <1>4 DEF ReadRow, TypeOK, Job
    <2>2. q \in Job
        BY <1>0, <2>1, NextIsSlot DEF Job
    <2>3. GoodJob(q)
        <3>1. /\ q.state = job[j].state /\ q.step # "deliver" /\ q.made = job[j].made
              /\ q.stalls = job[j].stalls /\ q.sends = job[j].sends
            BY <1>0, <2>1 DEF Job
        <3>2. job[j].state = "active" /\ job[j].step # "deliver"
            BY <1>4 DEF ReadRow, At
        <3> QED
            BY <1>0, <2>2, <3>1, <3>2, GoodAfter
    <2> QED
        BY <1>4, <2>1, <2>2, <2>3, OneJob DEF ReadRow, TypeOK
<1>5. CASE WriteRow(j)
    <2> DEFINE q == [job[j] EXCEPT !.step = "add"]
    <2>1. q \in Job
        BY <1>0 DEF Job
    <2>2. GoodJob(q)
        <3>1. /\ q.state = job[j].state /\ q.step # "deliver" /\ q.made = job[j].made
              /\ q.stalls = job[j].stalls /\ q.sends = job[j].sends
            BY <1>0 DEF Job
        <3>2. job[j].state = "active" /\ job[j].step # "deliver"
            BY <1>5 DEF WriteRow, At
        <3> HIDE DEF q
        <3> QED
            BY <1>0, <2>1, <3>1, <3>2, GoodAfter
    <2>3. job' = [job EXCEPT ![j] = q]
        BY <1>0, <1>5 DEF WriteRow, TypeOK, Job
    <2>4. row' \in [Reminders -> Row]
        <3>1. job[j].next \in Slots
            BY <1>0, JobFields
        <3> QED
            BY <1>0, <1>5, <3>1 DEF WriteRow, TypeOK, Row, Status
    <2> QED
        BY <1>5, <2>1, <2>2, <2>3, <2>4, OneJob DEF WriteRow, TypeOK
<1>6. CASE AddNext(j)
    <2>1. ASSUME NEW k \in Jobs
          PROVE  job'[k] \in Job /\ GoodJob(job'[k])
        <3>1. job[k] \in Job /\ GoodJob(job[k])
            BY DEF TypeOK
        <3>2. CASE k = j
            <4> DEFINE q == [job[j] EXCEPT !.step = "mark"]
            <4>1. job'[k] = q
                BY <1>6, <3>2 DEF AddNext
            <4>2. q \in Job
                BY <1>0 DEF Job
            <4>3. /\ q.state = job[j].state /\ q.step # "deliver" /\ q.made = job[j].made
                  /\ q.stalls = job[j].stalls /\ q.sends = job[j].sends
                BY <1>0 DEF Job
            <4>4. job[j].state = "active" /\ job[j].step # "deliver"
                BY <1>6 DEF AddNext, At
            <4> HIDE DEF q
            <4> QED
                BY <1>0, <4>1, <4>2, <4>3, <4>4, GoodAfter
        <3>3. CASE k # j /\ k = <<j[1], job[j].next>> /\ job[k].state = "absent"
            <4> DEFINE q == [job[k] EXCEPT !.state = "delayed"]
            <4>1. job'[k] = q
                BY <1>6, <3>3 DEF AddNext
            <4>2. q \in Job
                BY <3>1 DEF Job
            <4>3. /\ q.state = "delayed" /\ q.made = 0 /\ q.stalls = 0 /\ q.sends = 0
                BY <3>1, <3>3 DEF Job, GoodJob
            <4>4. GoodJob(q)
                <5> HIDE DEF q
                <5> QED
                    BY <4>3 DEF GoodJob, Tried
            <4> QED
                BY <4>1, <4>2, <4>4
        <3>4. CASE k # j /\ ~(k = <<j[1], job[j].next>> /\ job[k].state = "absent")
            BY <1>6, <3>1, <3>4 DEF AddNext
        <3> QED
            BY <3>2, <3>3, <3>4
    <2>2. job' \in [Jobs -> Job] /\ \A k \in Jobs : GoodJob(job'[k])
        BY <1>6, <2>1 DEF AddNext
    <2> QED
        BY <1>6, <2>2 DEF AddNext, TypeOK
<1>7. CASE MarkSent(j)
    <2> DEFINE q == [job[j] EXCEPT !.state = "completed"]
    <2>1. q \in Job
        BY <1>0 DEF Job
    <2>2. GoodJob(q)
        <3>1. /\ q.state = "completed" /\ q.made = job[j].made
              /\ q.stalls = job[j].stalls /\ q.sends = job[j].sends
            BY <1>0 DEF Job
        <3>2. job[j].state = "active" /\ job[j].step # "deliver"
            BY <1>7 DEF MarkSent, At
        <3> HIDE DEF q
        <3> QED
            BY <1>0, <2>1, <3>1, <3>2, GoodAfter
    <2>3. job' = [job EXCEPT ![j] = q]
        BY <1>0, <1>7 DEF MarkSent, TypeOK, Job
    <2>4. row' \in [Reminders -> Row]
        BY <1>0, <1>7 DEF MarkSent, TypeOK, Row, Status
    <2> QED
        BY <1>7, <2>1, <2>2, <2>3, <2>4, OneJob DEF MarkSent, TypeOK
<1>8. ASSUME job[j].state = "active", AttemptFails(j), faults' \in 0 .. MaxFaults
      PROVE  RemindersInv'
    <2> DEFINE q == [job[j] EXCEPT !.made = @ + 1,
                                   !.state = IF job[j].made + 1 >= MaxAttempts THEN "failed"
                                                                               ELSE "delayed"]
    <2>1. job[j].made \in Nat /\ job[j].made + 1 \in 0 .. MaxAttempts
        BY <1>0, <1>8, JobFields DEF GoodJob
    <2>2. q \in Job
        BY <1>0, <2>1 DEF Job
    <2>3. GoodJob(q)
        <3>1. /\ q.state = IF job[j].made + 1 >= MaxAttempts THEN "failed" ELSE "delayed"
              /\ q.made = job[j].made + 1
              /\ q.stalls = job[j].stalls /\ q.sends = job[j].sends
            BY <1>0 DEF Job
        <3>2. q.state = "failed" \/ (q.state = "delayed" /\ q.made < MaxAttempts)
            <4> HIDE DEF q
            <4> QED
                BY <2>1, <3>1
        <3> HIDE DEF q
        <3> QED
            BY <1>0, <1>8, <2>2, <3>1, <3>2, GoodAfter
    <2>4. job' = [job EXCEPT ![j] = q]
        BY <1>0, <1>8 DEF AttemptFails, TypeOK, Job
    <2> QED
        BY <1>8, <2>2, <2>3, <2>4, OneJob DEF AttemptFails, TypeOK
<1>9. CASE NotDelivered(j) \/ Throws(j)
    BY <1>8, <1>9 DEF NotDelivered, Throws, At, Fault, TypeOK
<1>10. CASE MarkFailed(j)
    BY <1>0, <1>10 DEF MarkFailed, Fault, TypeOK, Row, Status
<1> QED
    BY <1>1, <1>2, <1>3, <1>4, <1>5, <1>6, <1>7, <1>9, <1>10 DEF Handle

\* A crash of the worker counts against the jobs it cuts off.
LEMMA CrashInv ==
    ASSUME RemindersInv, WorkerCrash
    PROVE  RemindersInv'
<1> USE RemindersAssumption DEF RemindersInv
<1>1. job' \in [Jobs -> Job] /\ \A k \in Jobs : GoodJob(job'[k])
    <2> SUFFICES ASSUME NEW k \in Jobs
                 PROVE  job'[k] \in Job /\ GoodJob(job'[k])
        BY DEF WorkerCrash
    <2>1. job[k] \in Job /\ GoodJob(job[k])
        BY DEF TypeOK
    <2>2. job'[k] = IF job[k].state # "active" THEN job[k]
                    ELSE [job[k] EXCEPT !.stalls = @ + 1,
                                        !.state = IF job[k].stalls = 0 THEN "delayed" ELSE "failed"]
        BY DEF WorkerCrash
    <2>3. CASE job[k].state # "active"
        BY <2>1, <2>2, <2>3
    <2>4. CASE job[k].state = "active"
        <3> DEFINE q == [job[k] EXCEPT !.stalls = @ + 1,
                            !.state = IF job[k].stalls = 0 THEN "delayed" ELSE "failed"]
        <3>1. job'[k] = q
            BY <2>2, <2>4
        <3>2. job[k].stalls \in {0, 1}
            BY <2>1, <2>4, JobFields DEF GoodJob
        <3>3. q \in Job
            <4>1. /\ job[k].stalls + 1 \in 0 .. 2
                  /\ (IF job[k].stalls = 0 THEN "delayed" ELSE "failed") \in {"delayed", "failed"}
                BY <3>2
            <4> QED
                BY <2>1, <4>1 DEF Job
        <3>4. /\ q.state = IF job[k].stalls = 0 THEN "delayed" ELSE "failed"
              /\ q.stalls = job[k].stalls + 1
              /\ q.made = job[k].made /\ q.sends = job[k].sends
            BY <2>1 DEF Job
        <3>5. q.state = "failed" \/ (q.state = "delayed" /\ q.stalls < 2)
            <4> HIDE DEF q
            <4> QED
                BY <3>2, <3>4
        <3> HIDE DEF q
        <3> QED
            BY <2>1, <2>4, <3>1, <3>3, <3>4, <3>5, GoodAfter
    <2> QED
        BY <2>3, <2>4
<1>2. failing' \subseteq Jobs
    BY DEF WorkerCrash
<1>3. faults' \in 0 .. MaxFaults
    <2>1. faults \in 0 .. MaxFaults /\ faults < MaxFaults /\ faults' = faults + 1
        BY DEF WorkerCrash, Fault, TypeOK
    <2> QED
        BY <2>1
<1> QED
    BY <1>1, <1>2, <1>3 DEF WorkerCrash, TypeOK

\* The inductive invariant holds in every reachable state.
THEOREM RemindersInvariant == Spec => []RemindersInv
<1>1. RemindersInv /\ [Next]_vars => RemindersInv'
    <2> SUFFICES ASSUME RemindersInv, [Next]_vars PROVE RemindersInv'
        OBVIOUS
    <2>1. CASE Tick
        BY <2>1, RemindersAssumption DEF Tick, RemindersInv, TypeOK
    <2>2. CASE \E r \in Reminders : Api(r)
        BY <2>2, ApiInv
    <2>3. CASE \E j \in Jobs : Handle(j) \/ Throws(j) \/ MarkFailed(j)
        BY <2>3, WorkerInv
    <2>4. CASE WorkerCrash
        BY <2>4, CrashInv
    <2>5. CASE UNCHANGED vars
        BY <2>5 DEF vars, RemindersInv, TypeOK
    <2> QED
        BY <2>1, <2>2, <2>3, <2>4, <2>5 DEF Next
<1> QED
    BY <1>1, InitRemindersInv, PTL DEF Spec

\* Every row, job and request keeps its shape, and no job starts more attempts than
\* queue.ts configures.
THEOREM RemindersTypeOK == Spec => []TypeOK
<1>1. RemindersInv => TypeOK
    BY DEF RemindersInv
<1> QED
    BY <1>1, RemindersInvariant, PTL

\* "On the final attempt, mark as sent anyway": a job that is done without any
\* message has used all its attempts.
THEOREM GivesUpAtLastAlways == Spec => []GivesUpAtLast
<1>1. RemindersInv => GivesUpAtLast
    BY DEF RemindersInv, GoodJob, Tried, GivesUpAtLast
<1> QED
    BY <1>1, RemindersInvariant, PTL

\* "attempts: 3": whatever is moved, retried or repeated, and wherever the worker
\* stops, one occurrence sends at most once per attempt and once after a crash.
THEOREM SendsBoundedAlways == Spec => []SendsBounded
<1>1. RemindersInv => SendsBounded
    BY RemindersAssumption DEF RemindersInv, TypeOK, Job, GoodJob, Tried, SendsBounded
<1> QED
    BY <1>1, RemindersInvariant, PTL
-----------------------------------------------------------------------------
(* The chain of jobs of a reminder. *)

\* The handler of a job is past putting the next one in the queue.
Passed(q) == q.state = "completed" \/ (q.state = "active" /\ q.step = "mark")

\* What a job says of the reminder it belongs to: one that has passed was the only one,
\* or a later one is in the queue, or somebody has cancelled the reminder.
Follows(j) ==
    LET q == job[j]
        r == j[1]
    IN  /\ q.state # "absent" => row[r].status # "none"
        /\ q.state = "active" => j[2] <= now
        /\ q.state = "active" /\ q.step \in {"deliver", "read"} => q.next = 0
        /\ q.state = "active" /\ q.step \in {"write", "add"} =>
              q.next > j[2] /\ row[r].pattern # "once"
        /\ Passed(q) =>
              \/ /\ q.next > j[2] /\ row[r].pattern # "once"
                 /\ job[<<r, q.next>>].state # "absent"
              \/ q.next = 0 /\ (row[r].pattern = "once" \/ r \in cancelAsked)
        /\ q.state = "completed" /\ row[r].pattern = "once" => row[r].status # "pending"

RowStands(r) ==
    /\ request[r] # Idle => row[r].status # "none"
    /\ row[r].status = "cancelled" => r \in cancelAsked

QueueInv ==
    /\ RemindersInv
    /\ \A r \in Reminders : RowStands(r)
    /\ \A j \in Jobs : Follows(j)

\* What no step takes back: time, rows, their patterns and jobs.
Kept ==
    /\ now' \in Nat /\ now' >= now
    /\ cancelAsked \subseteq cancelAsked'
    /\ \A j \in Jobs : job[j].state # "absent" => job'[j].state # "absent"
    /\ \A r \in Reminders : row[r].status # "none" =>
          /\ row'[r].status # "none"
          /\ row'[r].pattern = row[r].pattern
          /\ row[r].pattern = "once" /\ row'[r].status = "pending" => row[r].status = "pending"

\* A job that a step leaves alone says what it said.
LEMMA UntouchedFollows ==
    ASSUME QueueInv, Kept, NEW j \in Jobs, job'[j] = job[j]
    PROVE  Follows(j)'
<1>1. Follows(j) /\ j[1] \in Reminders /\ j[2] \in Nat /\ job[j] \in Job /\ now \in Nat /\ now' >= now
    BY RemindersAssumption DEF QueueInv, RemindersInv, TypeOK, Jobs, Slots, Later, Kept
<1>2. job[j].next \in Slots
    BY <1>1, JobFields
<1>3. CASE job[j].state = "absent"
    BY <1>3 DEF Follows, Passed
<1>4. CASE job[j].state # "absent"
    <2>1. /\ row[j[1]].status # "none" /\ row'[j[1]].status # "none"
          /\ row'[j[1]].pattern = row[j[1]].pattern
          /\ row[j[1]].pattern = "once" /\ row'[j[1]].status = "pending" => row[j[1]].status = "pending"
        BY <1>1, <1>4 DEF Follows, Kept
    <2>2. job[<<j[1], job[j].next>>].state # "absent" => job'[<<j[1], job[j].next>>].state # "absent"
        BY <1>1, <1>2 DEF Kept, Jobs
    <2>3. j[2] <= now => j[2] <= now'
        <3>1. now' \in Int
            BY DEF Kept
        <3> QED
            BY <1>1, <3>1
    <2>4. j[1] \in cancelAsked => j[1] \in cancelAsked'
        BY DEF Kept
    <2> QED
        BY <1>1, <1>4, <2>1, <2>2, <2>3, <2>4 DEF Follows, Passed
<1> QED
    BY <1>3, <1>4

\* The steps that change no job and no row of a reminder that has one.
LEMMA SameJobs ==
    ASSUME QueueInv, Kept, UNCHANGED job, \A r \in Reminders : RowStands(r)', RemindersInv'
    PROVE  QueueInv'
BY UntouchedFollows DEF QueueInv

\* The steps that change one job.
LEMMA OneJobFollows ==
    ASSUME QueueInv, Kept, NEW j \in Jobs, NEW q, job' = [job EXCEPT ![j] = q],
           Follows(j)', \A r \in Reminders : RowStands(r)', RemindersInv'
    PROVE  QueueInv'
<1>1. ASSUME NEW k \in Jobs, k # j PROVE job'[k] = job[k]
    BY <1>1 DEF QueueInv, RemindersInv, TypeOK
<1>2. ASSUME NEW k \in Jobs PROVE Follows(k)'
    <2>1. CASE k = j
        BY <2>1
    <2>2. CASE k # j
        BY <1>1, <2>2, UntouchedFollows
    <2> QED
        BY <2>1, <2>2
<1> QED
    BY <1>2 DEF QueueInv

\* Initially there is no row and no job.
LEMMA InitQueueInv == Init => QueueInv
<1> SUFFICES ASSUME Init PROVE QueueInv
    OBVIOUS
<1>1. RemindersInv
    BY InitRemindersInv
<1>2. ASSUME NEW r \in Reminders PROVE RowStands(r)
    BY DEF Init, RowStands
<1>3. ASSUME NEW j \in Jobs PROVE Follows(j)
    <2>1. job[j].state = "absent"
        BY DEF Init, NoJob
    <2> QED
        BY <2>1 DEF Follows, Passed
<1> QED
    BY <1>1, <1>2, <1>3 DEF QueueInv

\* What the API does keeps the chain.
LEMMA ApiQueueInv ==
    ASSUME QueueInv, NEW r \in Reminders, Api(r)
    PROVE  QueueInv'
<1> USE RemindersAssumption
<1>0. RemindersInv /\ TypeOK /\ RemindersInv' /\ now \in Nat
    BY ApiInv DEF QueueInv, RemindersInv, TypeOK
<1>1. CASE \E t \in now .. MaxTime, pattern \in Pattern : ScheduleReminder(r, t, pattern)
    <2>1. Kept
        BY <1>0, <1>1 DEF ScheduleReminder, Kept, TypeOK
    <2>2. \A x \in Reminders : RowStands(x)'
        BY <1>0, <1>1 DEF ScheduleReminder, TypeOK, QueueInv, RowStands
    <2> QED
        BY <1>0, <1>1, <2>1, <2>2, SameJobs DEF ScheduleReminder
<1>2. CASE \E t \in now .. MaxTime : SchedulePredictive(r, t)
    <2>1. Kept
        BY <1>0, <1>2 DEF SchedulePredictive, Kept, TypeOK
    <2>2. \A x \in Reminders : RowStands(x)'
        BY <1>0, <1>2 DEF SchedulePredictive, TypeOK, QueueInv, RowStands
    <2> QED
        BY <1>0, <1>2, <2>1, <2>2, SameJobs DEF SchedulePredictive
<1>3. CASE \E t \in now .. MaxTime : ModifyReminderTime(r, t)
    <2>1. Kept
        BY <1>0, <1>3 DEF ModifyReminderTime, Kept, TypeOK, Row
    <2>2. \A x \in Reminders : RowStands(x)'
        BY <1>0, <1>3 DEF ModifyReminderTime, TypeOK, QueueInv, RowStands, Idle, Row
    <2> QED
        BY <1>0, <1>3, <2>1, <2>2, SameJobs DEF ModifyReminderTime
<1>4. CASE Enqueue(r)
    <2>1. PICK j \in Jobs : j = <<r, request[r].time>>
        BY <1>0 DEF TypeOK, Request, Jobs
    <2>2. \A x \in Reminders : RowStands(x)'
        BY <1>0, <1>4 DEF Enqueue, TypeOK, QueueInv, RowStands
    <2>3. CASE job[j].state # "absent"
        <3>1. Kept /\ UNCHANGED job
            BY <1>0, <1>4, <2>1, <2>3 DEF Enqueue, Add, Kept, TypeOK
        <3> QED
            BY <1>0, <2>2, <3>1, SameJobs
    <2>4. CASE job[j].state = "absent"
        <3>1. PICK q \in Job : job' = [job EXCEPT ![j] = q] /\ q.state = "delayed"
            <4> DEFINE q == [job[j] EXCEPT !.state = "delayed"]
            <4>1. q \in Job /\ q.state = "delayed"
                BY <1>0, <2>1 DEF TypeOK, Job
            <4>2. job' = [job EXCEPT ![j] = q]
                BY <1>0, <1>4, <2>1, <2>4 DEF Enqueue, Add
            <4> HIDE DEF q
            <4> QED
                BY <4>1, <4>2
        <3>2. job' \in [Jobs -> Job] /\ job'[j] = q
            BY <1>0, <2>1, <3>1 DEF RemindersInv, TypeOK
        <3>3. Kept
            BY <1>0, <1>4, <3>1 DEF Enqueue, Kept, TypeOK
        <3>4. row'[j[1]].status # "none"
            BY <1>4, <2>1 DEF Enqueue, Idle, QueueInv, RowStands
        <3>5. Follows(j)'
            BY <3>1, <3>2, <3>4 DEF Follows, Passed
        <3> QED
            BY <1>0, <2>2, <3>1, <3>3, <3>5, OneJobFollows
    <2> QED
        BY <2>3, <2>4
<1>5. CASE EnqueueFails(r)
    <2>1. request[r] # Idle
        BY <1>5 DEF EnqueueFails, Idle
    <2>2. row[r].status # "none"
        BY <2>1 DEF QueueInv, RowStands
    <2>3. Kept
        BY <1>0, <1>5, <2>2 DEF EnqueueFails, Kept, TypeOK, Row
    <2>4. \A x \in Reminders : RowStands(x)'
        BY <1>0, <1>5, <2>2 DEF EnqueueFails, TypeOK, QueueInv, RowStands, Row
    <2> QED
        BY <1>0, <1>5, <2>3, <2>4, SameJobs DEF EnqueueFails
<1>6. CASE PickToModify(r)
    <2>1. Kept
        BY <1>0, <1>6 DEF PickToModify, Kept, TypeOK
    <2>2. \A x \in Reminders : RowStands(x)'
        BY <1>0, <1>6 DEF PickToModify, TypeOK, QueueInv, RowStands
    <2> QED
        BY <1>0, <1>6, <2>1, <2>2, SameJobs DEF PickToModify
<1>7. CASE CancelReminder(r)
    <2>1. Kept
        BY <1>0, <1>7 DEF CancelReminder, Kept, TypeOK, Row
    <2>2. \A x \in Reminders : RowStands(x)'
        BY <1>0, <1>7 DEF CancelReminder, TypeOK, QueueInv, RowStands, Row
    <2> QED
        BY <1>0, <1>7, <2>1, <2>2, SameJobs DEF CancelReminder
<1>8. CASE RequestLost(r)
    <2>1. Kept
        BY <1>0, <1>8 DEF RequestLost, Kept, TypeOK
    <2>2. \A x \in Reminders : RowStands(x)'
        BY <1>0, <1>8 DEF RequestLost, TypeOK, QueueInv, RowStands
    <2> QED
        BY <1>0, <1>8, <2>1, <2>2, SameJobs DEF RequestLost
<1> QED
    BY <1>1, <1>2, <1>3, <1>4, <1>5, <1>6, <1>7, <1>8 DEF Api

\* The steps that change no row.
LEMMA RowsAlone ==
    ASSUME QueueInv, UNCHANGED <<row, request, cancelAsked>>
    PROVE  \A r \in Reminders : RowStands(r)'
BY DEF QueueInv, RowStands

\* A job whose attempt goes on, fails or is over, at step p before and q after.
LEMMA AttemptFollows ==
    ASSUME QueueInv, Kept, NEW j \in Jobs, NEW q \in Job, job' = [job EXCEPT ![j] = q],
           job[j].state # "absent",
           \/ q.state \in {"delayed", "failed"}
           \/ q.state = "active" /\ q.step \in {"deliver", "read"} /\ q.next = 0 /\ j[2] <= now
           \/ /\ q.state = "active" /\ q.step = "write" /\ j[2] <= now
              /\ q.next > j[2] /\ row[j[1]].pattern # "once",
           \A r \in Reminders : RowStands(r)', RemindersInv'
    PROVE  QueueInv'
<1>1. /\ job'[j] = q /\ j[1] \in Reminders /\ j[2] \in Nat /\ now \in Nat /\ now' \in Nat
      /\ now <= now' /\ q.next \in Slots
    BY RemindersAssumption, JobFields DEF QueueInv, RemindersInv, TypeOK, Jobs, Slots, Later, Kept
<1>2. row[j[1]].status # "none"
    BY DEF QueueInv, Follows
<1>3. row'[j[1]].status # "none" /\ row'[j[1]].pattern = row[j[1]].pattern
    BY <1>1, <1>2 DEF Kept
<1>4. Follows(j)'
    BY <1>1, <1>3 DEF Follows, Passed
<1> QED
    BY <1>4, OneJobFollows

\* What the worker does to one job, and the listener of its failure, keep the chain.
LEMMA WorkerQueueInv ==
    ASSUME QueueInv, NEW j \in Jobs, Handle(j) \/ Throws(j) \/ MarkFailed(j)
    PROVE  QueueInv'
<1> USE RemindersAssumption
<1>0. /\ RemindersInv' /\ TypeOK /\ now \in 0 .. MaxTime /\ job[j] \in Job
      /\ j[1] \in Reminders /\ j[2] \in Slots /\ Follows(j)
    <2>1. RemindersInv
        BY DEF QueueInv
    <2> QED
        BY <2>1, WorkerInv DEF QueueInv, RemindersInv, TypeOK, Jobs
<1>1. ASSUME UNCHANGED <<now, row, request, cancelAsked>>,
             NEW q \in Job, job' = [job EXCEPT ![j] = q], q.state # "absent"
      PROVE  Kept /\ \A r \in Reminders : RowStands(r)'
    BY <1>0, <1>1, RowsAlone DEF Kept, TypeOK
<1>2. CASE Pick(j)
    <2>1. PICK q \in Job : /\ job' = [job EXCEPT ![j] = q]
                           /\ q.state = "active" /\ q.step = "deliver" /\ q.next = 0
        <3> DEFINE q == [job[j] EXCEPT !.state = "active", !.step = "deliver", !.next = 0]
        <3>0. 0 \in Slots
            BY DEF Slots, Later
        <3>1. q \in Job /\ q.state = "active" /\ q.step = "deliver" /\ q.next = 0
            BY <1>0, <3>0 DEF Job
        <3>2. job' = [job EXCEPT ![j] = q]
            BY <1>0, <1>2 DEF Pick, TypeOK, Job
        <3> HIDE DEF q
        <3> QED
            BY <3>1, <3>2
    <2> QED
        BY <1>0, <1>1, <1>2, <2>1, AttemptFollows DEF Pick
<1>3. CASE Deliver(j)
    <2>1. PICK q \in Job : /\ job' = [job EXCEPT ![j] = q]
                           /\ q.state = "active" /\ q.step = "read" /\ q.next = 0
        <3> DEFINE q == [job[j] EXCEPT !.sends = @ + 1, !.step = "read"]
        <3>0. job[j].sends + 1 \in Nat
            BY <1>0, JobFields
        <3>1. q \in Job /\ q.state = job[j].state /\ q.step = "read" /\ q.next = job[j].next
            BY <1>0, <3>0 DEF Job
        <3>2. job' = [job EXCEPT ![j] = q]
            BY <1>0, <1>3 DEF Deliver, TypeOK, Job
        <3> HIDE DEF q
        <3> QED
            BY <1>0, <1>3, <3>1, <3>2 DEF Deliver, At, Follows
    <2>2. job[j].state = "active" /\ j[2] <= now
        BY <1>0, <1>3 DEF Deliver, At, Follows
    <2> QED
        BY <1>0, <1>1, <1>3, <2>1, <2>2, AttemptFollows DEF Deliver
<1>4. CASE GiveUp(j)
    <2>1. PICK q \in Job : /\ job' = [job EXCEPT ![j] = q]
                           /\ q.state = "active" /\ q.step = "read" /\ q.next = 0
        <3> DEFINE q == [job[j] EXCEPT !.step = "read"]
        <3>0. job[j].sends + 1 \in Nat
            BY <1>0, JobFields
        <3>1. q \in Job /\ q.state = job[j].state /\ q.step = "read" /\ q.next = job[j].next
            BY <1>0, <3>0 DEF Job
        <3>2. job' = [job EXCEPT ![j] = q]
            BY <1>0, <1>4 DEF GiveUp, TypeOK, Job
        <3> HIDE DEF q
        <3> QED
            BY <1>0, <1>4, <3>1, <3>2 DEF GiveUp, At, Follows
    <2>2. job[j].state = "active" /\ j[2] <= now
        BY <1>0, <1>4 DEF GiveUp, At, Follows
    <2> QED
        BY <1>0, <1>1, <1>4, <2>1, <2>2, AttemptFollows DEF GiveUp
<1>5. CASE ReadRow(j)
    <2>1. /\ job[j].state = "active" /\ j[2] <= now /\ job[j].next = 0
          /\ row[j[1]].status # "none"
        BY <1>0, <1>5 DEF ReadRow, At, Follows
    <2>2. CASE row[j[1]].status = "cancelled" \/ row[j[1]].pattern = "once"
        <3>1. PICK q \in Job : /\ job' = [job EXCEPT ![j] = q]
                               /\ q.state = "active" /\ q.step = "mark" /\ q.next = 0
            <4> DEFINE q == [job[j] EXCEPT !.step = "mark"]
            <4>1. q \in Job /\ q.state = "active" /\ q.step = "mark" /\ q.next = 0
                BY <1>0, <2>1 DEF Job
            <4>2. job' = [job EXCEPT ![j] = q]
                BY <1>0, <1>5, <2>2 DEF ReadRow, TypeOK, Job
            <4> HIDE DEF q
            <4> QED
                BY <4>1, <4>2
        <3>2. Kept /\ \A r \in Reminders : RowStands(r)'
            BY <1>1, <1>5, <3>1 DEF ReadRow
        <3>3. row[j[1]].pattern = "once" \/ j[1] \in cancelAsked
            BY <1>0, <2>2 DEF QueueInv, RowStands
        <3>4. job'[j] = q
            BY <1>0, <3>1 DEF TypeOK
        <3>5. Follows(j)'
            BY <1>5, <2>1, <3>1, <3>3, <3>4 DEF ReadRow, Follows, Passed
        <3> QED
            BY <1>0, <3>1, <3>2, <3>5, OneJobFollows
    <2>3. CASE ~ (row[j[1]].status = "cancelled" \/ row[j[1]].pattern = "once")
        <3>1. ComputeNextOccurrence(j[1]) \in Slots /\ ComputeNextOccurrence(j[1]) > now
            BY <1>0 DEF TypeOK, Row, ComputeNextOccurrence, Greater, Slots, Later
        <3>2. PICK q \in Job : /\ job' = [job EXCEPT ![j] = q]
                               /\ q.state = "active" /\ q.step = "write" /\ q.next > now
            <4> DEFINE q == [job[j] EXCEPT !.step = "write", !.next = ComputeNextOccurrence(j[1])]
            <4>1. /\ q \in Job /\ q.state = "active" /\ q.step = "write"
                  /\ q.next = ComputeNextOccurrence(j[1])
                BY <1>0, <2>1, <3>1 DEF Job
            <4>2. job' = [job EXCEPT ![j] = q]
                BY <1>0, <1>5, <2>3 DEF ReadRow, TypeOK, Job
            <4> HIDE DEF q
            <4> QED
                BY <3>1, <4>1, <4>2
        <3>3. Kept /\ \A r \in Reminders : RowStands(r)'
            BY <1>1, <1>5, <3>2 DEF ReadRow
        <3>4. q.next > j[2]
            <4>1. q.next \in Slots
                BY <3>2, JobFields
            <4> QED
                BY <1>0, <2>1, <3>2, <4>1 DEF Slots, Later
        <3> QED
            BY <1>0, <2>1, <2>3, <3>2, <3>3, <3>4, AttemptFollows
    <2> QED
        BY <2>2, <2>3
<1>6. CASE WriteRow(j)
    <2>1. /\ job[j].state = "active" /\ j[2] <= now /\ row[j[1]].status # "none"
          /\ job[j].next > j[2] /\ row[j[1]].pattern # "once"
        BY <1>0, <1>6 DEF WriteRow, At, Follows
    <2>2. PICK q \in Job : /\ job' = [job EXCEPT ![j] = q]
                           /\ q.state = "active" /\ q.step = "add" /\ q.next = job[j].next
        <3> DEFINE q == [job[j] EXCEPT !.step = "add"]
        <3>1. q \in Job /\ q.state = "active" /\ q.step = "add" /\ q.next = job[j].next
            BY <1>0, <2>1 DEF Job
        <3>2. job' = [job EXCEPT ![j] = q]
            BY <1>0, <1>6 DEF WriteRow, TypeOK, Job
        <3> HIDE DEF q
        <3> QED
            BY <3>1, <3>2
    <2>3. Kept
        BY <1>0, <1>6, <2>1, <2>2 DEF WriteRow, Kept, TypeOK, Row
    <2>4. \A r \in Reminders : RowStands(r)'
        BY <1>0, <1>6 DEF WriteRow, TypeOK, QueueInv, RowStands, Row
    <2>5. job'[j] = q /\ row'[j[1]].status # "none" /\ row'[j[1]].pattern = row[j[1]].pattern
        BY <1>0, <2>1, <2>2, <2>3 DEF TypeOK, Kept
    <2>6. Follows(j)'
        BY <1>6, <2>1, <2>2, <2>5 DEF WriteRow, Follows, Passed
    <2> QED
        BY <1>0, <2>2, <2>3, <2>4, <2>6, OneJobFollows
<1>7. CASE AddNext(j)
    <2>1. /\ job[j].state = "active" /\ j[2] <= now /\ row[j[1]].status # "none"
          /\ job[j].next > j[2] /\ row[j[1]].pattern # "once"
          /\ job[j].next \in Slots
        BY <1>0, <1>7, JobFields DEF AddNext, At, Follows
    <2>2. PICK n \in Slots : n = job[j].next
        BY <2>1
    <2>3. /\ <<j[1], n>> \in Jobs /\ <<j[1], n>> # j
          /\ UNCHANGED <<now, row, failing, request, cancelAsked, moves, faults>>
        <3>1. n # j[2]
            BY <1>0, <2>1, <2>2 DEF Slots, Later
        <3>2. <<j[1], n>> # j
            BY <3>1
        <3> QED
            BY <1>0, <1>7, <2>2, <3>2 DEF AddNext, Jobs
    <2>4. ASSUME NEW k \in Jobs, k # j, k # <<j[1], n>> \/ job[k].state # "absent"
          PROVE  job'[k] = job[k]
        BY <1>7, <2>2, <2>4 DEF AddNext
    <2>5. /\ job'[j].state = "active" /\ job'[j].step = "mark" /\ job'[j].next = n
        BY <1>0, <1>7, <2>1, <2>2 DEF AddNext, Job
    <2>6. ASSUME NEW k \in Jobs, k = <<j[1], n>>, job[k].state = "absent"
          PROVE  job'[k].state = "delayed"
        <3>1. job'[k] = [job[k] EXCEPT !.state = "delayed"]
            BY <1>7, <2>2, <2>3, <2>6 DEF AddNext
        <3> QED
            BY <1>0, <3>1 DEF TypeOK, Job
    <2>7. Kept
        <3>1. ASSUME NEW k \in Jobs, job[k].state # "absent" PROVE job'[k].state # "absent"
            BY <2>4, <2>5, <3>1
        <3> QED
            BY <1>0, <2>3, <3>1 DEF Kept
    <2>8. \A r \in Reminders : RowStands(r)'
        BY <2>3, RowsAlone
    <2>9. Follows(j)'
        <3>1. job'[<<j[1], n>>].state # "absent"
            BY <2>3, <2>4, <2>6
        <3> QED
            BY <2>1, <2>2, <2>3, <2>5, <3>1 DEF Follows, Passed
    <2>10. ASSUME NEW k \in Jobs, k = <<j[1], n>>, job[k].state = "absent" PROVE Follows(k)'
        <3>1. job'[k].state = "delayed" /\ row'[k[1]].status # "none"
            BY <2>1, <2>3, <2>6, <2>10
        <3> QED
            BY <3>1 DEF Follows, Passed
    <2>11. ASSUME NEW k \in Jobs PROVE Follows(k)'
        BY <2>4, <2>7, <2>9, <2>10, UntouchedFollows
    <2> QED
        BY <1>0, <2>8, <2>11 DEF QueueInv
<1>8. CASE MarkSent(j)
    <2>1. /\ job[j].state = "active" /\ row[j[1]].status # "none" /\ job[j].next \in Slots
          /\ \/ /\ job[j].next > j[2] /\ row[j[1]].pattern # "once"
                /\ job[<<j[1], job[j].next>>].state # "absent"
             \/ job[j].next = 0 /\ (row[j[1]].pattern = "once" \/ j[1] \in cancelAsked)
        BY <1>0, <1>8, JobFields DEF MarkSent, At, Follows, Passed
    <2>2. PICK q \in Job : /\ job' = [job EXCEPT ![j] = q]
                           /\ q.state = "completed" /\ q.next = job[j].next
        <3> DEFINE q == [job[j] EXCEPT !.state = "completed"]
        <3>1. q \in Job /\ q.state = "completed" /\ q.next = job[j].next
            BY <1>0 DEF Job
        <3>2. job' = [job EXCEPT ![j] = q]
            BY <1>0, <1>8 DEF MarkSent, TypeOK, Job
        <3> HIDE DEF q
        <3> QED
            BY <3>1, <3>2
    <2>3. row[j[1]].pattern = "once" => job[j].next = 0
        BY <2>1
    <2>4. /\ row'[j[1]].status = IF job[j].next # 0 THEN "pending" ELSE "sent"
          /\ row'[j[1]].pattern = row[j[1]].pattern
          /\ \A r \in Reminders : r # j[1] => row'[r] = row[r]
          /\ UNCHANGED <<now, failing, request, cancelAsked, moves, faults>>
        BY <1>0, <1>8 DEF MarkSent, TypeOK, Row
    <2>5. Kept
        BY <1>0, <2>1, <2>2, <2>3, <2>4 DEF Kept, TypeOK
    <2>6. \A r \in Reminders : RowStands(r)'
        BY <1>0, <2>4 DEF QueueInv, RowStands
    <2>7. job'[j] = q
        BY <1>0, <2>2 DEF TypeOK
    <2>8. Follows(j)'
        <3>1. job[<<j[1], job[j].next>>].state # "absent" => job'[<<j[1], job[j].next>>].state # "absent"
            BY <1>0, <2>1, <2>5 DEF Kept, Jobs
        <3> QED
            BY <2>1, <2>2, <2>3, <2>4, <2>7, <3>1 DEF Follows, Passed
    <2> QED
        BY <1>0, <2>2, <2>5, <2>6, <2>8, OneJobFollows
<1>9. CASE NotDelivered(j) \/ Throws(j)
    <2>1. job[j].state = "active" /\ AttemptFails(j)
        BY <1>9 DEF NotDelivered, Throws, At
    <2>2. PICK q \in Job : job' = [job EXCEPT ![j] = q] /\ q.state \in {"delayed", "failed"}
        <3> DEFINE q == job'[j]
        <3>1. q \in Job
            BY <1>0 DEF RemindersInv, TypeOK
        <3>2. q = [job[j] EXCEPT !.made = @ + 1,
                          !.state = IF job[j].made + 1 >= MaxAttempts THEN "failed" ELSE "delayed"]
            BY <1>0, <2>1 DEF AttemptFails, TypeOK, Job
        <3>3. q.state \in {"delayed", "failed"}
            BY <1>0, <3>2 DEF Job
        <3>4. job' = [job EXCEPT ![j] = q]
            BY <1>0, <2>1 DEF AttemptFails, TypeOK
        <3> HIDE DEF q
        <3> QED
            BY <3>1, <3>3, <3>4
    <2> QED
        BY <1>0, <1>1, <2>1, <2>2, AttemptFollows DEF AttemptFails
<1>10. CASE MarkFailed(j)
    <2>1. /\ UNCHANGED <<now, job, request, cancelAsked>>
          /\ row' = row \/ row' = [row EXCEPT ![j[1]].status = "failed"]
        BY <1>10 DEF MarkFailed
    <2>2. Kept
        BY <1>0, <2>1 DEF Kept, TypeOK, Row
    <2>3. \A r \in Reminders : RowStands(r)'
        BY <1>0, <2>1 DEF TypeOK, QueueInv, RowStands, Row
    <2> QED
        BY <1>0, <2>1, <2>2, <2>3, SameJobs
<1> QED
    BY <1>2, <1>3, <1>4, <1>5, <1>6, <1>7, <1>8, <1>9, <1>10 DEF Handle

\* A crash takes no job out of the queue: what it cuts off starts again or is failed.
LEMMA CrashQueueInv ==
    ASSUME QueueInv, WorkerCrash
    PROVE  QueueInv'
<1>1. RemindersInv' /\ TypeOK
    BY CrashInv DEF QueueInv, RemindersInv
<1>2. ASSUME NEW k \in Jobs
      PROVE  /\ job[k].state # "active" => job'[k] = job[k]
             /\ job[k].state = "active" => job'[k].state \in {"delayed", "failed"}
    <2>1. job'[k] = IF job[k].state # "active" THEN job[k]
                    ELSE [job[k] EXCEPT !.stalls = @ + 1,
                                        !.state = IF job[k].stalls = 0 THEN "delayed" ELSE "failed"]
        BY DEF WorkerCrash
    <2>2. job[k] \in Job
        BY <1>1 DEF TypeOK
    <2> QED
        BY <2>1, <2>2 DEF Job
<1>3. Kept
    <2>1. UNCHANGED <<now, row, cancelAsked>>
        BY DEF WorkerCrash
    <2>2. \A k \in Jobs : job[k].state # "absent" => job'[k].state # "absent"
        BY <1>2
    <2> QED
        BY <1>1, <2>1, <2>2 DEF Kept, TypeOK
<1>4. \A r \in Reminders : RowStands(r)'
    BY RowsAlone DEF WorkerCrash
<1>5. ASSUME NEW k \in Jobs PROVE Follows(k)'
    <2>1. CASE job[k].state # "active"
        BY <1>2, <1>3, <2>1, UntouchedFollows
    <2>2. CASE job[k].state = "active"
        <3>1. job'[k].state \in {"delayed", "failed"}
            BY <1>2, <2>2
        <3>2. row[k[1]].status # "none"
            BY <2>2 DEF QueueInv, Follows
        <3>3. row'[k[1]].status # "none"
            BY <3>2 DEF WorkerCrash
        <3> QED
            BY <3>1, <3>3 DEF Follows, Passed
    <2> QED
        BY <2>1, <2>2
<1> QED
    BY <1>1, <1>4, <1>5 DEF QueueInv

\* The chain of every reminder holds in every reachable state.
THEOREM QueueInvariant == Spec => []QueueInv
<1>1. QueueInv /\ [Next]_vars => QueueInv'
    <2> SUFFICES ASSUME QueueInv, [Next]_vars PROVE QueueInv'
        OBVIOUS
    <2>1. CASE Tick
        <3>1. RemindersInv'
            BY <2>1, RemindersAssumption DEF Tick, QueueInv, RemindersInv, TypeOK
        <3>2. Kept
            BY <2>1, RemindersAssumption DEF Tick, Kept, QueueInv, RemindersInv, TypeOK
        <3>3. \A r \in Reminders : RowStands(r)'
            BY <2>1, RowsAlone DEF Tick
        <3> QED
            BY <2>1, <3>1, <3>2, <3>3, SameJobs DEF Tick
    <2>2. CASE \E r \in Reminders : Api(r)
        BY <2>2, ApiQueueInv
    <2>3. CASE \E j \in Jobs : Handle(j) \/ Throws(j) \/ MarkFailed(j)
        BY <2>3, WorkerQueueInv
    <2>4. CASE WorkerCrash
        BY <2>4, CrashQueueInv
    <2>5. CASE UNCHANGED vars
        BY <2>5 DEF vars, QueueInv, RemindersInv, TypeOK, RowStands, Follows, Passed
    <2> QED
        BY <2>1, <2>2, <2>3, <2>4, <2>5 DEF Next
<1> QED
    BY <1>1, InitQueueInv, PTL DEF Spec

\* A set of slots that is not empty has a last one.
LEMMA LastSlot ==
    ASSUME NEW S \in SUBSET Slots, S # {}
    PROVE  \E m \in S : \A n \in S : n <= m
<1> DEFINE R == {ss \in Nat \X Nat : ss[1] < ss[2]}
           Back == {Later - n : n \in S}
<1>1. IsWellFoundedOn(R, Nat)
    BY NatLessThanWellFounded DEF OpToRel
<1>2. \A x, y \in Nat : y < x => <<y, x>> \in R
    OBVIOUS
<1>3. Back \subseteq Nat /\ Back # {} /\ \A n \in S : n \in Int /\ Later - n \in Back
    <2>1. \A n \in S : n \in Int /\ Later - n \in Nat
        BY RemindersAssumption DEF Slots, Later
    <2> QED
        BY <2>1
<1>4. \A x \in Back : \E n \in S : x = Later - n
    OBVIOUS
<1> HIDE DEF R, Back
<1>5. PICK x \in Back : \A y \in Back : ~ (<<y, x>> \in R)
    BY <1>1, <1>3, WFMin
<1>6. \A y \in Back : ~ (y < x)
    BY <1>2, <1>3, <1>5, Zenon
<1>7. PICK m \in S : x = Later - m
    BY <1>4
<1>8. ASSUME NEW n \in S PROVE n <= m
    <2>1. ~ (Later - n < Later - m) /\ n \in Int /\ m \in Int /\ Later \in Int
        BY <1>3, <1>6, <1>7, RemindersAssumption DEF Later
    <2> QED
        BY <2>1
<1> QED
    BY <1>8

\* A reminder that is shown as pending and was put in the queue has a job there that is
\* not finished, unless somebody cancelled it or one of its jobs ran out of attempts:
\* wherever the worker stops or throws, the chain of a recurring reminder does not break.
THEOREM PendingIsQueuedAlways == Spec => []PendingIsQueued
<1>1. QueueInv => PendingIsQueued
    <2> SUFFICES ASSUME QueueInv, NEW r \in Reminders \ cancelAsked,
                        row[r].status = "pending", HasJob(r), ~RanOut(r)
                 PROVE  Queued(r)
        BY DEF PendingIsQueued
    <2> DEFINE Present == {t \in Slots : job[<<r, t>>].state # "absent"}
    <2>1. PICK m \in Present : \A n \in Present : n <= m
        <3>1. Present \in SUBSET Slots /\ Present # {}
            BY DEF HasJob
        <3> HIDE DEF Present
        <3> QED
            BY <3>1, LastSlot
    <2>2. PICK j \in Jobs : j = <<r, m>> /\ j[1] = r /\ j[2] = m
        BY DEF Jobs
    <2>3. PICK q \in Job : q = job[j]
        BY <2>2 DEF QueueInv, RemindersInv, TypeOK
    <2>4. /\ q.next \in Slots /\ m \in Int /\ Follows(j)
          /\ q.state \in {"absent", "delayed", "active", "completed", "failed"}
        <3>1. m \in Int
            BY RemindersAssumption DEF Slots, Later
        <3> QED
            BY <3>1, JobFields DEF QueueInv
    <2>5. q.state # "absent" /\ q.state # "failed"
        BY <2>2, <2>3 DEF RanOut
    <2>6. q.state # "completed"
        <3>1. SUFFICES ASSUME q.state = "completed" PROVE FALSE
            OBVIOUS
        <3>2. row[r].pattern # "once"
            BY <2>2, <2>3, <2>4, <3>1 DEF Follows
        <3>3. q.next > m /\ job[<<r, q.next>>].state # "absent"
            BY <2>2, <2>3, <2>4, <3>1, <3>2 DEF Follows, Passed
        <3>4. q.next <= m /\ q.next \in Int
            BY <2>1, <2>4, <3>3, RemindersAssumption DEF Slots, Later
        <3> QED
            BY <2>4, <3>3, <3>4
    <2> QED
        BY <2>2, <2>3, <2>4, <2>5, <2>6 DEF Queued
<1> QED
    BY <1>1, QueueInvariant, PTL
=============================================================================
