------------------------------ MODULE Reminders ------------------------------
(***************************************************************************)
(* Payment reminders: the rows the API writes, the delayed jobs it puts in *)
(* the BullMQ queue, and the worker that delivers them, retries, and puts  *)
(* the next occurrence of a recurring reminder in the queue.               *)
(*                                                                         *)
(* Every await that touches the database, the queue or a messaging         *)
(* provider is a step of its own; each may throw, and the worker process   *)
(* may stop between any two.  Time is counted in slots.                    *)
(***************************************************************************)
EXTENDS Integers

CONSTANTS
    Reminders,
    MaxAttempts,   \* queue.ts: attempts of a job
    MaxTime,       \* bound: the last slot the clock reaches
    MaxMoves,      \* bound: the moves of a reminder's time in a behaviour
    MaxFaults      \* bound: the exceptions and crashes of a behaviour

ASSUME RemindersAssumption ==
    /\ MaxAttempts \in Nat \ {0}
    /\ MaxTime \in Nat \ {0}
    /\ {MaxMoves, MaxFaults} \subseteq Nat

VARIABLES
    now,         \* the clock
    row,         \* the reminder rows
    job,         \* the queue: one job per jobId "reminder-<id>-<time>"
    failing,     \* jobs whose "failed" event has not been handled yet
    request,     \* what the API is doing with each reminder
    cancelAsked, \* history: reminders somebody has cancelled
    moves,       \* moves so far
    faults       \* exceptions and crashes so far

vars == <<now, row, job, failing, request, cancelAsked, moves, faults>>

Later == MaxTime + 1   \* bound: stands for every slot the clock does not reach
Slots == 0 .. Later
Jobs == Reminders \X Slots

Status == {"none", "pending", "sent", "failed", "cancelled"}
(* "once": no recurringPattern, or a customer without a phone number; "interval": *)
(* every n minutes or months; "calendar": a time of the day or day of the month. *)
Pattern == {"once", "interval", "calendar"}
Row == [status : Status, time : Slots, pattern : Pattern]

(* step is where the handler of an active job stands, next the occurrence it *)
(* has computed (0: none), sends how many messages providers have accepted. *)
Job == [state : {"absent", "delayed", "active", "completed", "failed"},
        step : {"deliver", "read", "write", "add", "mark"},
        made : 0 .. MaxAttempts, stalls : 0 .. 2, sends : Nat, next : Slots]
NoJob == [state |-> "absent", step |-> "deliver", made |-> 0, stalls |-> 0,
          sends |-> 0, next |-> 0]

Idle == [step |-> "idle", time |-> 0]
Request == [step : {"idle", "schedule", "modify", "requeue"}, time : Slots]

\* Every row, job and request has the shape the schema, BullMQ and the service
\* give it; a job never starts more attempts than configured.
TypeOK ==
    /\ now \in 0 .. MaxTime
    /\ row \in [Reminders -> Row]
    /\ job \in [Jobs -> Job]
    /\ failing \subseteq Jobs
    /\ request \in [Reminders -> Request]
    /\ cancelAsked \subseteq Reminders
    /\ moves \in 0 .. MaxMoves
    /\ faults \in 0 .. MaxFaults

Init ==
    /\ now = 0
    /\ row = [r \in Reminders |-> [status |-> "none", time |-> 0, pattern |-> "once"]]
    /\ job = [j \in Jobs |-> NoJob]
    /\ failing = {}
    /\ request = [r \in Reminders |-> Idle]
    /\ cancelAsked = {}
    /\ moves = 0
    /\ faults = 0

-----------------------------------------------------------------------------
(* The queue. *)

\* Queue.add: an id that is there, finished or not, is left alone.
Add(j) ==
    job' = IF job[j].state = "absent" THEN [job EXCEPT ![j].state = "delayed"] ELSE job

Fault == faults < MaxFaults /\ faults' = faults + 1

Tick ==
    /\ now < MaxTime
    /\ now' = now + 1
    /\ UNCHANGED <<row, job, failing, request, cancelAsked, moves, faults>>

-----------------------------------------------------------------------------
(* The API: scheduleReminder, modifyReminderTime, cancelReminder. *)

ScheduleReminder(r, t, pattern) ==
    /\ row[r].status = "none"
    /\ row' = [row EXCEPT ![r] = [status |-> "pending", time |-> t, pattern |-> pattern]]
    /\ request' = [request EXCEPT ![r] = [step |-> "schedule", time |-> t]]
    /\ UNCHANGED <<now, job, failing, cancelAsked, moves, faults>>

\* The predictive reminders of the AI service: a row, and no job.
SchedulePredictive(r, t) ==
    /\ row[r].status = "none"
    /\ row' = [row EXCEPT ![r] = [status |-> "pending", time |-> t, pattern |-> "once"]]
    /\ UNCHANGED <<now, job, failing, request, cancelAsked, moves, faults>>

Enqueue(r) ==
    /\ request[r].step \in {"schedule", "requeue"}
    /\ Add(<<r, request[r].time>>)
    /\ request' = [request EXCEPT ![r] = Idle]
    /\ UNCHANGED <<now, row, failing, cancelAsked, moves, faults>>

\* The queue is down: a new reminder is marked failed, a moved one is left as is.
EnqueueFails(r) ==
    /\ Fault
    /\ request[r].step \in {"schedule", "requeue"}
    /\ row' = IF request[r].step = "schedule"
              THEN [row EXCEPT ![r].status = "failed"] ELSE row
    /\ request' = [request EXCEPT ![r] = Idle]
    /\ UNCHANGED <<now, job, failing, cancelAsked, moves>>

\* The voice engine picks one of the customer's pending reminders ...
PickToModify(r) ==
    /\ moves < MaxMoves /\ moves' = moves + 1
    /\ request[r] = Idle
    /\ row[r].status = "pending"
    /\ request' = [request EXCEPT ![r] = [step |-> "modify", time |-> 0]]
    /\ UNCHANGED <<now, row, job, failing, cancelAsked, faults>>

\* ... and moves it, whatever it is by then.  The new time has the milliseconds
\* of the call, so no job has it; no job in the queue has the id that
\* removeQueuedJobsForReminder removes.
ModifyReminderTime(r, t) ==
    /\ request[r].step = "modify"
    /\ job[<<r, t>>].state = "absent"
    /\ row' = [row EXCEPT ![r].time = t]
    /\ request' = [request EXCEPT ![r] = [step |-> "requeue", time |-> t]]
    /\ UNCHANGED <<now, job, failing, cancelAsked, moves, faults>>

\* Any reminder, in any state; no job is removed.
CancelReminder(r) ==
    /\ row[r].status # "none"
    /\ row' = [row EXCEPT ![r].status = "cancelled"]
    /\ cancelAsked' = cancelAsked \cup {r}
    /\ UNCHANGED <<now, job, failing, request, moves, faults>>

\* The API process stops, or loses the database, in the middle of a request.
RequestLost(r) ==
    /\ Fault
    /\ request[r] # Idle
    /\ request' = [request EXCEPT ![r] = Idle]
    /\ UNCHANGED <<now, row, job, failing, cancelAsked, moves>>

-----------------------------------------------------------------------------
(* The worker: the handler of one job. *)

At(j, step) == job[j].state = "active" /\ job[j].step = step

Pick(j) ==
    /\ job[j].state = "delayed"
    /\ j[2] <= now
    /\ job' = [job EXCEPT ![j].state = "active", ![j].step = "deliver", ![j].next = 0]
    /\ UNCHANGED <<now, row, failing, request, cancelAsked, moves, faults>>

\* A provider accepts the message.
Deliver(j) ==
    /\ At(j, "deliver")
    /\ job' = [job EXCEPT ![j].sends = @ + 1, ![j].step = "read"]
    /\ UNCHANGED <<now, row, failing, request, cancelAsked, moves, faults>>

\* Mutants: the job goes back to the queue however often it was tried; one attempt
\* too few.
TryForever(j) ==
    /\ At(j, "deliver")
    /\ job[j].made >= MaxAttempts - 1
    /\ job' = [job EXCEPT ![j].made = @ + 1, ![j].state = "delayed"]
    /\ failing' = failing \cup {j}
    /\ UNCHANGED <<now, row, request, cancelAsked, moves, faults>>

GiveUpEarly(j) ==
    /\ At(j, "deliver")
    /\ job[j].made >= MaxAttempts - 2
    /\ job' = [job EXCEPT ![j].step = "read"]
    /\ UNCHANGED <<now, row, failing, request, cancelAsked, moves, faults>>

\* No channel accepts it, and this is the last attempt: go on as if it were sent.
GiveUp(j) ==
    /\ At(j, "deliver")
    /\ job[j].made >= MaxAttempts - 1
    /\ job' = [job EXCEPT ![j].step = "read"]
    /\ UNCHANGED <<now, row, failing, request, cancelAsked, moves, faults>>

Greater(a, b) == IF a > b THEN a ELSE b

\* The first slot of the pattern after now: "interval" patterns count from the
\* row's time, at least one step, "calendar" ones from the clock alone.
ComputeNextOccurrence(r) ==
    LET next == IF row[r].pattern = "interval" THEN Greater(row[r].time, now) + 1
                                               ELSE now + 1
    IN IF next > Later THEN Later ELSE next

\* scheduleNextReminderOccurrence, in three steps: read the row, ...
ReadRow(j) ==
    /\ At(j, "read")
    /\ LET r == j[1] IN
       job' = IF row[r].status = "cancelled" \/ row[r].pattern = "once"
              THEN [job EXCEPT ![j].step = "mark"]
              ELSE [job EXCEPT ![j].step = "write", ![j].next = ComputeNextOccurrence(r)]
    /\ UNCHANGED <<now, row, failing, request, cancelAsked, moves, faults>>

\* ... write its next time, ...
WriteRow(j) ==
    /\ At(j, "write")
    /\ row' = [row EXCEPT ![j[1]].time = job[j].next, ![j[1]].status = "pending"]
    /\ job' = [job EXCEPT ![j].step = "add"]
    /\ UNCHANGED <<now, failing, request, cancelAsked, moves, faults>>

\* Mutant: the next job is forgotten.
SkipAdd(j) ==
    /\ At(j, "add")
    /\ job' = [job EXCEPT ![j].step = "mark"]
    /\ UNCHANGED <<now, row, failing, request, cancelAsked, moves, faults>>

\* ... and add its next job.
AddNext(j) ==
    /\ At(j, "add")
    /\ job' = [k \in Jobs |->
                 IF k = j THEN [job[k] EXCEPT !.step = "mark"]
                 ELSE IF k = <<j[1], job[j].next>> /\ job[k].state = "absent"
                 THEN [job[k] EXCEPT !.state = "delayed"] ELSE job[k]]
    /\ UNCHANGED <<now, row, failing, request, cancelAsked, moves, faults>>

\* Mutants: a recurring reminder runs its job again instead of a new one;
\* keepPending is ignored.
RunAgain(j) ==
    /\ At(j, "mark")
    /\ row' = [row EXCEPT ![j[1]].status = IF job[j].next # 0 THEN "pending" ELSE "sent"]
    /\ job' = [job EXCEPT ![j].state = IF job[j].next # 0 THEN "delayed" ELSE "completed"]
    /\ UNCHANGED <<now, failing, request, cancelAsked, moves, faults>>

AlwaysPending(j) ==
    /\ At(j, "mark")
    /\ row' = [row EXCEPT ![j[1]].status = "pending"]
    /\ job' = [job EXCEPT ![j].state = "completed"]
    /\ UNCHANGED <<now, failing, request, cancelAsked, moves, faults>>

\* markReminderSent, whatever the row says by now; the job is complete.
MarkSent(j) ==
    /\ At(j, "mark")
    /\ row' = [row EXCEPT ![j[1]].status = IF job[j].next # 0 THEN "pending" ELSE "sent"]
    /\ job' = [job EXCEPT ![j].state = "completed"]
    /\ UNCHANGED <<now, failing, request, cancelAsked, moves, faults>>

\* BullMQ, when the handler throws: retry, or fail for good.  In both cases the
\* "failed" event is emitted.
AttemptFails(j) ==
    /\ job' = [job EXCEPT ![j].made = @ + 1,
                          ![j].state = IF job[j].made + 1 >= MaxAttempts THEN "failed"
                                                                         ELSE "delayed"]
    /\ failing' = failing \cup {j}
    /\ UNCHANGED <<now, row, request, cancelAsked, moves>>

\* No channel accepts the message, and there are attempts left.
NotDelivered(j) ==
    /\ At(j, "deliver")
    /\ job[j].made < MaxAttempts - 1
    /\ AttemptFails(j)
    /\ UNCHANGED faults

\* The database or the queue throws, at any step.
Throws(j) ==
    /\ Fault
    /\ job[j].state = "active"
    /\ AttemptFails(j)

\* The listener of "failed": markReminderFailed, or the database refuses and the
\* error is dropped.
MarkFailed(j) ==
    /\ j \in failing
    /\ failing' = failing \ {j}
    /\ \/ row' = [row EXCEPT ![j[1]].status = "failed"] /\ UNCHANGED faults
       \/ Fault /\ UNCHANGED row
    /\ UNCHANGED <<now, job, request, cancelAsked, moves>>

\* The worker process stops and is restarted: what it was doing is stalled, goes
\* back to the queue once and is failed the second time.
WorkerCrash ==
    /\ Fault
    /\ \E j \in Jobs : job[j].state = "active"
    /\ job' = [j \in Jobs |->
                 IF job[j].state # "active" THEN job[j]
                 ELSE [job[j] EXCEPT !.stalls = @ + 1,
                                     !.state = IF job[j].stalls = 0 THEN "delayed" ELSE "failed"]]
    /\ failing' = {j \in Jobs : job[j].state = "active" /\ job[j].stalls > 0}
    /\ UNCHANGED <<now, row, request, cancelAsked, moves>>

Handle(j) ==
    \/ Pick(j) \/ Deliver(j) \/ NotDelivered(j) \/ GiveUp(j)
    \/ ReadRow(j) \/ WriteRow(j) \/ AddNext(j) \/ MarkSent(j)

Api(r) ==
    \/ \E t \in now .. MaxTime :
          \/ \E pattern \in Pattern : ScheduleReminder(r, t, pattern)
          \/ SchedulePredictive(r, t)
          \/ ModifyReminderTime(r, t)
    \/ Enqueue(r) \/ EnqueueFails(r) \/ PickToModify(r) \/ CancelReminder(r) \/ RequestLost(r)

Next ==
    \/ Tick
    \/ \E r \in Reminders : Api(r)
    \/ \E j \in Jobs : Handle(j) \/ Throws(j) \/ MarkFailed(j)
    \/ WorkerCrash

\* The clock runs, and the worker takes up due jobs and goes on with them.
Fairness == WF_vars(Tick) /\ \A j \in Jobs : WF_vars(Handle(j))

Spec == Init /\ [][Next]_vars
FairSpec == Spec /\ Fairness

-----------------------------------------------------------------------------

\* A job counts as done without a message only if every attempt was made: none of
\* the earlier ones is given up early.
GivesUpAtLast ==
    \A j \in Jobs : job[j].state = "completed" /\ job[j].sends = 0 => job[j].made = MaxAttempts - 1

\* One occurrence messages the customer at most once per attempt, and once more
\* for the one time it may be taken up again after a crash, however often the
\* reminder is moved, rescheduled or retried.
SendsBounded == \A j \in Jobs : job[j].sends <= MaxAttempts + 1

(* How often a job may have sent: once per attempt that failed or was cut off by *)
(* a crash, and once in the attempt that is past its delivery.                   *)
Tried(q) == q.state = "completed" \/ (q.state = "active" /\ q.step # "deliver")
GoodJob(q) ==
    /\ q.state = "absent" => q.made = 0 /\ q.stalls = 0 /\ q.sends = 0
    /\ q.state # "failed" => q.made < MaxAttempts /\ q.stalls < 2
    /\ q.made + q.stalls <= MaxAttempts + 1
    /\ q.sends <= q.made + q.stalls + (IF Tried(q) THEN 1 ELSE 0)
    /\ Tried(q) /\ q.sends = 0 => q.made = MaxAttempts - 1

RemindersInv == TypeOK /\ \A j \in Jobs : GoodJob(job[j])

HasJob(r) == \E t \in Slots : job[<<r, t>>].state # "absent"
RanOut(r) == \E t \in Slots : job[<<r, t>>].state = "failed"
Queued(r) == \E t \in Slots : job[<<r, t>>].state \in {"delayed", "active"}

\* A reminder shown as pending will be taken up: as long as none of its jobs has
\* run out of attempts, there is one that is not finished.
PendingIsQueued ==
    \A r \in Reminders \ cancelAsked :
        row[r].status = "pending" /\ HasJob(r) /\ ~RanOut(r) => Queued(r)

\* Does its queue reach past the clock's last slot?
BeyondBound(r) == job[<<r, Later>>].state # "absent"

\* A reminder whose time comes does not stay pending for that time: it is sent,
\* fails, is moved to its next time, or one of its jobs runs out of attempts.
PendingIsServed ==
    \A r \in Reminders, t \in 0 .. MaxTime :
        HasJob(r) /\ row[r].status = "pending" /\ row[r].time = t
          ~> \/ row[r].status # "pending" \/ row[r].time # t
             \/ RanOut(r) \/ r \in cancelAsked \/ BeyondBound(r)

\* "removes the BullMQ job if it exists": no job of a cancelled reminder is taken
\* up after the cancellation.
CancelledIsNotPicked ==
    [][\A j \in Jobs :
          job[j].state = "delayed" /\ job'[j].state = "active" => row[j[1]].status # "cancelled"]_vars
=============================================================================
