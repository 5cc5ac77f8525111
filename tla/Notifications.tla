----------------------------- MODULE Notifications -----------------------------
(***************************************************************************)
(* The mail that confirms an order: the job POST /checkout/confirm adds    *)
(* after its commit, the jobs of /orders/:id/resend-confirmation, the      *)
(* BullMQ queue and the workers that process it.  A worker looks at the    *)
(* order, sends the mail and marks it as sent in three steps; it may die,  *)
(* lose the lock of its job or an answer between any two of them, and the  *)
(* job is then processed again.                                            *)
(***************************************************************************)
EXTENDS Naturals, FiniteSets

CONSTANTS
    Orders,
    Workers,     \* concurrent executions of the processor
    Attempts,    \* defaultJobOptions.attempts
    MaxStalls,   \* maxStalledCount of BullMQ
    MaxResends,  \* bound on the different jobIds of the resends of an order
    MaxFaults,   \* bound on crashes, lost locks, lost answers and failed marks
    None         \* no job, no worker

\* The jobIds of an order: 0 is the one confirm uses, the others have a time in it.
Jobs == [order : Orders, n : 0..MaxResends]

ASSUME NotificationsAssumption ==
    /\ IsFiniteSet(Workers)
    /\ Attempts \in Nat \ {0}
    /\ MaxStalls \in Nat /\ MaxResends \in Nat /\ MaxFaults \in Nat
    /\ None \notin Workers \cup Jobs

VARIABLES
    paid,     \* orders with Order.status paid, which is final
    sent,     \* orders with confirmationEmailSentAt
    emitted,  \* number of ORDER_CONFIRMATION_EMAIL_SENT events of an order
    mails,    \* number of mails SendGrid accepted for an order
    adding,   \* orders a committed confirm has yet to add the job of
    dropped,  \* history: orders whose last confirm died before it added the job
    job,      \* the queue
    worker,   \* what each worker is doing
    excused,  \* history: executions cut off between their look and their mark
    faults    \* faults so far

orders == <<paid, sent, emitted, mails>>
vars   == <<orders, adding, dropped, job, worker, excused, faults>>

\* removeOnComplete and removeOnFail are false: a finished job keeps its id.
JobStates ==
    [state  : {"none", "waiting", "active", "completed", "failed"},
     tries  : 0..Attempts,
     stalls : 0..MaxStalls,
     lock   : Workers \cup {None}]

WorkerStates ==
    [pc  : {"idle", "looking", "sending", "marking", "completing"},
     job : Jobs \cup {None}]

TypeOK ==
    /\ paid \subseteq Orders /\ sent \subseteq Orders
    /\ adding \subseteq Orders /\ dropped \subseteq Orders
    /\ emitted \in [Orders -> Nat] /\ mails \in [Orders -> Nat]
    /\ job \in [Jobs -> JobStates]
    /\ worker \in [Workers -> WorkerStates]
    /\ excused \in [Orders -> Nat]
    /\ faults \in 0..MaxFaults

Zero  == [o \in Orders |-> 0]
NoJob == [state |-> "none", tries |-> 0, stalls |-> 0, lock |-> None]
Idle  == [pc |-> "idle", job |-> None]

Init ==
    /\ paid = {} /\ sent = {} /\ adding = {} /\ dropped = {}
    /\ emitted = Zero /\ mails = Zero /\ excused = Zero
    /\ job = [j \in Jobs |-> NoJob]
    /\ worker = [w \in Workers |-> Idle]
    /\ faults = 0

-------------------------------------------------------------------------------
(* The API                                                                  *)

auto(o) == [order |-> o, n |-> 0]

\* notificationQueue.add: a job whose id exists is left as it is.
add(j) == job' = IF job[j].state = "none" THEN [job EXCEPT ![j].state = "waiting"] ELSE job

\* /checkout/confirm commits the paid transition, or finds the order paid under a
\* new clientRequestId; a stored one is answered before the queue comes up.
Confirm(o) ==
    /\ paid' = paid \cup {o}
    /\ adding' = adding \cup {o}
    /\ UNCHANGED <<sent, emitted, mails, dropped, job, worker, excused, faults>>

\* A webhook's paid transition adds no job.
WebhookPaid(o) ==
    /\ paid' = paid \cup {o}
    /\ UNCHANGED <<sent, emitted, mails, adding, dropped, job, worker, excused, faults>>

ConfirmEnqueue(o) ==
    /\ o \in adding
    /\ adding' = adding \ {o}
    /\ add(auto(o))
    /\ dropped' = dropped \ {o}
    /\ UNCHANGED <<orders, worker, excused, faults>>

\* The process dies, or Redis is not there: the order stays paid.
ConfirmDrop(o) ==
    /\ o \in adding
    /\ adding' = adding \ {o}
    /\ dropped' = dropped \cup {o}
    /\ UNCHANGED <<orders, job, worker, excused, faults>>

\* Of an order in any status; the id has the time of the request in it.
Resend(o, n) ==
    /\ add([order |-> o, n |-> n])
    /\ UNCHANGED <<orders, adding, dropped, worker, excused, faults>>
-------------------------------------------------------------------------------
(* The worker                                                               *)

At(w, pc)  == worker[w].pc = pc
JobOf(w)   == worker[w].job
OrderOf(w) == JobOf(w).order
Locked(w)  == job[JobOf(w)].lock = w

GoTo(w, pc) == worker' = [worker EXCEPT ![w].pc = pc]
Leave(w)    == worker' = [worker EXCEPT ![w] = Idle]
Plus(f, o)  == [f EXCEPT ![o] = @ + 1]

Take(w, j) ==
    /\ At(w, "idle") /\ job[j].state = "waiting"
    /\ job' = [job EXCEPT ![j].state = "active", ![j].lock = w]
    /\ worker' = [worker EXCEPT ![w] = [pc |-> "looking", job |-> j]]
    /\ UNCHANGED <<orders, adding, dropped, excused, faults>>

BugNoSentCheck(w) == OrderOf(w) \notin paid

\* An order that is not paid, or has its mail.
Skipped(w) == OrderOf(w) \notin paid \/ OrderOf(w) \in sent

Look(w) ==
    /\ At(w, "looking")
    /\ GoTo(w, IF Skipped(w) THEN "completing" ELSE "sending")
    /\ UNCHANGED <<orders, adding, dropped, job, excused, faults>>

sendTemplateEmail(w) ==
    /\ At(w, "sending")
    /\ mails' = Plus(mails, OrderOf(w))
    /\ GoTo(w, "marking")
    /\ UNCHANGED <<paid, sent, emitted, adding, dropped, job, excused, faults>>

BugMarkedByLook(w) ==
    /\ At(w, "marking") \/ At(w, "sending")
    /\ sent' = sent \cup {OrderOf(w)}
    /\ emitted' = Plus(emitted, OrderOf(w))
    /\ GoTo(w, "completing")
    /\ UNCHANGED <<paid, mails, adding, dropped, job, excused, faults>>

\* One transaction: confirmationEmailSentAt and the event, which is not once-only.
Mark(w) ==
    /\ At(w, "marking")
    /\ sent' = sent \cup {OrderOf(w)}
    /\ emitted' = Plus(emitted, OrderOf(w))
    /\ GoTo(w, "completing")
    /\ UNCHANGED <<paid, mails, adding, dropped, job, excused, faults>>

BugSwallowed(w) ==
    /\ job' = [job EXCEPT ![JobOf(w)].state = "completed", ![JobOf(w)].lock = None]
    /\ Leave(w)

BugRetryForever(w) ==
    /\ job' = [job EXCEPT ![JobOf(w)].state = "waiting", ![JobOf(w)].lock = None]
    /\ Leave(w)

BugOneTooMany(w) ==
    /\ LET tries == job[JobOf(w)].tries + 1 IN
        job' = IF Locked(w)
               THEN [job EXCEPT ![JobOf(w)].state = IF tries <= Attempts THEN "waiting" ELSE "failed",
                                ![JobOf(w)].tries = tries,
                                ![JobOf(w)].lock = None]
               ELSE job
    /\ Leave(w)

\* The processor throws: another attempt after a while, or the job has failed.
\* Without the lock the outcome is refused.
Throw(w) ==
    /\ LET tries == job[JobOf(w)].tries + 1 IN
        job' = IF Locked(w)
               THEN [job EXCEPT ![JobOf(w)].state = IF tries < Attempts THEN "waiting" ELSE "failed",
                                ![JobOf(w)].tries = tries,
                                ![JobOf(w)].lock = None]
               ELSE job
    /\ Leave(w)

Complete(w) ==
    /\ At(w, "completing")
    /\ job' = IF Locked(w)
              THEN [job EXCEPT ![JobOf(w)].state = "completed", ![JobOf(w)].lock = None]
              ELSE job
    /\ Leave(w)
    /\ UNCHANGED <<orders, adding, dropped, excused, faults>>

\* A lookup that fails, or a mail SendGrid does not accept.
LookOrSendFails(w) ==
    /\ At(w, "looking") \/ At(w, "sending")
    /\ Throw(w)
    /\ UNCHANGED <<orders, adding, dropped, excused, faults>>

Fault == faults < MaxFaults /\ faults' = faults + 1

Excuse(w, pcs) ==
    excused' = IF worker[w].pc \in pcs THEN Plus(excused, OrderOf(w)) ELSE excused

\* The mail is accepted and the answer lost.
SendAnswerLost(w) ==
    /\ Fault
    /\ At(w, "sending")
    /\ mails' = Plus(mails, OrderOf(w))
    /\ excused' = Plus(excused, OrderOf(w))
    /\ Throw(w)
    /\ UNCHANGED <<paid, sent, emitted, adding, dropped>>

MarkFails(w) ==
    /\ Fault
    /\ At(w, "marking")
    /\ Excuse(w, {"marking"})
    /\ Throw(w)
    /\ UNCHANGED <<orders, adding, dropped>>

Crash(w) ==
    /\ Fault
    /\ ~At(w, "idle")
    /\ Excuse(w, {"marking"})
    /\ job' = IF Locked(w) THEN [job EXCEPT ![JobOf(w)].lock = None] ELSE job
    /\ Leave(w)
    /\ UNCHANGED <<orders, adding, dropped>>

\* The lock is not renewed in time; the worker goes on and does not know.
LoseLock(w) ==
    /\ Fault
    /\ ~At(w, "idle") /\ Locked(w)
    /\ Excuse(w, {"looking", "sending", "marking"})
    /\ job' = [job EXCEPT ![JobOf(w)].lock = None]
    /\ UNCHANGED <<orders, adding, dropped, worker>>

\* The check of the other workers for active jobs nobody has the lock of.
Stalled(j) ==
    /\ job[j].state = "active" /\ job[j].lock = None
    /\ job' = IF job[j].stalls < MaxStalls
              THEN [job EXCEPT ![j].state = "waiting", ![j].stalls = @ + 1]
              ELSE [job EXCEPT ![j].state = "failed"]
    /\ UNCHANGED <<orders, adding, dropped, worker, excused, faults>>
-------------------------------------------------------------------------------
WorkerStep(w) ==
    \/ Look(w) \/ sendTemplateEmail(w) \/ Mark(w) \/ Complete(w)
    \/ LookOrSendFails(w) \/ SendAnswerLost(w) \/ MarkFails(w)

Next ==
    \/ \E o \in Orders :
        \/ Confirm(o) \/ WebhookPaid(o) \/ ConfirmEnqueue(o) \/ ConfirmDrop(o)
        \/ \E n \in 1..MaxResends : Resend(o, n)
    \/ \E w \in Workers :
        \/ \E j \in Jobs : Take(w, j)
        \/ WorkerStep(w) \/ Crash(w) \/ LoseLock(w)
    \/ \E j \in Jobs : Stalled(j)

Spec == Init /\ [][Next]_vars

\* A request that has committed adds its job or is cut off, workers poll and go on
\* with what they have begun, and the check for stalled jobs runs.
FairSpec ==
    /\ Spec
    /\ \A o \in Orders : WF_vars(ConfirmEnqueue(o) \/ ConfirmDrop(o))
    /\ \A j \in Jobs :
        /\ WF_vars(\E w \in Workers : Take(w, j))
        /\ WF_vars(Stalled(j))
    /\ \A w \in Workers : WF_vars(WorkerStep(w))
-------------------------------------------------------------------------------
(* Properties                                                               *)

\* The job of a confirmation never completes without its mail being marked: no
\* failed attempt, skipped order or lost lock passes for a success
\* (notificationsWorker.ts:46-93).
CompletedMeansSent ==
    \A o \in Orders : job[auto(o)].state = "completed" => o \in sent

\* What is marked as sent has its event, and was accepted by SendGrid, once for
\* each event at least (notificationsWorker.ts:60-93).
MarkedMeansMailed ==
    \A o \in Orders :
        /\ o \in sent <=> emitted[o] > 0
        /\ emitted[o] <= mails[o]

AddedJobs(o) == {j \in Jobs : j.order = o /\ job[j].state # "none"}

\* Retries do not repeat a mail: beyond one for each job of the order, every mail
\* has an execution that was cut off between its look and its mark, the two steps
\* that are not one (notificationsWorker.ts:46-76).
OneMailPerJob ==
    \A o \in Orders : mails[o] <= Cardinality(AddedJobs(o)) + excused[o]

\* A confirmation whose request lives to the end is mailed, or its job fails for
\* good and stays in the queue to be seen; nothing is left waiting or active
\* (server.ts:898-904, queue.ts:8-14).
ConfirmationsGoOut ==
    \A o \in Orders :
        o \in adding ~> \/ o \in sent \/ o \in dropped
                        \/ job[auto(o)].state = "failed"
===============================================================================
