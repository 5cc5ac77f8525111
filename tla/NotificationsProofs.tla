-------------------------- MODULE NotificationsProofs --------------------------
(***************************************************************************)
(* A completed job means a mail that is marked, a mark means a mail, and   *)
(* no job mails twice without an execution that was cut off, for any       *)
(* numbers of orders, workers, attempts, resends and faults.               *)
(***************************************************************************)
EXTENDS Notifications, FiniteSetTheorems, FunctionTheorems, TLAPS

\* The workers that have mailed order o and not marked it yet.
Marking(o) == {w \in Workers : At(w, "marking") /\ OrderOf(w) = o}

\* The workers that may still mail o although they have lost the lock of their job:
\* they were excused when they lost it.
Unlocked(o) ==
    {w \in Workers : (At(w, "looking") \/ At(w, "sending")) /\ OrderOf(w) = o /\ ~Locked(w)}

Holds(j, pc) == \E w \in Workers : job[j].lock = w /\ At(w, pc)

\* The jobs that have used their one mail: while o is not marked, those whose holder
\* has mailed; afterwards all but those whose holder looked before the mark.
Spent(o) ==
    {j \in AddedJobs(o) : \/ o \in sent /\ ~Holds(j, "sending")
                          \/ o \notin sent /\ Holds(j, "marking")}

WorkerOK(w) == ~At(w, "idle") =>
    /\ JobOf(w) \in Jobs /\ job[JobOf(w)].state # "none"
    /\ At(w, "completing") /\ JobOf(w).n = 0 => OrderOf(w) \in sent

JobOK(j) ==
    /\ job[j].state # "active" => job[j].lock = None
    /\ \A w \in Workers : job[j].lock = w => ~At(w, "idle") /\ JobOf(w) = j
    /\ job[j].state \in {"none", "waiting", "active"} => job[j].tries < Attempts
    /\ j.n = 0 /\ job[j].state # "none" => j.order \in paid
    /\ j.n = 0 /\ job[j].state = "completed" => j.order \in sent

Marked(o) == o \in sent <=> emitted[o] > 0
MailsOfMarks(o) == emitted[o] + Cardinality(Marking(o)) <= mails[o]
MailsOfJobs(o)  == mails[o] + Cardinality(Unlocked(o)) <= Cardinality(Spent(o)) + excused[o]

Shape ==
    /\ TypeOK
    /\ adding \subseteq paid
    /\ \A w \in Workers : WorkerOK(w)
    /\ \A j \in Jobs : JobOK(j)
    /\ \A o \in Orders : Marked(o)

IInv == Shape /\ \A o \in Orders : MailsOfMarks(o) /\ MailsOfJobs(o)

\* What w does leaves the other workers alone.
Alone(w) == \A v \in Workers \ {w} : worker'[v] = worker[v]
-------------------------------------------------------------------------------
(* Counting                                                                 *)

LEMMA WorkersAreFinite ==
    ASSUME NEW o
    PROVE  /\ IsFiniteSet(Marking(o)) /\ Cardinality(Marking(o)) \in Nat
           /\ IsFiniteSet(Unlocked(o)) /\ Cardinality(Unlocked(o)) \in Nat
<1>1. Marking(o) \in SUBSET Workers /\ Unlocked(o) \in SUBSET Workers
  BY DEF Marking, Unlocked
<1>2. IsFiniteSet(Marking(o)) /\ IsFiniteSet(Unlocked(o))
  BY <1>1, NotificationsAssumption, FS_Subset
<1> QED BY <1>2, FS_CardinalityType

LEMMA JobsOfAnOrderAreFinite == ASSUME NEW o \in Orders PROVE IsFiniteSet({j \in Jobs : j.order = o})
<1> DEFINE J == {j \in Jobs : j.order = o}
           N == 0..MaxResends
           f == [n \in N |-> [order |-> o, n |-> n]]
<1>1. f \in [N -> J]
  BY DEF Jobs
<1>2. \A j \in J : \E n \in N : f[n] = j
  <2> TAKE j \in J
  <2>1. j.n \in N /\ j = [order |-> o, n |-> j.n]
    BY DEF Jobs
  <2> QED BY <2>1
<1>3. IsFiniteSet(N)
  BY NotificationsAssumption, FS_Interval
<1> HIDE DEF f, N, J
<1>4. f \in Surjection(N, J)
  BY <1>1, <1>2, Fun_IsSurj
<1>5. IsFiniteSet(J)
  BY <1>3, <1>4, FS_Surjection
<1> QED BY <1>5 DEF J

LEMMA SpentIsFinite ==
    ASSUME NEW o \in Orders
    PROVE  /\ IsFiniteSet(AddedJobs(o)) /\ Cardinality(AddedJobs(o)) \in Nat
           /\ IsFiniteSet(Spent(o)) /\ Cardinality(Spent(o)) \in Nat
           /\ Cardinality(Spent(o)) <= Cardinality(AddedJobs(o))
<1>1. AddedJobs(o) \in SUBSET {j \in Jobs : j.order = o} /\ Spent(o) \in SUBSET AddedJobs(o)
  BY DEF AddedJobs, Spent
<1>2. IsFiniteSet(AddedJobs(o))
  BY <1>1, JobsOfAnOrderAreFinite, FS_Subset
<1>3. IsFiniteSet(Spent(o)) /\ Cardinality(Spent(o)) <= Cardinality(AddedJobs(o))
  BY <1>1, <1>2, FS_Subset
<1> QED BY <1>2, <1>3, FS_CardinalityType

LEMMA Fewer ==
    ASSUME NEW B, IsFiniteSet(B), NEW A, A \subseteq B
    PROVE  Cardinality(A) <= Cardinality(B) /\ Cardinality(A) \in Nat /\ Cardinality(B) \in Nat
<1>1. IsFiniteSet(A) /\ Cardinality(A) <= Cardinality(B)
  BY FS_Subset
<1> QED BY <1>1, FS_CardinalityType

LEMMA OneMore ==
    ASSUME NEW B, IsFiniteSet(B), NEW A, NEW x, A \subseteq B \cup {x}
    PROVE  Cardinality(A) <= Cardinality(B) + 1 /\ Cardinality(A) \in Nat /\ Cardinality(B) \in Nat
<1>1. /\ IsFiniteSet(B \cup {x})
      /\ Cardinality(B \cup {x}) = IF x \in B THEN Cardinality(B) ELSE Cardinality(B) + 1
  BY FS_AddElement
<1>2. Cardinality(A) <= Cardinality(B \cup {x}) /\ Cardinality(A) \in Nat
  BY <1>1, Fewer
<1>3. Cardinality(B) \in Nat
  BY FS_CardinalityType
<1> QED BY <1>1, <1>2, <1>3

LEMMA OneLess ==
    ASSUME NEW B, IsFiniteSet(B), NEW A, NEW x \in B, A \subseteq B \ {x}
    PROVE  Cardinality(A) + 1 <= Cardinality(B) /\ Cardinality(A) \in Nat /\ Cardinality(B) \in Nat
<1>1. IsFiniteSet(B \ {x}) /\ Cardinality(B \ {x}) = Cardinality(B) - 1
  BY FS_RemoveElement
<1>2. Cardinality(A) <= Cardinality(B \ {x}) /\ Cardinality(A) \in Nat
  BY <1>1, Fewer
<1>3. Cardinality(B) \in Nat
  BY FS_CardinalityType
<1> QED BY <1>1, <1>2, <1>3

\* How the mails of the marks may change in a step.
LEMMA MarksCount ==
    ASSUME Shape, Shape', NEW o \in Orders, MailsOfMarks(o),
           \/ /\ emitted'[o] = emitted[o] /\ mails'[o] >= mails[o]
              /\ Marking(o)' \subseteq Marking(o)
           \/ /\ emitted'[o] = emitted[o] /\ mails'[o] = mails[o] + 1
              /\ \E w \in Workers : Marking(o)' \subseteq Marking(o) \cup {w}
           \/ /\ emitted'[o] = emitted[o] + 1 /\ mails'[o] = mails[o]
              /\ \E w \in Marking(o) : Marking(o)' \subseteq Marking(o) \ {w}
    PROVE  MailsOfMarks(o)'
<1>1. /\ emitted[o] \in Nat /\ mails[o] \in Nat /\ emitted'[o] \in Nat /\ mails'[o] \in Nat
      /\ IsFiniteSet(Marking(o))
  BY WorkersAreFinite DEF Shape, TypeOK
<1>2. CASE mails'[o] >= mails[o] /\ emitted'[o] = emitted[o] /\ Marking(o)' \subseteq Marking(o)
  BY <1>1, <1>2, Fewer DEF MailsOfMarks
<1>3. ASSUME emitted'[o] = emitted[o], mails'[o] = mails[o] + 1, NEW w \in Workers,
             Marking(o)' \subseteq Marking(o) \cup {w}
      PROVE  MailsOfMarks(o)'
  <2>1. /\ Cardinality(Marking(o)') <= Cardinality(Marking(o)) + 1
        /\ Cardinality(Marking(o)') \in Nat /\ Cardinality(Marking(o)) \in Nat
    BY <1>1, <1>3, OneMore
  <2> QED BY <1>1, <1>3, <2>1 DEF MailsOfMarks
<1>4. ASSUME emitted'[o] = emitted[o] + 1, mails'[o] = mails[o], NEW w \in Marking(o),
             Marking(o)' \subseteq Marking(o) \ {w}
      PROVE  MailsOfMarks(o)'
  <2>1. /\ Cardinality(Marking(o)') + 1 <= Cardinality(Marking(o))
        /\ Cardinality(Marking(o)') \in Nat /\ Cardinality(Marking(o)) \in Nat
    BY <1>1, <1>4, OneLess
  <2> QED BY <1>1, <1>4, <2>1 DEF MailsOfMarks
<1> QED BY <1>2, <1>3, <1>4

\* How the mails of the jobs may change in a step: nothing new; a mail of a worker
\* that was excused before, or of a job that had not used its own; an excuse for a
\* job that used its own, for a worker that may still mail, or for a mail.
LEMMA JobsCount ==
    ASSUME Shape, Shape', NEW o \in Orders, MailsOfJobs(o),
           \/ /\ mails'[o] = mails[o] /\ excused'[o] = excused[o]
              /\ Unlocked(o)' \subseteq Unlocked(o) /\ Spent(o) \subseteq Spent(o)'
           \/ /\ mails'[o] = mails[o] + 1 /\ excused'[o] = excused[o]
              /\ Spent(o) \subseteq Spent(o)'
              /\ \E w \in Unlocked(o) : Unlocked(o)' \subseteq Unlocked(o) \ {w}
           \/ /\ mails'[o] = mails[o] + 1 /\ excused'[o] = excused[o]
              /\ Unlocked(o)' \subseteq Unlocked(o)
              /\ \E j \in Spent(o)' : Spent(o) \subseteq Spent(o)' \ {j}
           \/ /\ mails'[o] = mails[o] /\ excused'[o] = excused[o] + 1
              /\ Unlocked(o)' \subseteq Unlocked(o)
              /\ \E j \in Jobs : Spent(o) \subseteq Spent(o)' \cup {j}
           \/ /\ mails'[o] = mails[o] /\ excused'[o] = excused[o] + 1
              /\ Spent(o) \subseteq Spent(o)'
              /\ \E w \in Workers : Unlocked(o)' \subseteq Unlocked(o) \cup {w}
           \/ /\ mails'[o] = mails[o] + 1 /\ excused'[o] = excused[o] + 1
              /\ Unlocked(o)' \subseteq Unlocked(o) /\ Spent(o) \subseteq Spent(o)'
    PROVE  MailsOfJobs(o)'
<1> DEFINE u  == Cardinality(Unlocked(o))
           up == Cardinality(Unlocked(o)')
           sp == Cardinality(Spent(o)')
           sn == Cardinality(Spent(o))
<1>1. /\ mails[o] \in Nat /\ excused[o] \in Nat /\ mails'[o] \in Nat /\ excused'[o] \in Nat
      /\ IsFiniteSet(Unlocked(o)) /\ u \in Nat
      /\ IsFiniteSet(Spent(o)) /\ sn \in Nat
      /\ mails[o] + u <= sn + excused[o]
  BY WorkersAreFinite, SpentIsFinite DEF Shape, TypeOK, MailsOfJobs
<1>2. IsFiniteSet(Spent(o)') /\ sp \in Nat
  <2>1. IsFiniteSet({j \in Jobs : j.order = o})
    BY JobsOfAnOrderAreFinite
  <2>2. Spent(o)' \in SUBSET {j \in Jobs : j.order = o}
    BY DEF Spent, AddedJobs
  <2>3. IsFiniteSet(Spent(o)')
    BY <2>1, <2>2, FS_Subset
  <2> QED BY <2>3, FS_CardinalityType
<1>3. up \in Nat
  <2>1. Unlocked(o)' \in SUBSET Workers
    BY DEF Unlocked
  <2> QED BY <2>1, NotificationsAssumption, Fewer
<1>4. Unlocked(o)' \subseteq Unlocked(o) => up <= u
  BY <1>1, Fewer
<1>5. Spent(o) \subseteq Spent(o)' => sn <= sp
  BY <1>2, Fewer
<1>6. \A w \in Unlocked(o) : Unlocked(o)' \subseteq Unlocked(o) \ {w} => up + 1 <= u
  BY <1>1, OneLess
<1>7. \A w \in Workers : Unlocked(o)' \subseteq Unlocked(o) \cup {w} => up <= u + 1
  BY <1>1, OneMore
<1>8. \A j \in Spent(o)' : Spent(o) \subseteq Spent(o)' \ {j} => sn + 1 <= sp
  BY <1>2, OneLess
<1>9. \A j \in Jobs : Spent(o) \subseteq Spent(o)' \cup {j} => sn <= sp + 1
  BY <1>2, OneMore
<1>10. MailsOfJobs(o)' <=> mails'[o] + up <= sp + excused'[o]
  BY DEF MailsOfJobs
<1> HIDE DEF u, up, sp, sn
<1> QED BY <1>1, <1>2, <1>3, <1>4, <1>5, <1>6, <1>7, <1>8, <1>9, <1>10
-------------------------------------------------------------------------------
(* The API: it never touches a job that is there                            *)

Adds(j) ==
    /\ job[j].state = "none" /\ j.n = 0 => j.order \in paid
    /\ job'[j].state = "waiting" /\ job'[j].lock = job[j].lock /\ job'[j].tries = job[j].tries

ApiStep ==
    /\ UNCHANGED <<sent, emitted, mails, worker, excused, faults>>
    /\ paid \subseteq paid' /\ paid' \subseteq Orders /\ adding' \subseteq paid'
    /\ dropped' \subseteq Orders
    /\ job' \in [Jobs -> JobStates]
    /\ \A j \in Jobs : job'[j] = job[j] \/ (job[j].state = "none" /\ Adds(j))

LEMMA AddFacts ==
    ASSUME TypeOK, NEW j \in Jobs, add(j), j.n = 0 => j.order \in paid
    PROVE  /\ job' \in [Jobs -> JobStates]
           /\ \A i \in Jobs : job'[i] = job[i] \/ (job[i].state = "none" /\ Adds(i))
<1>1. CASE job[j].state # "none"
  BY <1>1 DEF add, TypeOK
<1>2. CASE job[j].state = "none"
  <2> DEFINE new == [job[j] EXCEPT !.state = "waiting"]
  <2>1. job' = [job EXCEPT ![j] = new]
    BY <1>2 DEF add, TypeOK
  <2>2. /\ new \in JobStates /\ new.state = "waiting" /\ new.lock = job[j].lock
        /\ new.tries = job[j].tries
    BY DEF TypeOK, JobStates
  <2> HIDE DEF new
  <2>3. job'[j] = new /\ \A i \in Jobs \ {j} : job'[i] = job[i]
    BY <2>1 DEF TypeOK
  <2> QED BY <1>2, <2>1, <2>2, <2>3 DEF Adds, TypeOK
<1> QED BY <1>1, <1>2

LEMMA ApiKinds ==
    ASSUME Shape,
           \E o \in Orders : \/ Confirm(o) \/ WebhookPaid(o) \/ ConfirmEnqueue(o) \/ ConfirmDrop(o)
                             \/ \E n \in 1..MaxResends : Resend(o, n)
    PROVE  ApiStep
<1>0. TypeOK /\ adding \subseteq paid
  BY DEF Shape
<1>1. ASSUME NEW o \in Orders, Confirm(o) \/ WebhookPaid(o) \/ ConfirmDrop(o) PROVE ApiStep
  BY <1>0, <1>1 DEF Confirm, WebhookPaid, ConfirmDrop, ApiStep, TypeOK, orders
<1>2. ASSUME NEW o \in Orders, ConfirmEnqueue(o) PROVE ApiStep
  <2>1. auto(o) \in Jobs /\ auto(o).n = 0 /\ auto(o).order = o /\ o \in paid
    BY <1>0, <1>2, NotificationsAssumption DEF auto, Jobs, ConfirmEnqueue
  <2>2. add(auto(o))
    BY <1>2 DEF ConfirmEnqueue
  <2>3. /\ job' \in [Jobs -> JobStates]
        /\ \A i \in Jobs : job'[i] = job[i] \/ (job[i].state = "none" /\ Adds(i))
    BY <1>0, <2>1, <2>2, AddFacts
  <2> QED BY <1>0, <1>2, <2>3 DEF ConfirmEnqueue, ApiStep, TypeOK, orders
<1>3. ASSUME NEW o \in Orders, NEW n \in 1..MaxResends, Resend(o, n) PROVE ApiStep
  <2> DEFINE j == [order |-> o, n |-> n]
  <2>1. j \in Jobs /\ j.n # 0
    BY NotificationsAssumption DEF Jobs
  <2>2. add(j)
    BY <1>3 DEF Resend
  <2> HIDE DEF j
  <2>3. /\ job' \in [Jobs -> JobStates]
        /\ \A i \in Jobs : job'[i] = job[i] \/ (job[i].state = "none" /\ Adds(i))
    BY <1>0, <2>1, <2>2, AddFacts
  <2> QED BY <1>0, <1>3, <2>3 DEF Resend, ApiStep, TypeOK, orders
<1> QED BY <1>1, <1>2, <1>3

LEMMA ApiKeeps == ASSUME IInv, ApiStep PROVE IInv'
<1>0. Shape /\ TypeOK
  BY DEF IInv, Shape
<1>1. UNCHANGED <<sent, emitted, mails, worker, excused, faults>> /\ paid \subseteq paid'
  BY DEF ApiStep
<1>2. \A j \in Jobs : job[j].state # "none" => job'[j] = job[j]
  BY DEF ApiStep
<1>3. \A w \in Workers : ~At(w, "idle") => JobOf(w) \in Jobs /\ job'[JobOf(w)] = job[JobOf(w)]
  BY <1>0, <1>2 DEF Shape, WorkerOK
<1>4. \A w \in Workers : WorkerOK(w)'
  BY <1>0, <1>1, <1>3 DEF Shape, WorkerOK, At, JobOf, OrderOf
<1>5. ASSUME NEW j \in Jobs PROVE JobOK(j)'
  <2>1. CASE job'[j] = job[j]
    BY <1>0, <1>1, <2>1 DEF Shape, JobOK, At, JobOf
  <2>2. CASE job[j].state = "none" /\ Adds(j)
    <3>1. JobOK(j)
      BY <1>0 DEF Shape
    <3> QED BY <3>1, <2>2, <1>1 DEF JobOK, Adds, At, JobOf
  <2> QED BY <2>1, <2>2 DEF ApiStep
<1>6. Shape'
  <2>1. TypeOK' /\ adding' \subseteq paid'
    BY <1>0, <1>1 DEF ApiStep, TypeOK
  <2>2. \A o \in Orders : Marked(o)'
    BY <1>0, <1>1 DEF Shape, Marked
  <2> QED BY <1>4, <1>5, <2>1, <2>2 DEF Shape
<1>7. ASSUME NEW o \in Orders PROVE MailsOfMarks(o)' /\ MailsOfJobs(o)'
  <2>1. Marking(o)' = Marking(o)
    BY <1>1 DEF Marking, At, OrderOf, JobOf
  <2>2. Unlocked(o)' \subseteq Unlocked(o)
    BY <1>1, <1>3 DEF Unlocked, At, OrderOf, JobOf, Locked
  <2>3. Spent(o) \subseteq Spent(o)'
    BY <1>1, <1>2 DEF Spent, AddedJobs, Holds, At
  <2>4. mails[o] \in Nat /\ emitted[o] \in Nat
    BY <1>0 DEF TypeOK
  <2> QED BY <1>0, <1>1, <1>6, <2>1, <2>2, <2>3, <2>4, MarksCount, JobsCount DEF IInv
<1> QED BY <1>6, <1>7 DEF IInv
-------------------------------------------------------------------------------
(* A worker that takes a job or gets on with one                            *)

LEMMA GoToFacts ==
    ASSUME TypeOK, NEW w \in Workers,
           NEW pc \in {"looking", "sending", "marking", "completing"}, GoTo(w, pc)
    PROVE  /\ Alone(w) /\ worker' \in [Workers -> WorkerStates]
           /\ worker'[w].pc = pc /\ worker'[w].job = JobOf(w)
<1>1. worker' = [worker EXCEPT ![w] = [worker[w] EXCEPT !.pc = pc]]
  BY DEF TypeOK, GoTo
<1>2. [worker[w] EXCEPT !.pc = pc] \in WorkerStates
  BY DEF TypeOK, WorkerStates
<1> QED BY <1>1, <1>2 DEF TypeOK, WorkerStates, Alone, JobOf

LEMMA LeaveFacts ==
    ASSUME TypeOK, NEW w \in Workers, Leave(w)
    PROVE  /\ Alone(w) /\ worker' \in [Workers -> WorkerStates]
           /\ worker'[w].pc = "idle"
  BY DEF TypeOK, Leave, Idle, WorkerStates, Alone

LEMMA PlusFacts ==
    ASSUME NEW f \in [Orders -> Nat], NEW o \in Orders
    PROVE  /\ Plus(f, o) \in [Orders -> Nat]
           /\ Plus(f, o)[o] = f[o] + 1
           /\ \A x \in Orders \ {o} : Plus(f, o)[x] = f[x]
  BY DEF Plus

\* A step of w that leaves the jobs alone.
Goes(w, pc) ==
    /\ Alone(w) /\ worker' \in [Workers -> WorkerStates]
    /\ worker'[w].pc = pc /\ worker'[w].job = JobOf(w)
    /\ JobOf(w) \in Jobs /\ OrderOf(w) \in Orders
    /\ UNCHANGED <<paid, adding, dropped, job, excused, faults>>

LEMMA OfAnOrder ==
    ASSUME Shape, NEW w \in Workers, ~At(w, "idle")
    PROVE  JobOf(w) \in Jobs /\ OrderOf(w) \in Orders /\ job[JobOf(w)].state # "none"
  BY DEF Shape, WorkerOK, OrderOf, Jobs

LEMMA GoesIsOK ==
    ASSUME Shape, NEW w \in Workers, ~At(w, "idle"),
           NEW pc \in {"looking", "sending", "marking", "completing"}, Goes(w, pc),
           sent \subseteq sent' /\ sent' \subseteq Orders,
           emitted' \in [Orders -> Nat], mails' \in [Orders -> Nat],
           pc = "completing" /\ JobOf(w).n = 0 => OrderOf(w) \in sent',
           \A o \in Orders : Marked(o)'
    PROVE  Shape'
<1>1. TypeOK'
  BY DEF Shape, TypeOK, Goes
<1>2. ASSUME NEW v \in Workers PROVE WorkerOK(v)'
  <2>1. CASE v = w
    BY <2>1, OfAnOrder DEF Goes, WorkerOK, At, JobOf, OrderOf
  <2>2. CASE v # w
    <3>1. worker'[v] = worker[v] /\ job' = job /\ WorkerOK(v)
      BY <2>2 DEF Goes, Alone, Shape
    <3> QED BY <3>1 DEF WorkerOK, At, JobOf, OrderOf
  <2> QED BY <2>1, <2>2
<1>3. ASSUME NEW j \in Jobs PROVE JobOK(j)'
  <2>1. \A v \in Workers : worker'[v].job = worker[v].job
                           /\ (worker'[v].pc = "idle" <=> worker[v].pc = "idle")
    BY DEF Goes, Alone, JobOf, At
  <2>2. job' = job /\ paid' = paid /\ JobOK(j)
    BY DEF Goes, Shape
  <2> QED BY <2>1, <2>2 DEF JobOK, At, JobOf
<1> QED BY <1>1, <1>2, <1>3 DEF Shape, Goes

\* What such a step may do to the three sets.
LEMMA GoesSets ==
    ASSUME Shape, NEW w \in Workers, NEW pc, Goes(w, pc), NEW o \in Orders
    PROVE  /\ Marking(o)' \subseteq Marking(o) \cup (IF pc = "marking" /\ o = OrderOf(w) THEN {w} ELSE {})
           /\ pc # "marking" => w \notin Marking(o)'
           /\ At(w, "looking") \/ At(w, "sending") => Unlocked(o)' \subseteq Unlocked(o)
           /\ pc \notin {"looking", "sending"} => Unlocked(o)' \subseteq Unlocked(o) \ {w}
<1>1. \A v \in Workers \ {w} : worker'[v] = worker[v]
  BY DEF Goes, Alone
<1>2. worker'[w].pc = pc /\ worker'[w].job = worker[w].job /\ job' = job
  BY DEF Goes, JobOf
<1> QED BY <1>1, <1>2 DEF Marking, Unlocked, At, OrderOf, JobOf, Locked

LEMMA LookKeeps == ASSUME IInv, NEW w \in Workers, Look(w) PROVE IInv'
<1> DEFINE pc == IF Skipped(w) THEN "completing" ELSE "sending"
<1>0. Shape /\ TypeOK
  BY DEF IInv, Shape
<1>1. /\ At(w, "looking") /\ ~At(w, "idle") /\ GoTo(w, pc)
      /\ UNCHANGED <<paid, sent, emitted, mails, adding, dropped, job, excused, faults>>
  BY DEF Look, orders, At
<1>2. JobOf(w) \in Jobs /\ OrderOf(w) \in Orders /\ job[JobOf(w)].state # "none"
  BY <1>0, <1>1, OfAnOrder
<1>3. pc \in {"completing", "sending"} /\ (pc = "sending" => OrderOf(w) \notin sent)
  BY DEF Skipped
<1>4. pc = "completing" /\ JobOf(w).n = 0 => OrderOf(w) \in sent
  BY <1>0, <1>2 DEF Skipped, Shape, JobOK, OrderOf
<1> HIDE DEF pc
<1>5. Goes(w, pc)
  BY <1>0, <1>1, <1>2, <1>3, GoToFacts DEF Goes
<1>6. Shape'
  <2>1. \A o \in Orders : Marked(o)'
    BY <1>0, <1>1 DEF Shape, Marked
  <2> QED BY <1>0, <1>1, <1>3, <1>4, <1>5, <2>1, GoesIsOK DEF TypeOK
<1>7. ASSUME NEW o \in Orders PROVE MailsOfMarks(o)' /\ MailsOfJobs(o)'
  <2>1. Marking(o)' \subseteq Marking(o) /\ Unlocked(o)' \subseteq Unlocked(o)
    BY <1>0, <1>1, <1>3, <1>5, GoesSets
  <2>2. Spent(o) \subseteq Spent(o)'
    <3>1. \A v \in Workers \ {w} : worker'[v] = worker[v]
      BY <1>5 DEF Goes, Alone
    <3>2. \A j \in Jobs : j.order = o /\ job[j].lock = w => o = OrderOf(w)
      BY <1>0, <1>1 DEF Shape, JobOK, OrderOf
    <3>3. \A j \in AddedJobs(o) : Holds(j, "marking") => Holds(j, "marking")'
      BY <3>1, <1>1 DEF Holds, At
    <3>4. o \in sent => \A j \in AddedJobs(o) : ~Holds(j, "sending") => ~Holds(j, "sending")'
      BY <3>1, <3>2, <1>1, <1>3, <1>5 DEF Holds, At, Goes, AddedJobs
    <3> QED BY <3>3, <3>4, <1>1 DEF Spent, AddedJobs
  <2>3. mails[o] \in Nat
    BY <1>0 DEF TypeOK
  <2> QED BY <1>0, <1>1, <1>6, <2>1, <2>2, <2>3, MarksCount, JobsCount DEF IInv
<1> QED BY <1>6, <1>7 DEF IInv

LEMMA SendKeeps == ASSUME IInv, NEW w \in Workers, sendTemplateEmail(w) PROVE IInv'
<1> DEFINE x == OrderOf(w)
<1>0. Shape /\ TypeOK
  BY DEF IInv, Shape
<1>1. /\ At(w, "sending") /\ ~At(w, "idle") /\ GoTo(w, "marking")
      /\ mails' = Plus(mails, x)
      /\ UNCHANGED <<paid, sent, emitted, adding, dropped, job, excused, faults>>
  BY DEF sendTemplateEmail, At
<1>2. JobOf(w) \in Jobs /\ x \in Orders /\ job[JobOf(w)].state # "none"
  BY <1>0, <1>1, OfAnOrder
<1>3. Goes(w, "marking")
  BY <1>0, <1>1, <1>2, GoToFacts DEF Goes
<1>4. /\ mails' \in [Orders -> Nat] /\ mails'[x] = mails[x] + 1
      /\ \A o \in Orders \ {x} : mails'[o] = mails[o]
  BY <1>0, <1>1, <1>2, PlusFacts DEF TypeOK
<1>5. Shape'
  <2>1. \A o \in Orders : Marked(o)'
    BY <1>0, <1>1 DEF Shape, Marked
  <2> QED BY <1>0, <1>1, <1>3, <1>4, <2>1, GoesIsOK DEF TypeOK
<1>6. \A v \in Workers \ {w} : worker'[v] = worker[v]
  BY <1>3 DEF Goes, Alone
<1>7. ASSUME NEW o \in Orders PROVE Spent(o) \subseteq Spent(o)'
  <2>1. \A i \in Jobs : Holds(i, "marking") => Holds(i, "marking")'
    BY <1>1, <1>6 DEF Holds, At
  <2>2. \A i \in Jobs : Holds(i, "sending")' => Holds(i, "sending")
    BY <1>1, <1>3, <1>6 DEF Holds, At, Goes
  <2> QED BY <2>1, <2>2, <1>1 DEF Spent, AddedJobs
<1>8. ASSUME NEW o \in Orders PROVE MailsOfMarks(o)' /\ MailsOfJobs(o)'
  <2>1. CASE o # x
    <3>1. Marking(o)' \subseteq Marking(o) /\ Unlocked(o)' \subseteq Unlocked(o)
      BY <2>1, <1>0, <1>1, <1>3, GoesSets
    <3>2. mails[o] \in Nat /\ mails'[o] = mails[o]
      BY <2>1, <1>0, <1>4 DEF TypeOK
    <3> QED BY <1>0, <1>1, <1>5, <1>7, <3>1, <3>2, MarksCount, JobsCount DEF IInv
  <2>2. CASE o = x
    <3>1. Marking(o)' \subseteq Marking(o) \cup {w}
      BY <2>2, <1>0, <1>2, <1>3, GoesSets
    <3>2. MailsOfMarks(o)'
      BY <2>2, <1>0, <1>1, <1>2, <1>4, <1>5, <3>1, MarksCount DEF IInv
    <3>3. Unlocked(o)' \subseteq Unlocked(o) \ {w}
      BY <2>2, <1>0, <1>2, <1>3, GoesSets
    <3>4. CASE ~Locked(w)
      <4>1. w \in Unlocked(o)
        BY <2>2, <3>4, <1>1 DEF Unlocked
      <4> QED BY <2>2, <4>1, <3>2, <3>3, <1>0, <1>1, <1>2, <1>4, <1>5, <1>7, JobsCount DEF IInv
    <3>5. CASE Locked(w)
      <4>0. PICK j \in Jobs : j = JobOf(w)
        BY <1>2
      <4>1. j \in AddedJobs(o)
        BY <2>2, <4>0, <1>2 DEF AddedJobs, OrderOf
      <4>2. Holds(j, "sending") /\ ~Holds(j, "marking")
        BY <3>5, <4>0, <1>0, <1>1 DEF Holds, Locked, At, Shape, JobOK, JobOf
      <4>3. Holds(j, "marking")' /\ ~Holds(j, "sending")'
        BY <3>5, <4>0, <1>0, <1>1, <1>3, <1>6 DEF Holds, Locked, At, Goes, Shape, JobOK, JobOf
      <4>4. j \notin Spent(o)
        BY <4>2 DEF Spent
      <4>5. j \in Spent(o)'
        BY <4>1, <4>3, <1>1 DEF Spent, AddedJobs
      <4>6. Spent(o) \subseteq Spent(o)' \ {j}
        BY <4>4, <1>7
      <4> QED BY <2>2, <4>5, <4>6, <3>2, <3>3, <1>0, <1>1, <1>2, <1>4, <1>5, JobsCount DEF IInv
    <3> QED BY <3>4, <3>5
  <2> QED BY <2>1, <2>2
<1> QED BY <1>5, <1>8 DEF IInv

LEMMA MarkKeeps == ASSUME IInv, NEW w \in Workers, Mark(w) PROVE IInv'
<1> DEFINE x == OrderOf(w)
<1>0. Shape /\ TypeOK
  BY DEF IInv, Shape
<1>1. /\ At(w, "marking") /\ ~At(w, "idle") /\ GoTo(w, "completing")
      /\ sent' = sent \cup {x} /\ emitted' = Plus(emitted, x)
      /\ UNCHANGED <<paid, mails, adding, dropped, job, excused, faults>>
  BY DEF Mark, At
<1>2. JobOf(w) \in Jobs /\ x \in Orders
  BY <1>0, <1>1, OfAnOrder
<1>3. Goes(w, "completing")
  BY <1>0, <1>1, <1>2, GoToFacts DEF Goes
<1>4. /\ emitted' \in [Orders -> Nat] /\ emitted'[x] = emitted[x] + 1
      /\ \A o \in Orders \ {x} : emitted'[o] = emitted[o]
  BY <1>0, <1>1, <1>2, PlusFacts DEF TypeOK
<1>5. Shape'
  <2>1. ASSUME NEW o \in Orders PROVE Marked(o)'
    <3>1. emitted[o] \in Nat /\ Marked(o)
      BY <1>0 DEF Shape, TypeOK
    <3> QED BY <3>1, <1>1, <1>4 DEF Marked
  <2> QED BY <1>0, <1>1, <1>2, <1>3, <1>4, <2>1, GoesIsOK DEF TypeOK
<1>6. \A v \in Workers \ {w} : worker'[v] = worker[v]
  BY <1>3 DEF Goes, Alone
<1>7. ASSUME NEW o \in Orders PROVE MailsOfMarks(o)' /\ MailsOfJobs(o)'
  <2>1. /\ Marking(o)' \subseteq Marking(o) \ {w} /\ Unlocked(o)' \subseteq Unlocked(o)
    BY <1>0, <1>3, GoesSets
  <2>2. Spent(o) \subseteq Spent(o)'
    <3>1. \A i \in Jobs : Holds(i, "sending")' => Holds(i, "sending")
      BY <1>1, <1>3, <1>6 DEF Holds, At, Goes
    <3>2. \A i \in Jobs : Holds(i, "marking") => ~Holds(i, "sending")
      BY DEF Holds, At
    <3>3. o # x => \A i \in AddedJobs(o) : Holds(i, "marking") => Holds(i, "marking")'
      <4>1. \A i \in Jobs : i.order = o /\ job[i].lock = w => o = x
        BY <1>0 DEF Shape, JobOK, OrderOf
      <4> QED BY <4>1, <1>1, <1>6 DEF Holds, At, AddedJobs
    <3> QED BY <3>1, <3>2, <3>3, <1>1 DEF Spent, AddedJobs
  <2>3. mails[o] \in Nat
    BY <1>0 DEF TypeOK
  <2>4. o = x => w \in Marking(o)
    BY <1>1 DEF Marking
  <2>5. MailsOfJobs(o)'
    BY <1>0, <1>1, <1>5, <2>1, <2>2, <2>3, JobsCount DEF IInv
  <2>6. MailsOfMarks(o)'
    BY <1>0, <1>1, <1>4, <1>5, <2>1, <2>3, <2>4, MarksCount DEF IInv
  <2> QED BY <2>5, <2>6
<1> QED BY <1>5, <1>7 DEF IInv

LEMMA TakeKeeps == ASSUME IInv, NEW w \in Workers, NEW j \in Jobs, Take(w, j) PROVE IInv'
<1> DEFINE new == [job[j] EXCEPT !.state = "active", !.lock = w]
<1>0. Shape /\ TypeOK /\ JobOK(j)
  BY DEF IInv, Shape
<1>1. /\ At(w, "idle") /\ job[j].state = "waiting"
      /\ job' = [job EXCEPT ![j] = new]
      /\ worker' = [worker EXCEPT ![w] = [pc |-> "looking", job |-> j]]
      /\ UNCHANGED <<paid, sent, emitted, mails, adding, dropped, excused, faults>>
  BY <1>0 DEF Take, orders, TypeOK
<1>2. new \in JobStates /\ new.state = "active" /\ new.lock = w /\ new.tries = job[j].tries
  BY <1>0 DEF TypeOK, JobStates
<1> HIDE DEF new
<1>3. job'[j] = new /\ \A i \in Jobs \ {j} : job'[i] = job[i]
  BY <1>0, <1>1 DEF TypeOK
<1>4. /\ worker'[w].pc = "looking" /\ worker'[w].job = j
      /\ \A v \in Workers \ {w} : worker'[v] = worker[v]
  BY <1>0, <1>1 DEF TypeOK
<1>5. job[j].lock = None /\ None \notin Workers /\ \A i \in Jobs : job[i].lock # w
  BY <1>0, <1>1, NotificationsAssumption DEF JobOK, Shape
<1>6. Shape'
  <2>1. TypeOK'
    BY <1>0, <1>1, <1>2 DEF TypeOK, WorkerStates
  <2>2. ASSUME NEW v \in Workers PROVE WorkerOK(v)'
    <3>1. CASE v = w
      BY <3>1, <1>2, <1>3, <1>4 DEF WorkerOK, At, JobOf, OrderOf
    <3>2. CASE v # w
      <4>1. worker'[v] = worker[v] /\ WorkerOK(v) /\ sent' = sent
        BY <3>2, <1>0, <1>1, <1>4 DEF Shape
      <4>2. \A i \in Jobs : job[i].state # "none" => job'[i].state # "none"
        BY <1>2, <1>3
      <4> QED BY <4>1, <4>2 DEF WorkerOK, At, JobOf, OrderOf
    <3> QED BY <3>1, <3>2
  <2>3. ASSUME NEW i \in Jobs PROVE JobOK(i)'
    <3>1. CASE i = j
      BY <3>1, <1>0, <1>1, <1>2, <1>3, <1>4 DEF JobOK, At, JobOf
    <3>2. CASE i # j
      <4>1. job'[i] = job[i] /\ JobOK(i) /\ paid' = paid /\ sent' = sent
        BY <3>2, <1>0, <1>1, <1>3 DEF Shape
      <4>2. \A v \in Workers : job[i].lock = v => v # w /\ worker'[v] = worker[v]
        BY <1>4, <1>5
      <4> QED BY <4>1, <4>2 DEF JobOK, At, JobOf
    <3> QED BY <3>1, <3>2
  <2>4. \A o \in Orders : Marked(o)'
    BY <1>0, <1>1 DEF Shape, Marked
  <2> QED BY <2>1, <2>2, <2>3, <2>4, <1>0, <1>1 DEF Shape
<1>7. ASSUME NEW o \in Orders PROVE MailsOfMarks(o)' /\ MailsOfJobs(o)'
  <2>1. Marking(o)' \subseteq Marking(o)
    BY <1>4 DEF Marking, At, OrderOf, JobOf
  <2>2. Unlocked(o)' \subseteq Unlocked(o)
    <3> SUFFICES ASSUME NEW v \in Unlocked(o)' PROVE v \in Unlocked(o)
      OBVIOUS
    <3>1. v # w
      BY <1>2, <1>3, <1>4 DEF Unlocked, Locked, JobOf
    <3>2. v \in Workers /\ worker'[v] = worker[v]
      BY <3>1, <1>4 DEF Unlocked
    <3>3. job[JobOf(v)].lock = v => ~At(v, "idle") /\ JobOf(v) \in Jobs \ {j}
      BY <3>2, <1>0, <1>5 DEF Unlocked, Shape, WorkerOK, At, JobOf
    <3> QED BY <3>2, <3>3, <1>3 DEF Unlocked, Locked, At, OrderOf, JobOf
  <2>3. Spent(o) \subseteq Spent(o)'
    <3>1. \A i \in Jobs : Holds(i, "marking") => Holds(i, "marking")'
      BY <1>1, <1>3, <1>4, <1>5 DEF Holds, At
    <3>2. \A i \in Jobs : Holds(i, "sending")' => Holds(i, "sending")
      BY <1>2, <1>3, <1>4, <1>5 DEF Holds, At
    <3>3. \A i \in Jobs : job[i].state # "none" => job'[i].state # "none"
      BY <1>2, <1>3
    <3> QED BY <3>1, <3>2, <3>3, <1>1 DEF Spent, AddedJobs
  <2>4. mails[o] \in Nat
    BY <1>0 DEF TypeOK
  <2> QED BY <1>1, <1>0, <1>6, <2>1, <2>2, <2>3, <2>4, MarksCount, JobsCount DEF IInv
<1> QED BY <1>6, <1>7 DEF IInv
-------------------------------------------------------------------------------
(* A worker that lets go of its job: an outcome, or a crash                 *)

\* How the job of w changes if w has the lock.
Released(w, j) ==
    /\ job'[j].lock = None
    /\ job'[j].state \notin {"none"} /\ job[j].state = "active"
    /\ job'[j].state \in {"waiting", "active"} => job'[j].tries < Attempts
    /\ job'[j].state = "completed" /\ j.n = 0 => j.order \in sent

LetsGo(w, j) ==
    /\ j = JobOf(w) /\ ~At(w, "idle")
    /\ Alone(w) /\ worker' \in [Workers -> WorkerStates] /\ worker'[w].pc = "idle"
    /\ job' \in [Jobs -> JobStates]
    /\ \A i \in Jobs \ {j} : job'[i] = job[i]
    /\ IF Locked(w) THEN Released(w, j) ELSE job'[j] = job[j]
    /\ UNCHANGED <<paid, sent, emitted, adding, dropped>>

LEMMA ThrowLetsGo ==
    ASSUME Shape, NEW w \in Workers, ~At(w, "idle"), Throw(w),
           UNCHANGED <<paid, sent, emitted, adding, dropped>>
    PROVE  \E j \in Jobs : LetsGo(w, j)
<1>0. TypeOK
  BY DEF Shape
<1>1. PICK j \in Jobs : j = JobOf(w) /\ job[j].state # "none" /\ JobOK(j)
  BY OfAnOrder DEF Shape
<1>2. Alone(w) /\ worker' \in [Workers -> WorkerStates] /\ worker'[w].pc = "idle"
  BY <1>0, LeaveFacts DEF Throw
<1>3. CASE ~Locked(w)
  <2>1. job' = job
    BY <1>3 DEF Throw
  <2> QED BY <2>1, <1>0, <1>1, <1>2, <1>3 DEF LetsGo, TypeOK
<1>4. CASE Locked(w)
  <2>1. job[j].state = "active" /\ job[j].tries < Attempts /\ job[j].tries \in Nat
    BY <1>0, <1>1, <1>4, NotificationsAssumption DEF JobOK, Locked, TypeOK, JobStates
  <2> DEFINE tries == job[j].tries + 1
             state == IF tries < Attempts THEN "waiting" ELSE "failed"
             new == [job[j] EXCEPT !.state = state, !.tries = tries, !.lock = None]
  <2>2. job' = [job EXCEPT ![j] = new]
    BY <1>0, <1>1, <1>4 DEF Throw, TypeOK
  <2>3. /\ new \in JobStates /\ new.lock = None
        /\ new.state = "failed" \/ (new.state = "waiting" /\ new.tries < Attempts)
    <3>1. tries \in 0..Attempts /\ state \in {"waiting", "failed"}
          /\ (state = "waiting" => tries < Attempts)
      BY <2>1, NotificationsAssumption
    <3> HIDE DEF tries, state
    <3>2. job[j] \in JobStates
      BY <1>0 DEF TypeOK
    <3> QED BY <3>1, <3>2 DEF JobStates
  <2> HIDE DEF new, tries, state
  <2>4. job'[j] = new /\ job' \in [Jobs -> JobStates] /\ \A i \in Jobs \ {j} : job'[i] = job[i]
    BY <1>0, <2>2, <2>3 DEF TypeOK
  <2>5. Released(w, j)
    BY <2>1, <2>3, <2>4 DEF Released
  <2> QED BY <2>4, <2>5, <1>1, <1>2, <1>4 DEF LetsGo
<1> QED BY <1>3, <1>4

LEMMA CompleteLetsGo ==
    ASSUME Shape, NEW w \in Workers, Complete(w) PROVE \E j \in Jobs : LetsGo(w, j)
<1>0. TypeOK /\ At(w, "completing") /\ ~At(w, "idle") /\ Leave(w)
      /\ UNCHANGED <<paid, sent, emitted, adding, dropped>>
  BY DEF Shape, Complete, At, orders
<1>1. PICK j \in Jobs : j = JobOf(w) /\ JobOK(j) /\ (j.n = 0 => j.order \in sent)
  BY <1>0, OfAnOrder DEF Shape, WorkerOK, OrderOf
<1>2. Alone(w) /\ worker' \in [Workers -> WorkerStates] /\ worker'[w].pc = "idle"
  BY <1>0, LeaveFacts
<1>3. CASE ~Locked(w)
  <2>1. job' = job
    BY <1>3 DEF Complete
  <2> QED BY <2>1, <1>0, <1>1, <1>2, <1>3 DEF LetsGo, TypeOK
<1>4. CASE Locked(w)
  <2>1. job[j].state = "active"
    BY <1>1, <1>4, NotificationsAssumption DEF JobOK, Locked
  <2> DEFINE new == [job[j] EXCEPT !.state = "completed", !.lock = None]
  <2>2. job' = [job EXCEPT ![j] = new]
    BY <1>0, <1>1, <1>4 DEF Complete, TypeOK
  <2>3. new \in JobStates /\ new.lock = None /\ new.state = "completed"
    BY <1>0, <1>1 DEF TypeOK, JobStates
  <2> HIDE DEF new
  <2>4. job'[j] = new /\ job' \in [Jobs -> JobStates] /\ \A i \in Jobs \ {j} : job'[i] = job[i]
    BY <1>0, <2>2, <2>3 DEF TypeOK
  <2>5. Released(w, j)
    BY <2>1, <2>3, <2>4, <1>1 DEF Released
  <2> QED BY <2>4, <2>5, <1>0, <1>1, <1>2, <1>4 DEF LetsGo
<1> QED BY <1>3, <1>4

LEMMA CrashLetsGo ==
    ASSUME Shape, NEW w \in Workers, Crash(w) PROVE \E j \in Jobs : LetsGo(w, j)
<1>0. TypeOK /\ ~At(w, "idle") /\ Leave(w)
      /\ UNCHANGED <<paid, sent, emitted, adding, dropped>>
  BY DEF Shape, Crash, orders
<1>1. PICK j \in Jobs : j = JobOf(w) /\ JobOK(j)
  BY <1>0, OfAnOrder DEF Shape
<1>2. Alone(w) /\ worker' \in [Workers -> WorkerStates] /\ worker'[w].pc = "idle"
  BY <1>0, LeaveFacts
<1>3. CASE ~Locked(w)
  <2>1. job' = job
    BY <1>3 DEF Crash
  <2> QED BY <2>1, <1>0, <1>1, <1>2, <1>3 DEF LetsGo, TypeOK
<1>4. CASE Locked(w)
  <2>1. job[j].state = "active" /\ job[j].tries < Attempts
    BY <1>1, <1>4, NotificationsAssumption DEF JobOK, Locked
  <2> DEFINE new == [job[j] EXCEPT !.lock = None]
  <2>2. job' = [job EXCEPT ![j] = new]
    BY <1>0, <1>1, <1>4 DEF Crash, TypeOK
  <2>3. new \in JobStates /\ new.lock = None /\ new.state = "active" /\ new.tries = job[j].tries
    BY <1>0, <1>1, <2>1 DEF TypeOK, JobStates
  <2> HIDE DEF new
  <2>4. job'[j] = new /\ job' \in [Jobs -> JobStates] /\ \A i \in Jobs \ {j} : job'[i] = job[i]
    BY <1>0, <2>2, <2>3 DEF TypeOK
  <2>5. Released(w, j)
    BY <2>1, <2>3, <2>4, <1>1 DEF Released
  <2> QED BY <2>4, <2>5, <1>0, <1>1, <1>2, <1>4 DEF LetsGo
<1> QED BY <1>3, <1>4

LEMMA LetsGoIsOK ==
    ASSUME Shape, NEW w \in Workers, NEW j \in Jobs, LetsGo(w, j),
           mails' \in [Orders -> Nat], excused' \in [Orders -> Nat], faults' \in 0..MaxFaults
    PROVE  Shape'
<1>0. TypeOK /\ None \notin Workers /\ sent' = sent /\ paid' = paid
  BY NotificationsAssumption DEF Shape, LetsGo
<1>1. TypeOK'
  BY <1>0 DEF TypeOK, LetsGo
<1>2. \A i \in Jobs : job[i].state # "none" => job'[i].state # "none"
  BY DEF LetsGo, Released
<1>3. ASSUME NEW v \in Workers PROVE WorkerOK(v)'
  <2>1. CASE v = w
    BY <2>1 DEF LetsGo, WorkerOK, At
  <2>2. CASE v # w
    <3>1. worker'[v] = worker[v] /\ WorkerOK(v)
      BY <2>2 DEF LetsGo, Alone, Shape
    <3> QED BY <3>1, <1>0, <1>2 DEF WorkerOK, At, JobOf, OrderOf
  <2> QED BY <2>1, <2>2
<1>4. ASSUME NEW i \in Jobs PROVE JobOK(i)'
  <2>0. JobOK(i)
    BY DEF Shape
  <2>1. CASE i = j /\ Locked(w)
    <3>1. Released(w, j)
      BY <2>1 DEF LetsGo
    <3> QED BY <2>0, <2>1, <3>1, <1>0 DEF Released, JobOK
  <2>2. CASE i # j \/ ~Locked(w)
    <3>1. job'[i] = job[i]
      BY <2>2 DEF LetsGo
    <3>2. job[i].lock # w
      BY <2>0, <2>2 DEF LetsGo, Locked, JobOK
    <3>3. \A v \in Workers : job[i].lock = v => worker'[v] = worker[v]
      BY <3>2 DEF LetsGo, Alone
    <3> QED BY <2>0, <3>1, <3>3, <1>0 DEF JobOK, At, JobOf
  <2> QED BY <2>1, <2>2
<1>5. \A o \in Orders : Marked(o)'
  BY DEF Shape, Marked, LetsGo
<1> QED BY <1>0, <1>1, <1>3, <1>4, <1>5 DEF Shape, LetsGo

LEMMA LetsGoSets ==
    ASSUME Shape, NEW w \in Workers, NEW j \in Jobs, LetsGo(w, j), NEW o \in Orders
    PROVE  /\ Marking(o)' \subseteq Marking(o)
           /\ Unlocked(o)' \subseteq Unlocked(o) \ {w}
           /\ Spent(o) \subseteq Spent(o)' \cup {j}
           /\ ~At(w, "marking") \/ ~Locked(w) \/ j.order # o => Spent(o) \subseteq Spent(o)'
<1>0. None \notin Workers /\ sent' = sent /\ \A v \in Workers \ {w} : worker'[v] = worker[v]
  BY NotificationsAssumption DEF LetsGo, Alone
<1>1. \A i \in Jobs : job[i].state # "none" => job'[i].state # "none"
  BY DEF LetsGo, Released
<1>2. \A i \in Jobs, v \in Workers \ {w} : job[i].lock = v => job'[i].lock = v
  BY DEF LetsGo, Locked, Shape, JobOK
<1>3. \A i \in Jobs, v \in Workers : job'[i].lock = v => job[i].lock = v /\ v # w
  BY <1>0 DEF LetsGo, Released, Locked, Shape, JobOK
<1>4. Marking(o)' \subseteq Marking(o)
  BY <1>0 DEF Marking, LetsGo, At, OrderOf, JobOf
<1>5. Unlocked(o)' \subseteq Unlocked(o) \ {w}
  <2> SUFFICES ASSUME NEW v \in Unlocked(o)' PROVE v \in Unlocked(o) \ {w}
    OBVIOUS
  <2>1. v \in Workers \ {w}
    BY DEF Unlocked, LetsGo, At
  <2>2. worker'[v] = worker[v] /\ WorkerOK(v)
    BY <2>1, <1>0 DEF Shape
  <2>3. JobOf(v) \in Jobs
    BY <2>2 DEF WorkerOK, Unlocked, At, JobOf
  <2>4. ~Locked(v)
    BY <2>1, <2>2, <2>3, <1>2 DEF Unlocked, Locked, JobOf
  <2> QED BY <2>1, <2>2, <2>4 DEF Unlocked, At, OrderOf, JobOf
<1>6. \A i \in Jobs : Holds(i, "sending")' => Holds(i, "sending")
  BY <1>0, <1>3 DEF Holds, At
<1>7. \A i \in Jobs \ {j} : Holds(i, "marking") => Holds(i, "marking")'
  <2>1. \A i \in Jobs \ {j} : job[i].lock # w
    BY DEF Shape, JobOK, LetsGo
  <2> QED BY <2>1, <1>0, <1>2 DEF Holds, At
<1>8. ~At(w, "marking") \/ ~Locked(w) => (Holds(j, "marking") => Holds(j, "marking")')
  <2> SUFFICES ASSUME ~At(w, "marking") \/ ~Locked(w), NEW v \in Workers,
                      job[j].lock = v, At(v, "marking")
               PROVE  Holds(j, "marking")'
    BY DEF Holds
  <2>1. v # w
    BY DEF LetsGo, Locked
  <2> QED BY <2>1, <1>0, <1>2 DEF Holds, At
<1>9. Spent(o) \subseteq Spent(o)' \cup {j}
  BY <1>0, <1>1, <1>6, <1>7 DEF Spent, AddedJobs
<1>10. j.order # o => j \notin Spent(o)
  BY DEF Spent, AddedJobs
<1>11. ~At(w, "marking") \/ ~Locked(w) \/ j.order # o => Spent(o) \subseteq Spent(o)'
  BY <1>0, <1>1, <1>6, <1>7, <1>8, <1>10 DEF Spent, AddedJobs
<1> QED BY <1>4, <1>5, <1>9, <1>11

\* An outcome or a crash that cuts nothing off.
LEMMA QuietEnds ==
    ASSUME IInv, NEW w \in Workers, NEW j \in Jobs, LetsGo(w, j), ~At(w, "marking"),
           mails' = mails, excused' = excused, faults' \in 0..MaxFaults
    PROVE  IInv'
<1>0. Shape /\ TypeOK
  BY DEF IInv, Shape
<1>1. Shape'
  BY <1>0, LetsGoIsOK DEF TypeOK
<1>2. ASSUME NEW o \in Orders PROVE MailsOfMarks(o)' /\ MailsOfJobs(o)'
  <2>1. /\ Marking(o)' \subseteq Marking(o) /\ Unlocked(o)' \subseteq Unlocked(o)
        /\ Spent(o) \subseteq Spent(o)'
    BY <1>0, LetsGoSets
  <2>2. mails[o] \in Nat /\ emitted' = emitted
    BY <1>0 DEF TypeOK, LetsGo
  <2> QED BY <1>0, <1>1, <2>1, <2>2, MarksCount, JobsCount DEF IInv
<1> QED BY <1>1, <1>2 DEF IInv

\* One that cuts an execution off before its mark, or after a mail nobody heard of.
LEMMA ExcusedEnds ==
    ASSUME IInv, NEW w \in Workers, NEW j \in Jobs, LetsGo(w, j), faults' \in 0..MaxFaults,
           excused' = Plus(excused, OrderOf(w)),
           \/ mails' = mails
           \/ mails' = Plus(mails, OrderOf(w)) /\ ~At(w, "marking")
    PROVE  IInv'
<1>0. Shape /\ TypeOK
  BY DEF IInv, Shape
<1>1. PICK x \in Orders : x = OrderOf(w) /\ x = j.order
  BY <1>0, OfAnOrder DEF LetsGo, OrderOf
<1>2. /\ excused' \in [Orders -> Nat] /\ excused'[x] = excused[x] + 1
      /\ \A o \in Orders \ {x} : excused'[o] = excused[o]
  BY <1>0, <1>1, PlusFacts DEF TypeOK
<1>3. /\ mails' \in [Orders -> Nat]
      /\ mails'[x] = mails[x] \/ (mails'[x] = mails[x] + 1 /\ ~At(w, "marking"))
      /\ \A o \in Orders \ {x} : mails'[o] = mails[o]
      /\ mails'[x] \in Nat /\ mails[x] \in Nat
  BY <1>0, <1>1, PlusFacts DEF TypeOK
<1>4. Shape'
  BY <1>0, <1>2, <1>3, LetsGoIsOK
<1>5. ASSUME NEW o \in Orders PROVE MailsOfMarks(o)' /\ MailsOfJobs(o)'
  <2>1. /\ Marking(o)' \subseteq Marking(o) /\ Unlocked(o)' \subseteq Unlocked(o)
        /\ Spent(o) \subseteq Spent(o)' \cup {j}
        /\ ~At(w, "marking") \/ o # x => Spent(o) \subseteq Spent(o)'
    BY <1>0, <1>1, LetsGoSets
  <2>2. emitted' = emitted /\ mails[o] \in Nat /\ mails'[o] \in Nat
    BY <1>0, <1>3 DEF LetsGo, TypeOK
  <2>3. mails'[o] >= mails[o]
    BY <2>2, <1>3
  <2>4. MailsOfMarks(o)'
    BY <1>0, <1>4, <2>1, <2>2, <2>3, MarksCount DEF IInv
  <2>5. MailsOfJobs(o)'
    <3>1. CASE o # x
      BY <3>1, <1>0, <1>2, <1>3, <1>4, <2>1, JobsCount DEF IInv
    <3>2. CASE o = x /\ mails'[x] = mails[x]
      BY <3>2, <1>0, <1>2, <1>4, <2>1, JobsCount DEF IInv
    <3>3. CASE o = x /\ mails'[x] = mails[x] + 1 /\ ~At(w, "marking")
      BY <3>3, <1>0, <1>2, <1>4, <2>1, JobsCount DEF IInv
    <3> QED BY <3>1, <3>2, <3>3, <1>3
  <2> QED BY <2>4, <2>5
<1> QED BY <1>4, <1>5 DEF IInv

LEMMA EndsKeeps ==
    ASSUME IInv, NEW w \in Workers,
           Complete(w) \/ LookOrSendFails(w) \/ SendAnswerLost(w) \/ MarkFails(w) \/ Crash(w)
    PROVE  IInv'
<1>0. Shape /\ TypeOK /\ faults \in 0..MaxFaults /\ MaxFaults \in Nat
  BY NotificationsAssumption DEF IInv, Shape, TypeOK
<1>1. CASE Complete(w)
  <2>1. /\ ~At(w, "marking")
        /\ mails' = mails /\ excused' = excused /\ faults' = faults
    BY <1>1 DEF Complete, At, orders
  <2> QED BY <1>0, <1>1, <2>1, CompleteLetsGo, QuietEnds
<1>2. CASE LookOrSendFails(w)
  <2>1. /\ ~At(w, "marking") /\ ~At(w, "idle") /\ Throw(w)
        /\ UNCHANGED <<paid, sent, emitted, mails, adding, dropped, excused, faults>>
    BY <1>2 DEF LookOrSendFails, At, orders
  <2>2. \E j \in Jobs : LetsGo(w, j)
    BY <1>0, <2>1, ThrowLetsGo
  <2> QED BY <1>0, <2>1, <2>2, QuietEnds
<1>3. CASE SendAnswerLost(w)
  <2>1. /\ ~At(w, "marking") /\ ~At(w, "idle") /\ Throw(w)
        /\ UNCHANGED <<paid, sent, emitted, adding, dropped>>
        /\ mails' = Plus(mails, OrderOf(w)) /\ excused' = Plus(excused, OrderOf(w))
    BY <1>3 DEF SendAnswerLost, At
  <2>2. faults' \in 0..MaxFaults
    BY <1>0, <1>3 DEF SendAnswerLost, Fault
  <2>3. \E j \in Jobs : LetsGo(w, j)
    BY <1>0, <2>1, ThrowLetsGo
  <2> QED BY <2>1, <2>2, <2>3, ExcusedEnds
<1>4. CASE MarkFails(w)
  <2>1. /\ At(w, "marking") /\ ~At(w, "idle") /\ Throw(w)
        /\ UNCHANGED <<paid, sent, emitted, mails, adding, dropped>>
        /\ excused' = Plus(excused, OrderOf(w))
    BY <1>4 DEF MarkFails, Excuse, At, orders
  <2>2. faults' \in 0..MaxFaults
    BY <1>0, <1>4 DEF MarkFails, Fault
  <2>3. \E j \in Jobs : LetsGo(w, j)
    BY <1>0, <2>1, ThrowLetsGo
  <2> QED BY <2>1, <2>2, <2>3, ExcusedEnds
<1>5. CASE Crash(w)
  <2>1. mails' = mails
    BY <1>5 DEF Crash, orders
  <2>2. faults' \in 0..MaxFaults
    BY <1>0, <1>5 DEF Crash, Fault
  <2>3. \E j \in Jobs : LetsGo(w, j)
    BY <1>0, <1>5, CrashLetsGo
  <2>4. CASE At(w, "marking")
    <3>1. excused' = Plus(excused, OrderOf(w))
      BY <1>5, <2>4 DEF Crash, Excuse, At
    <3> QED BY <2>1, <2>2, <2>3, <3>1, ExcusedEnds
  <2>5. CASE ~At(w, "marking")
    <3>1. excused' = excused
      BY <1>5, <2>5 DEF Crash, Excuse, At
    <3> QED BY <2>1, <2>2, <2>3, <2>5, <3>1, QuietEnds
  <2> QED BY <2>4, <2>5
<1> QED BY <1>1, <1>2, <1>3, <1>4, <1>5
-------------------------------------------------------------------------------
(* A lock that is not renewed, and the check for stalled jobs               *)

\* The jobs change in their state and locks only, and only one of them.
Redone(j, new) ==
    /\ new \in JobStates /\ job' = [job EXCEPT ![j] = new]
    /\ job[j].state = "active"
    /\ new.state \in {"active", "waiting", "failed"} /\ new.lock = None
    /\ new.tries = job[j].tries
    /\ UNCHANGED <<paid, sent, emitted, mails, adding, dropped, worker>>

LEMMA RedoneIsOK ==
    ASSUME Shape, NEW j \in Jobs, NEW new, Redone(j, new),
           excused' \in [Orders -> Nat], faults' \in 0..MaxFaults
    PROVE  /\ Shape'
           /\ job'[j].lock = None /\ \A i \in Jobs \ {j} : job'[i] = job[i]
           /\ \A i \in Jobs : job[i].state # "none" => job'[i].state # "none"
<1>0. TypeOK /\ None \notin Workers
  BY NotificationsAssumption DEF Shape
<1>1. job'[j] = new /\ job' \in [Jobs -> JobStates] /\ \A i \in Jobs \ {j} : job'[i] = job[i]
  BY <1>0 DEF TypeOK, Redone
<1>2. \A i \in Jobs : job[i].state # "none" => job'[i].state # "none"
  BY <1>1 DEF Redone
<1>3. ASSUME NEW w \in Workers PROVE WorkerOK(w)'
  <2>1. WorkerOK(w) /\ worker' = worker /\ sent' = sent
    BY DEF Shape, Redone
  <2> QED BY <2>1, <1>2 DEF WorkerOK, At, JobOf, OrderOf
<1>4. ASSUME NEW i \in Jobs PROVE JobOK(i)'
  <2>1. JobOK(i) /\ JobOK(j) /\ worker' = worker /\ sent' = sent /\ paid' = paid
    BY DEF Shape, Redone
  <2>2. CASE i = j
    BY <2>1, <2>2, <1>0, <1>1 DEF Redone, JobOK
  <2>3. CASE i # j
    BY <2>1, <2>3, <1>1 DEF JobOK, At, JobOf
  <2> QED BY <2>2, <2>3
<1>5. TypeOK'
  BY <1>0, <1>1 DEF TypeOK, Redone
<1>6. \A o \in Orders : Marked(o)'
  BY DEF Shape, Marked, Redone
<1> QED BY <1>1, <1>2, <1>3, <1>4, <1>5, <1>6 DEF Shape, Redone

LEMMA LoseLockKeeps == ASSUME IInv, NEW w \in Workers, LoseLock(w) PROVE IInv'
<1>0. Shape /\ TypeOK /\ ~At(w, "idle") /\ Locked(w) /\ None \notin Workers
  BY NotificationsAssumption DEF IInv, Shape, LoseLock
<1>1. PICK j \in Jobs : j = JobOf(w) /\ j.order = OrderOf(w) /\ OrderOf(w) \in Orders /\ JobOK(j)
  BY <1>0, OfAnOrder DEF Shape, OrderOf
<1> DEFINE new == [job[j] EXCEPT !.lock = None]
<1>2. Redone(j, new)
  <2>1. job[j].state = "active"
    BY <1>0, <1>1 DEF JobOK, Locked
  <2>2. new \in JobStates
    BY <1>0 DEF TypeOK, JobStates
  <2>3. job[j] \in JobStates
    BY <1>0 DEF TypeOK
  <2>4. new.state = job[j].state /\ new.tries = job[j].tries /\ new.lock = None
    BY <2>3 DEF JobStates
  <2>5. job' = [job EXCEPT ![j] = new]
    BY <1>0, <1>1 DEF LoseLock, TypeOK
  <2> HIDE DEF new
  <2> QED BY <2>1, <2>2, <2>4, <2>5 DEF Redone, LoseLock, orders
<1> HIDE DEF new
<1>3. /\ faults' \in 0..MaxFaults
      /\ excused' = IF worker[w].pc \in {"looking", "sending", "marking"}
                    THEN Plus(excused, OrderOf(w)) ELSE excused
      /\ UNCHANGED <<sent, emitted, mails, worker>>
  <2>1. faults \in 0..MaxFaults /\ MaxFaults \in Nat
    BY <1>0, NotificationsAssumption DEF TypeOK
  <2> QED BY <2>1 DEF LoseLock, Fault, Excuse, orders
<1> DEFINE x == OrderOf(w)
<1>4. /\ excused' \in [Orders -> Nat]
      /\ \A o \in Orders \ {x} : excused'[o] = excused[o]
      /\ excused'[x] = IF worker[w].pc \in {"looking", "sending", "marking"}
                       THEN excused[x] + 1 ELSE excused[x]
  BY <1>0, <1>1, <1>3, PlusFacts DEF TypeOK
<1>5. /\ Shape'
      /\ job'[j].lock = None /\ \A i \in Jobs \ {j} : job'[i] = job[i]
      /\ \A i \in Jobs : job[i].state # "none" => job'[i].state # "none"
  BY <1>0, <1>2, <1>3, <1>4, RedoneIsOK
<1>6. \A v \in Workers \ {w} : ~At(v, "idle") => Locked(v)' = Locked(v)
  <2> SUFFICES ASSUME NEW v \in Workers \ {w}, ~At(v, "idle") PROVE Locked(v)' = Locked(v)
    OBVIOUS
  <2>1. JobOf(v) \in Jobs
    BY <1>0, OfAnOrder
  <2>2. job[j].lock # v
    BY <1>0, <1>1 DEF Locked
  <2>3. worker'[v] = worker[v]
    BY <1>3
  <2>4. job'[JobOf(v)].lock = v <=> job[JobOf(v)].lock = v
    BY <2>1, <2>2, <1>0, <1>5
  <2> QED BY <2>3, <2>4 DEF Locked, JobOf
<1>7. ASSUME NEW o \in Orders PROVE MailsOfMarks(o)' /\ MailsOfJobs(o)'
  <2>0. mails[o] \in Nat /\ mails' = mails /\ emitted' = emitted
    BY <1>0, <1>3 DEF TypeOK
  <2>1. Marking(o)' \subseteq Marking(o)
    BY <1>3 DEF Marking, At, OrderOf, JobOf
  <2>2. Unlocked(o)' \subseteq Unlocked(o) \cup {w}
    BY <1>3, <1>6 DEF Unlocked, At, OrderOf, JobOf
  <2>3. o # x \/ worker[w].pc \notin {"looking", "sending"} => Unlocked(o)' \subseteq Unlocked(o)
    BY <2>2, <1>3 DEF Unlocked, At, OrderOf, JobOf
  <2>4. \A i \in Jobs : Holds(i, "sending")' => Holds(i, "sending")
    BY <1>0, <1>3, <1>5 DEF Holds, At
  <2>5. \A i \in Jobs \ {j} : Holds(i, "marking") => Holds(i, "marking")'
    BY <1>3, <1>5 DEF Holds, At
  <2>6. worker[w].pc # "marking" => ~Holds(j, "marking")
    BY <1>0, <1>1 DEF Holds, At, Locked
  <2>7. Spent(o) \subseteq Spent(o)' \cup {j}
    BY <2>4, <2>5, <1>3, <1>5 DEF Spent, AddedJobs
  <2>8. o # x \/ worker[w].pc # "marking" => Spent(o) \subseteq Spent(o)'
    <3>1. o # x => j \notin Spent(o)
      BY <1>1 DEF Spent, AddedJobs
    <3>2. worker[w].pc # "marking" => \A i \in Jobs : Holds(i, "marking") => Holds(i, "marking")'
      BY <2>5, <2>6
    <3> QED BY <2>4, <2>7, <3>1, <3>2, <1>3, <1>5 DEF Spent, AddedJobs
  <2>9. MailsOfMarks(o)'
    BY <1>0, <1>5, <2>0, <2>1, MarksCount DEF IInv
  <2>10. MailsOfJobs(o)'
    <3>1. CASE o # x \/ worker[w].pc \notin {"looking", "sending", "marking"}
      <4>1. excused'[o] = excused[o] /\ Unlocked(o)' \subseteq Unlocked(o) /\ Spent(o) \subseteq Spent(o)'
        BY <3>1, <1>4, <2>3, <2>8
      <4> QED BY <4>1, <1>0, <1>5, <2>0, JobsCount DEF IInv
    <3>2. CASE o = x /\ worker[w].pc \in {"looking", "sending"}
      <4>1. excused'[o] = excused[o] + 1 /\ Spent(o) \subseteq Spent(o)'
        BY <3>2, <1>4, <2>8
      <4> QED BY <4>1, <1>0, <1>5, <2>0, <2>2, JobsCount DEF IInv
    <3>3. CASE o = x /\ worker[w].pc = "marking"
      <4>1. excused'[o] = excused[o] + 1 /\ Unlocked(o)' \subseteq Unlocked(o)
        BY <3>3, <1>4, <2>3
      <4> QED BY <4>1, <1>0, <1>5, <2>0, <2>7, JobsCount DEF IInv
    <3> QED BY <3>1, <3>2, <3>3
  <2> QED BY <2>9, <2>10
<1> QED BY <1>5, <1>7 DEF IInv

LEMMA StalledKeeps == ASSUME IInv, NEW j \in Jobs, Stalled(j) PROVE IInv'
<1>0. Shape /\ TypeOK /\ job[j] \in JobStates /\ None \notin Workers
  BY NotificationsAssumption DEF IInv, Shape, TypeOK
<1>1. /\ job[j].state = "active" /\ job[j].lock = None
      /\ UNCHANGED <<paid, sent, emitted, mails, adding, dropped, worker, excused, faults>>
  BY DEF Stalled, orders
<1>2. \E new \in JobStates : Redone(j, new)
  <2>1. CASE job[j].stalls < MaxStalls
    <3> DEFINE stalls == job[j].stalls + 1
               new == [job[j] EXCEPT !.state = "waiting", !.stalls = stalls]
    <3>1. job' = [job EXCEPT ![j] = new]
      BY <2>1, <1>0 DEF Stalled, TypeOK
    <3>2. stalls \in 0..MaxStalls
      BY <2>1, <1>0, NotificationsAssumption DEF JobStates
    <3> HIDE DEF stalls
    <3>3. new \in JobStates /\ new.state = "waiting" /\ new.lock = None /\ new.tries = job[j].tries
      BY <3>2, <1>0, <1>1 DEF JobStates
    <3> HIDE DEF new
    <3> QED BY <3>1, <3>3, <1>1 DEF Redone
  <2>2. CASE ~(job[j].stalls < MaxStalls)
    <3> DEFINE new == [job[j] EXCEPT !.state = "failed"]
    <3>1. job' = [job EXCEPT ![j] = new]
      BY <2>2, <1>0 DEF Stalled, TypeOK
    <3>2. new \in JobStates /\ new.state = "failed" /\ new.lock = None /\ new.tries = job[j].tries
      BY <1>0, <1>1 DEF JobStates
    <3> HIDE DEF new
    <3> QED BY <3>1, <3>2, <1>1 DEF Redone
  <2> QED BY <2>1, <2>2
<1>3. /\ Shape'
      /\ job'[j].lock = None /\ \A i \in Jobs \ {j} : job'[i] = job[i]
      /\ \A i \in Jobs : job[i].state # "none" => job'[i].state # "none"
  BY <1>0, <1>1, <1>2, RedoneIsOK DEF TypeOK
<1>4. \A i \in Jobs : job'[i].lock = job[i].lock
  BY <1>1, <1>3
<1>5. ASSUME NEW o \in Orders PROVE MailsOfMarks(o)' /\ MailsOfJobs(o)'
  <2>1. Marking(o)' \subseteq Marking(o)
    BY <1>1 DEF Marking, At, OrderOf, JobOf
  <2>2. Unlocked(o)' \subseteq Unlocked(o)
    <3>1. \A v \in Workers : ~At(v, "idle") => JobOf(v) \in Jobs
      BY <1>0, OfAnOrder
    <3> QED BY <3>1, <1>1, <1>4 DEF Unlocked, At, OrderOf, JobOf, Locked
  <2>3. Spent(o) \subseteq Spent(o)'
    BY <1>1, <1>3, <1>4 DEF Spent, AddedJobs, Holds, At
  <2>4. mails[o] \in Nat
    BY <1>0 DEF TypeOK
  <2> QED BY <1>0, <1>1, <1>3, <2>1, <2>2, <2>3, <2>4, MarksCount, JobsCount DEF IInv
<1> QED BY <1>3, <1>5 DEF IInv
-------------------------------------------------------------------------------
(* The theorems                                                             *)

LEMMA InitEstablishes == Init => IInv
<1> SUFFICES ASSUME Init PROVE IInv
  OBVIOUS
<1>0. None \notin Workers /\ Attempts \in Nat \ {0} /\ MaxStalls \in Nat /\ MaxFaults \in Nat
  BY NotificationsAssumption
<1>1. /\ \A w \in Workers : At(w, "idle")
      /\ \A j \in Jobs : job[j].state = "none" /\ job[j].tries = 0 /\ job[j].lock = None
      /\ \A o \in Orders : mails[o] = 0 /\ emitted[o] = 0 /\ excused[o] = 0
      /\ sent = {} /\ adding = {}
  BY DEF Init, At, Idle, NoJob, Zero
<1>2. TypeOK
  BY <1>0 DEF Init, TypeOK, JobStates, WorkerStates, NoJob, Idle, Zero
<1>3. Shape
  BY <1>0, <1>1, <1>2 DEF Shape, WorkerOK, JobOK, Marked
<1>4. ASSUME NEW o \in Orders PROVE MailsOfMarks(o) /\ MailsOfJobs(o)
  <2>1. Marking(o) = {} /\ Unlocked(o) = {} /\ Spent(o) = {}
    BY <1>1 DEF Marking, Unlocked, At, Spent, AddedJobs
  <2>2. Cardinality(Marking(o)) = 0 /\ Cardinality(Unlocked(o)) = 0 /\ Cardinality(Spent(o)) = 0
    BY <2>1, FS_EmptySet
  <2> QED BY <1>1, <2>2 DEF MailsOfMarks, MailsOfJobs
<1> QED BY <1>3, <1>4 DEF IInv

LEMMA StutterKeeps == ASSUME IInv, UNCHANGED vars PROVE IInv'
<1>1. UNCHANGED <<paid, sent, emitted, mails, adding, dropped, job, worker, excused, faults>>
  BY DEF vars, orders
<1>2. Shape'
  BY <1>1 DEF IInv, Shape, TypeOK, WorkerOK, JobOK, Marked, At, JobOf, OrderOf
<1>3. ASSUME NEW o \in Orders PROVE MailsOfMarks(o)' /\ MailsOfJobs(o)'
  <2>1. Marking(o)' = Marking(o) /\ Unlocked(o)' = Unlocked(o) /\ Spent(o)' = Spent(o)
    BY <1>1 DEF Marking, Unlocked, Spent, AddedJobs, Holds, At, OrderOf, JobOf, Locked
  <2>2. mails[o] \in Nat
    BY DEF IInv, Shape, TypeOK
  <2> QED BY <1>1, <1>2, <2>1, <2>2, MarksCount, JobsCount DEF IInv
<1> QED BY <1>2, <1>3 DEF IInv

LEMMA NextKeeps == IInv /\ [Next]_vars => IInv'
<1> SUFFICES ASSUME IInv, [Next]_vars PROVE IInv'
  OBVIOUS
<1>1. CASE \E o \in Orders : \/ Confirm(o) \/ WebhookPaid(o) \/ ConfirmEnqueue(o) \/ ConfirmDrop(o)
                             \/ \E n \in 1..MaxResends : Resend(o, n)
  BY <1>1, ApiKinds, ApiKeeps DEF IInv
<1>2. ASSUME NEW w \in Workers,
             (\E j \in Jobs : Take(w, j)) \/ WorkerStep(w) \/ Crash(w) \/ LoseLock(w)
      PROVE  IInv'
  BY <1>2, TakeKeeps, LookKeeps, SendKeeps, MarkKeeps, EndsKeeps, LoseLockKeeps DEF WorkerStep
<1>3. ASSUME NEW j \in Jobs, Stalled(j) PROVE IInv'
  BY <1>3, StalledKeeps
<1>4. CASE UNCHANGED vars
  BY <1>4, StutterKeeps
<1> QED BY <1>1, <1>2, <1>3, <1>4 DEF Next

\* The queue, its workers and the marks agree at all times, and every mail of an order
\* is paid for: by a job that used its one mail, or by an execution that was cut off
\* (notificationsWorker.ts:30-93).
THEOREM InvariantHolds == Spec => []IInv
<1> QED BY InitEstablishes, NextKeeps, PTL DEF Spec

\* The variables keep their types, whatever is tried, lost and stalled how often
\* (queue.ts:8-14).
THEOREM TypeCorrect == Spec => []TypeOK
<1>1. IInv => TypeOK
  BY DEF IInv, Shape
<1> QED BY <1>1, InvariantHolds, PTL

\* A confirmation's job that completed has marked the order's mail
\* (notificationsWorker.ts:46-93).
THEOREM CompletedIsSent == Spec => []CompletedMeansSent
<1>1. IInv => CompletedMeansSent
  <2> SUFFICES ASSUME IInv, NEW o \in Orders, job[auto(o)].state = "completed"
               PROVE  o \in sent
    BY DEF CompletedMeansSent
  <2>1. auto(o) \in Jobs /\ auto(o).n = 0 /\ auto(o).order = o
    BY NotificationsAssumption DEF auto, Jobs
  <2> QED BY <2>1 DEF IInv, Shape, JobOK
<1> QED BY <1>1, InvariantHolds, PTL

\* What is marked was mailed, once for each of its events at least
\* (notificationsWorker.ts:60-93).
THEOREM MarkedIsMailed == Spec => []MarkedMeansMailed
<1>1. IInv => MarkedMeansMailed
  <2> SUFFICES ASSUME IInv, NEW o \in Orders
               PROVE  (o \in sent <=> emitted[o] > 0) /\ emitted[o] <= mails[o]
    BY DEF MarkedMeansMailed
  <2>1. Marked(o) /\ MailsOfMarks(o) /\ emitted[o] \in Nat /\ mails[o] \in Nat
    BY DEF IInv, Shape, TypeOK
  <2>2. Cardinality(Marking(o)) \in Nat
    BY WorkersAreFinite
  <2> QED BY <2>1, <2>2 DEF Marked, MailsOfMarks
<1> QED BY <1>1, InvariantHolds, PTL

\* An order is mailed once for each of its jobs at most, but for the executions that
\* were cut off between their look and their mark (notificationsWorker.ts:46-76).
THEOREM MailsOncePerJob == Spec => []OneMailPerJob
<1>1. IInv => OneMailPerJob
  <2> SUFFICES ASSUME IInv, NEW o \in Orders
               PROVE  mails[o] <= Cardinality(AddedJobs(o)) + excused[o]
    BY DEF OneMailPerJob
  <2>1. MailsOfJobs(o) /\ mails[o] \in Nat /\ excused[o] \in Nat
    BY DEF IInv, Shape, TypeOK
  <2>2. Cardinality(Unlocked(o)) \in Nat
    BY WorkersAreFinite
  <2>3. /\ Cardinality(Spent(o)) <= Cardinality(AddedJobs(o))
        /\ Cardinality(Spent(o)) \in Nat /\ Cardinality(AddedJobs(o)) \in Nat
    BY SpentIsFinite
  <2> QED BY <2>1, <2>2, <2>3 DEF MailsOfJobs
<1> QED BY <1>1, InvariantHolds, PTL
===============================================================================
