------------------------------ MODULE LatePayment ------------------------------
(***************************************************************************)
(* POST /late-payment-cases/:id/resolve: reviewers who move a case, each   *)
(* with the version of the case it read; the update, the event and the     *)
(* order's flag are one transaction.  Nothing in the repository creates a  *)
(* case: they are there from the beginning, for orders under review.       *)
(***************************************************************************)
EXTENDS AdminAuthz

CONSTANTS
    Orders,         \* the orders of the cases
    OrderOf,        \* LatePaymentCase.orderId
    AskedActions    \* the outcomes requests ask for

VARIABLES
    case,   \* LatePaymentCase: status and version
    flag,   \* Order.latePaymentReviewRequired
    events  \* LATE_PAYMENT_CASE_RESOLVED: previousStatus and status of each, in order

lateVars == <<case, flag, events>>

Resolutions == {"ACCEPTED", "REJECTED", "REFUND_REQUESTED", "REFUNDED"}
CaseStatus  == {"PENDING"} \cup Resolutions

ASSUME LatePaymentAssumption ==
    /\ OrderOf \in [Cases -> Orders]
    /\ AskedActions \subseteq Resolutions

LateTypeOK ==
    /\ case \in [Cases -> [status : CaseStatus, version : Nat]]
    /\ flag \in [Orders -> BOOLEAN]
    /\ events \in [Cases -> Seq([from : CaseStatus, to : Resolutions])]

LateInit ==
    /\ case = [c \in Cases |-> [status |-> "PENDING", version |-> 0]]
    /\ flag = [o \in Orders |-> TRUE]
    /\ events = [c \in Cases |-> <<>>]

-------------------------------------------------------------------------------
\* The case is read before the permission is checked.
ResolveRead(s, u, c, to) ==
    /\ Begin(s, "resolve", u, c, case[c].status, case[c].version, to)
    /\ UNCHANGED lateVars

allowedTransitions(from) ==
    CASE from = "PENDING"          -> Resolutions
      [] from = "REFUND_REQUESTED" -> {"REFUNDED"}
      [] OTHER                     -> {}

Allowed(s) ==
    /\ hasAdminCapability(ActorOf(s), "resolveLatePayments")
    /\ session[s].to \in allowedTransitions(Was(s))

ResolveCheck(s) ==
    /\ At(s, "resolve")
    /\ IF Allowed(s) THEN GoTo(s, "resolving") ELSE Leave(s)
    /\ UNCHANGED lateVars

BugNoVersion(s) == TRUE

\* The where of the update: the status and the version that were read.
Unmoved(s) == case[TargetOf(s)] = [status |-> Was(s), version |-> session[s].version]

ResolveCommit(s) ==
    LET c == TargetOf(s)  to == session[s].to IN
    /\ At(s, "resolving") /\ Unmoved(s)
    /\ case' = [case EXCEPT ![c] = [status |-> to, version |-> @.version + 1]]
    /\ flag' = [flag EXCEPT ![OrderOf[c]] = FALSE]
    /\ events' = [events EXCEPT ![c] = Append(@, [from |-> Was(s), to |-> to])]
    /\ Leave(s)

\* "LatePaymentCase actualizado por otro operador".
ResolveConflict(s) ==
    /\ At(s, "resolving") /\ ~Unmoved(s)
    /\ Leave(s)
    /\ UNCHANGED lateVars
-------------------------------------------------------------------------------
LateStep(s) ==
    \/ \E u \in Users, c \in Cases, to \in AskedActions : ResolveRead(s, u, c, to)
    \/ ResolveCheck(s) \/ ResolveCommit(s) \/ ResolveConflict(s)
-------------------------------------------------------------------------------
(* Properties                                                               *)

\* However many reviewers read the same case, its events tell one story: each
\* continues where the one before ended, by an allowed transition, and they end in
\* the status of the case; and no order loses its flag without a resolution of one
\* of its cases (server.ts:1123-1208).
EventsTellOneStory ==
    /\ \A c \in Cases :
        /\ Len(events[c]) = case[c].version
        /\ case[c].status = IF events[c] = <<>> THEN "PENDING" ELSE events[c][Len(events[c])].to
        /\ \A n \in 1..Len(events[c]) :
            /\ events[c][n].from = IF n = 1 THEN "PENDING" ELSE events[c][n - 1].to
            /\ events[c][n].from \in {"PENDING", "REFUND_REQUESTED"}
            /\ events[c][n].from = "REFUND_REQUESTED" => events[c][n].to = "REFUNDED"
    /\ \A o \in Orders : ~flag[o] => \E c \in Cases : OrderOf[c] = o /\ events[c] # <<>>
===============================================================================
