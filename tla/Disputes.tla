------------------------------- MODULE Disputes -------------------------------
(****************************************************************************)
(* DisputesService for one dispute and ReviewsService for one order and     *)
(* reviewer.  No status is looked at before it is replaced.                 *)
(****************************************************************************)
EXTENDS Requests, Naturals

CONSTANTS
    Admins,
    NoAdmin,
    MaxRatings      \* bound: reviews that are sent

ASSUME DisputesAssumption == NoAdmin \notin Admins /\ MaxRatings \in Nat \ {0}

VARIABLES
    dispute,        \* disputes
    told,           \* statuses the event dispute.resolved has carried
    reviews,        \* rows for the order and the reviewer
    thanked         \* reviewers who were answered that theirs was stored

disputeVars == <<dispute, told, reviews, thanked>>

\* The rest of the enum is never written.
DisputeStatus == {"OPEN", "UNDER_REVIEW", "RESOLVED"}

NoDispute == [status |-> "absent"]
Dispute == [status : DisputeStatus, assignedAdmin : Admins \cup {NoAdmin}]

DisputeCalls == [op : {"resolved", "review"}]

DisputesTypeOK ==
    /\ dispute \in {NoDispute} \cup Dispute
    /\ told \in SUBSET DisputeStatus
    /\ reviews \in 0 .. MaxRatings
    /\ thanked \in 0 .. MaxRatings

DisputesInit == dispute = NoDispute /\ told = {} /\ reviews = 0 /\ thanked = 0

Opened == dispute # NoDispute

\* One write and its answer.
DisputeWrite(row) ==
    /\ dispute' = row
    /\ serial => AtRest
    /\ NoRequest
    /\ UNCHANGED <<told, reviews, thanked>>

OpenDispute ==
    /\ ~ Opened
    /\ DisputeWrite([status |-> "OPEN", assignedAdmin |-> NoAdmin])

\* Also of a dispute that is resolved.
AssignAdmin(a) ==
    /\ Opened
    /\ DisputeWrite([status |-> "UNDER_REVIEW", assignedAdmin |-> a])

\* Bug: the dispute is read for the event before it is written.
ResolveTellFirst(w) ==
    /\ MayStart(w)
    /\ Opened
    /\ told' = told \cup {dispute.status}
    /\ dispute' = [dispute EXCEPT !.status = "RESOLVED"]
    /\ Continue(w, [op |-> "resolved"])
    /\ UNCHANGED <<reviews, thanked>>

Resolve(w) ==
    /\ MayStart(w)
    /\ Opened
    /\ dispute' = [dispute EXCEPT !.status = "RESOLVED"]
    /\ Continue(w, [op |-> "resolved"])
    /\ UNCHANGED <<told, reviews, thanked>>

\* The event carries the dispute as it is read back.
ResolveTell(w) ==
    /\ call[w].op = "resolved"
    /\ told' = told \cup {dispute.status}
    /\ Finish(w)
    /\ UNCHANGED <<dispute, reviews, thanked>>

Review(w) ==
    /\ MayStart(w)
    /\ reviews = 0
    /\ Continue(w, [op |-> "review"])
    /\ UNCHANGED disputeVars

\* (orderId, reviewerId) is unique, so a second row fails.
ReviewSave(w) ==
    /\ call[w].op = "review"
    /\ IF reviews = 0 THEN reviews' = 1 /\ thanked' = thanked + 1
                      ELSE UNCHANGED <<reviews, thanked>>
    /\ Finish(w)
    /\ UNCHANGED <<dispute, told>>

DisputesNext ==
    \/ OpenDispute
    \/ \E a \in Admins : AssignAdmin(a)
    \/ \E w \in Slots :
          \/ Resolve(w) \/ ResolveTell(w) \/ Review(w) \/ ReviewSave(w)
          \/ Crash(w) /\ UNCHANGED disputeVars

--------------------------------------------------------------------------------
(* Properties.                                                              *)

\* dispute.resolved tells of a dispute that is resolved, unless an assignment came
\* between the write and the reading back.
SerialResolutionTold == serial => told \subseteq {"RESOLVED"}
================================================================================
