----------------------------- MODULE StationStaff -----------------------------
(****************************************************************************)
(* The staff links of StationsService: which station the console of a user  *)
(* shows.  since stands for created_at.                                     *)
(****************************************************************************)
EXTENDS Requests, Naturals, FiniteSets

CONSTANTS
    Staff,          \* users who work at stations
    Posts,          \* the stations they may work at
    NoPost

ASSUME StationStaffAssumption == NoPost \notin Posts

VARIABLES
    link,           \* gas_station_staff
    posted          \* the stations the admin gave a user and did not take away since

staffVars == <<link, posted>>

NoLink == [isActive |-> FALSE]
GasStationStaff == [isActive : BOOLEAN, since : Nat]

StaffCalls == [op : {"link", "relink", "unlink"}, user : Staff, station : Posts]

StaffTypeOK ==
    /\ link \in [Staff \X Posts -> {NoLink} \cup GasStationStaff]
    /\ posted \in [Staff -> SUBSET Posts]

StaffInit ==
    /\ link = [x \in Staff \X Posts |-> NoLink]
    /\ posted = [u \in Staff |-> {}]

LinkTo(u, s) == link[<<u, s>>]
NextSince == Cardinality({x \in Staff \X Posts : link[x] # NoLink})

\* A link that is inactive is revived, an active one is a conflict.
AssignStaff(w, u, s) ==
    /\ MayStart(w)
    /\ ~ LinkTo(u, s).isActive
    /\ Continue(w, [op |-> IF LinkTo(u, s) = NoLink THEN "link" ELSE "relink",
                    user |-> u, station |-> s])
    /\ UNCHANGED staffVars

SaveLink(w, row) ==
    LET u == call[w].user
        s == call[w].station
    IN  /\ link' = [link EXCEPT ![<<u, s>>] = row]
        /\ posted' = [posted EXCEPT ![u] = IF call[w].op = "unlink" THEN @ \ {s} ELSE @ \cup {s}]
        /\ Finish(w)

\* (userId, stationId) is unique.
AssignSave(w) ==
    /\ call[w].op = "link"
    /\ IF LinkTo(call[w].user, call[w].station) # NoLink
       THEN Finish(w) /\ UNCHANGED staffVars
       ELSE SaveLink(w, [isActive |-> TRUE, since |-> NextSince])

Revive(w) ==
    /\ call[w].op = "relink"
    /\ SaveLink(w, [LinkTo(call[w].user, call[w].station) EXCEPT !.isActive = TRUE])

RemoveStaff(w, u, s) ==
    /\ MayStart(w)
    /\ LinkTo(u, s) # NoLink
    /\ Continue(w, [op |-> "unlink", user |-> u, station |-> s])
    /\ UNCHANGED staffVars

RemoveSave(w) ==
    /\ call[w].op = "unlink"
    /\ SaveLink(w, [LinkTo(call[w].user, call[w].station) EXCEPT !.isActive = FALSE])

\* Bug: links that were ended count.
AssignedEver(u) == {s \in Posts : LinkTo(u, s) # NoLink}

Assigned(u) == {s \in Posts : LinkTo(u, s).isActive}

\* resolveStationForUser: the newest of them.
Resolved(u) ==
    IF Assigned(u) = {} THEN NoPost
    ELSE CHOOSE s \in Assigned(u) : \A t \in Assigned(u) : LinkTo(u, t).since <= LinkTo(u, s).since

--------------------------------------------------------------------------------
StaffNext ==
    \E w \in Slots :
        \/ \E u \in Staff, s \in Posts : AssignStaff(w, u, s) \/ RemoveStaff(w, u, s)
        \/ AssignSave(w) \/ Revive(w) \/ RemoveSave(w)
        \/ Crash(w) /\ UNCHANGED staffVars

--------------------------------------------------------------------------------
(* Properties.                                                              *)

\* A console shows a station if and only if the admin gave its user one and did
\* not take it away since: a user of one station sees that one, whatever links
\* were ended and revived before, and a user of several sees one of them.  Which
\* one nobody promises: the newest link wins, and a revived one keeps its date.
CalmScopeFollowsAdmin ==
    calm /\ AtRest =>
        \A u \in Staff :
            IF posted[u] = {} THEN Resolved(u) = NoPost ELSE Resolved(u) \in posted[u]
================================================================================
