------------------------------ MODULE Commission ------------------------------
(****************************************************************************)
(* AdminService.setCommission and what SettlementService finds of its       *)
(* rules.  A scope is a station or Platform (stationId IS NULL); the old    *)
(* rule of a scope is switched off by one statement and the new one         *)
(* inserted by another.                                                     *)
(****************************************************************************)
EXTENDS Requests, Naturals, FiniteSets

CONSTANTS
    Scopes,
    Platform,
    Percents,       \* commission_percent
    NoPercent,      \* nobody has set a commission for the scope
    NumRules        \* bound: the rules that are inserted

ASSUME CommissionAssumption ==
    /\ NumRules \in Nat
    /\ Platform \in Scopes
    /\ NoPercent \notin Percents

VARIABLES
    rule,       \* platform_commissions
    agreed      \* for each scope, the percentage an admin was last told is set

commissionVars == <<rule, agreed>>

Rules == 1 .. NumRules

NoRule == [isActive |-> FALSE]
PlatformCommission == [stationId : Scopes, commissionPercent : Percents, isActive : BOOLEAN]

CommissionCalls == [op : {"commission"}, stationId : Scopes, commissionPercent : Percents]

CommissionTypeOK ==
    /\ rule \in [Rules -> {NoRule} \cup PlatformCommission]
    /\ agreed \in [Scopes -> Percents \cup {NoPercent}]

CommissionInit ==
    /\ rule = [r \in Rules |-> NoRule]
    /\ agreed = [s \in Scopes |-> NoPercent]

ActiveRules(s) == {r \in Rules : rule[r].isActive /\ rule[r].stationId = s}

\* Bug: a NULL scope drops the condition, and the rules of all scopes are replaced.
ReplacedByAnyScope(s) ==
    IF s = Platform THEN {r \in Rules : rule[r].isActive} ELSE ActiveRules(s)

\* Bug: the old rule stays.
ReplacedNothing(s) == {}

\* The rows the UPDATE of setCommission switches off.
Replaced(s) == ActiveRules(s)

SetCommission(w, s, percent) ==
    /\ MayStart(w)
    /\ rule' = [r \in Rules |->
                   IF r \in Replaced(s) THEN [rule[r] EXCEPT !.isActive = FALSE] ELSE rule[r]]
    /\ Continue(w, [op |-> "commission", stationId |-> s, commissionPercent |-> percent])
    /\ UNCHANGED agreed

CommissionSave(w) ==
    /\ call[w].op = "commission"
    /\ \E r \in Rules :
          /\ \A q \in Rules : rule[q] = NoRule <=> q >= r
          /\ rule' = [rule EXCEPT ![r] = [stationId |-> call[w].stationId,
                          commissionPercent |-> call[w].commissionPercent, isActive |-> TRUE]]
    /\ agreed' = [agreed EXCEPT ![call[w].stationId] = call[w].commissionPercent]
    /\ Finish(w)

CommissionNext ==
    \E w \in Slots :
        \/ \E s \in Scopes, percent \in Percents : SetCommission(w, s, percent)
        \/ CommissionSave(w)
        \/ Crash(w) /\ UNCHANGED commissionVars

CommissionSpec ==
    /\ RequestsInit /\ CommissionInit
    /\ [][CommissionNext]_<<world, call, commissionVars>>

--------------------------------------------------------------------------------
(* Properties.                                                              *)

\* What getCommissionPercent may find for a station: its own rule, else the fallback.
\* findOne leaves out a condition that is null, so the fallback is any active rule.
Found(s) ==
    LET any == {r \in Rules : rule[r].isActive}
        own == ActiveRules(s)
    IN  {rule[r].commissionPercent : r \in IF own = {} THEN any ELSE own}

\* "Deactivate the previous rule for the SAME scope".  While requests follow each
\* other, cut short or not, a settlement is never offered two rules of one scope.
SerialOneRule == serial => \A s \in Scopes : Cardinality(ActiveRules(s)) <= 1

\* What the admin was told holds: a settlement finds the percentage last set for
\* its station, whatever was set for other stations or the platform since.
CalmRuleStands ==
    calm /\ AtRest =>
        \A s \in Scopes \ {Platform} : agreed[s] # NoPercent => Found(s) = {agreed[s]}
================================================================================
