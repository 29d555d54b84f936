------------------------------ MODULE MCServices ------------------------------
(****************************************************************************)
(* The services that share nothing but their shape, for TLC: a behaviour    *)
(* exercises one of them, and focus, chosen once among Parts, says which.   *)
(****************************************************************************)
EXTENDS Accounts, Sessions, Commission, Stations, StationStaff, Customers,
        Catalogue, Disputes, Intake, Files, RiderWallet, TLC

CONSTANT Parts

VARIABLE focus

MCOpenings == {[available |-> 0, earned |-> 0], [available |-> 2, earned |-> 5]}

\* Whole, half a unit, half a unit less than nothing, between the units, text.
MCWithdrawals ==
    {[units |-> 1, rest |-> "none", text |-> FALSE], [units |-> 2, rest |-> "none", text |-> FALSE],
     [units |-> 0, rest |-> "half", text |-> FALSE], [units |-> -1, rest |-> "half", text |-> FALSE],
     [units |-> 1, rest |-> "more", text |-> FALSE], [units |-> 1, rest |-> "less", text |-> TRUE]}

OneWallet(row) ==
    \A r \in Riders : wallet[r].availableBalance = row.available /\ wallet[r].totalEarned = row.earned

Init ==
    /\ focus \in Parts
    /\ RequestsInit
    /\ AccountsInit /\ SessionsInit /\ CommissionInit /\ StationsInit /\ StaffInit
    /\ CustomersInit /\ CatalogueInit /\ DisputesInit /\ IntakeInit /\ FilesInit
    /\ WalletInit
    /\ focus = "wallet" => calm
    /\ focus # "wallet" => OneWallet([available |-> 0, earned |-> 0])

\* Only p moves.
Only(p) ==
    /\ focus = p
    /\ UNCHANGED focus
    /\ IF p = "account" THEN TRUE ELSE UNCHANGED accountVars
    /\ IF p = "session" THEN TRUE ELSE UNCHANGED sessionVars
    /\ IF p = "commission" THEN TRUE ELSE UNCHANGED commissionVars
    /\ IF p = "station" THEN TRUE ELSE UNCHANGED stationVars
    /\ IF p = "staff" THEN TRUE ELSE UNCHANGED staffVars
    /\ IF p = "customer" THEN TRUE ELSE UNCHANGED customerVars
    /\ IF p = "catalogue" THEN TRUE ELSE UNCHANGED catalogueVars
    /\ IF p = "dispute" THEN TRUE ELSE UNCHANGED disputeVars
    /\ IF p = "intake" THEN TRUE ELSE UNCHANGED intakeVars
    /\ IF p = "file" THEN TRUE ELSE UNCHANGED fileVars
    /\ IF p = "wallet" THEN TRUE ELSE UNCHANGED walletVars

Next ==
    \/ Only("account") /\ AccountsNext
    \/ Only("session") /\ SessionsNext
    \/ Only("commission") /\ CommissionNext
    \/ Only("station") /\ StationsNext
    \/ Only("staff") /\ StaffNext
    \/ Only("customer") /\ CustomersNext
    \/ Only("catalogue") /\ CatalogueNext
    \/ Only("dispute") /\ DisputesNext
    \/ Only("intake") /\ IntakeNext
    \/ Only("file") /\ FilesNext
    \/ Only("wallet") /\ WalletNext /\ NoRequest

vars == <<focus, world, call, accountVars, sessionVars, commissionVars, stationVars, staffVars,
          customerVars, catalogueVars, disputeVars, intakeVars, fileVars, walletVars>>

Spec == Init /\ [][Next]_vars

TypeOK ==
    /\ focus \in Parts
    /\ world \in Worlds
    /\ call \in [Slots -> AccountCalls \cup SessionCalls \cup CommissionCalls \cup
                     StationCalls \cup StaffCalls \cup CustomerCalls \cup CatalogueCalls \cup
                     DisputeCalls \cup IntakeCalls \cup FileCalls]
    /\ AccountsTypeOK /\ SessionsTypeOK /\ CommissionTypeOK /\ StationsTypeOK /\ StaffTypeOK
    /\ CustomersTypeOK /\ CatalogueTypeOK /\ DisputesTypeOK /\ IntakeTypeOK /\ FilesTypeOK
    /\ WalletTypeOK

--------------------------------------------------------------------------------
(* What the services owe in common.                                         *)

\* Where there is to be one, a request cut short never leaves two: one commission
\* rule of a scope, one default address, one usable code, one token for a token.
SerialOnlyOne == SerialOneRule /\ SerialOneDefault /\ SerialOneCode /\ SerialExchangedOnce

\* What a console or an app was told it had set is what the readers find, until
\* it is set again: commissions, stations of staff, default addresses, prices.
CalmAnswersHold ==
    CalmRuleStands /\ CalmScopeFollowsAdmin /\ CalmDefaultIsChosen /\ CalmPriceIsRecorded

\* Numbers that are counted, not drawn, are right while requests follow each other:
\* station codes and order numbers are free, strikes are the reports.
SerialCountsAreTrue == SerialCodeIsFree /\ SerialNumberIsFree /\ SerialStrikesCounted

\* What others are told of exists: the order of an answer, the object of a file,
\* the resolution an event announces.
ToldIsSo == AnsweredHasOrder /\ RowHasObject /\ SerialResolutionTold

Interchangeable == Permutations(Slots)
================================================================================
