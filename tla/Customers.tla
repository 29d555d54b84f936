------------------------------- MODULE Customers -------------------------------
(****************************************************************************)
(* CustomersService for one user: the profile that the first access         *)
(* creates, and the saved addresses with their default.                     *)
(****************************************************************************)
EXTENDS Requests, Naturals, FiniteSets

CONSTANTS
    NumAddresses,   \* bound: the addresses that are saved
    NoAddress

Addresses == 1 .. NumAddresses

ASSUME CustomersAssumption == NumAddresses \in Nat /\ NoAddress \notin Addresses

VARIABLES
    profile,        \* the user has a row in customers
    address,        \* addresses
    chosen          \* the address the user was last told is the default

customerVars == <<profile, address, chosen>>

NotSavedYet == [isDefault |-> FALSE]
Address == [isDefault : BOOLEAN, deleted : BOOLEAN]

CustomerCalls ==
         [op : {"createProfile"}]
    \cup [op : {"saveAddress"}, isDefault : BOOLEAN]
    \cup [op : {"change", "setAddress"}, address : Addresses, isDefault : BOOLEAN]
    \cup [op : {"delete"}, address : Addresses]

CustomersTypeOK ==
    /\ profile \in BOOLEAN
    /\ address \in [Addresses -> {NotSavedYet} \cup Address]
    /\ chosen \in Addresses \cup {NoAddress}

CustomersInit ==
    /\ profile = FALSE
    /\ address = [a \in Addresses |-> NotSavedYet]
    /\ chosen = NoAddress

Present == {a \in Addresses : address[a] # NotSavedYet /\ ~ address[a].deleted}

--------------------------------------------------------------------------------
(* The profile.                                                             *)

FindByUserId(w) ==
    /\ MayStart(w)
    /\ ~ profile
    /\ Continue(w, [op |-> "createProfile"])
    /\ UNCHANGED customerVars

\* user_id is unique: the second of two first accesses fails.
CreateProfile(w) ==
    /\ call[w].op = "createProfile"
    /\ profile' = TRUE
    /\ Finish(w)
    /\ UNCHANGED <<address, chosen>>

--------------------------------------------------------------------------------
(* Addresses.                                                               *)

\* UPDATE addresses SET is_default = false WHERE user_id.
Undefaulted == [a \in Addresses |-> [address[a] EXCEPT !.isDefault = FALSE]]

\* An address that is to be the default first takes that from the others.
AddAddress(w, isDefault) ==
    /\ MayStart(w)
    /\ address' = IF isDefault THEN Undefaulted ELSE address
    /\ Continue(w, [op |-> "saveAddress", isDefault |-> isDefault])
    /\ UNCHANGED <<profile, chosen>>

\* Bug: the default of the new address is lost.
AddAddressSavePlain(w) ==
    /\ call[w].op = "saveAddress"
    /\ \E a \in Addresses :
          /\ \A b \in Addresses : address[b] = NotSavedYet <=> b >= a
          /\ address' = [address EXCEPT ![a] = [isDefault |-> FALSE, deleted |-> FALSE]]
          /\ chosen' = IF call[w].isDefault THEN a ELSE chosen
    /\ Finish(w)
    /\ UNCHANGED profile

AddAddressSave(w) ==
    /\ call[w].op = "saveAddress"
    /\ \E a \in Addresses :
          /\ \A b \in Addresses : address[b] = NotSavedYet <=> b >= a
          /\ address' = [address EXCEPT ![a] =
                            [isDefault |-> call[w].isDefault, deleted |-> FALSE]]
          /\ chosen' = IF call[w].isDefault THEN a ELSE chosen
    /\ Finish(w)
    /\ UNCHANGED profile

\* findOne; a softly deleted address is not found.
UpdateAddress(w, a, isDefault) ==
    /\ MayStart(w)
    /\ a \in Present
    /\ Continue(w, [op |-> "change", address |-> a, isDefault |-> isDefault])
    /\ UNCHANGED customerVars

\* Bug: the other addresses keep their mark.
ClearNothing(w) ==
    /\ call[w].op = "change"
    /\ Continue(w, [call[w] EXCEPT !.op = "setAddress"])
    /\ UNCHANGED customerVars

UpdateAddressClear(w) ==
    /\ call[w].op = "change"
    /\ address' = IF call[w].isDefault THEN Undefaulted ELSE address
    /\ Continue(w, [call[w] EXCEPT !.op = "setAddress"])
    /\ UNCHANGED <<profile, chosen>>

\* UPDATE WHERE id, deleted meanwhile or not.
UpdateAddressSet(w) ==
    LET a == call[w].address
    IN  /\ call[w].op = "setAddress"
        /\ address' = [address EXCEPT ![a].isDefault = call[w].isDefault]
        /\ chosen' = IF call[w].isDefault THEN a
                     ELSE IF chosen = a THEN NoAddress ELSE chosen
        /\ Finish(w)
        /\ UNCHANGED profile

DeleteAddress(w, a) ==
    /\ MayStart(w)
    /\ a \in Present
    /\ Continue(w, [op |-> "delete", address |-> a])
    /\ UNCHANGED customerVars

SoftDelete(w) ==
    LET a == call[w].address
    IN  /\ call[w].op = "delete"
        /\ address' = [address EXCEPT ![a].deleted = TRUE]
        /\ chosen' = IF chosen = a THEN NoAddress ELSE chosen
        /\ Finish(w)
        /\ UNCHANGED profile

--------------------------------------------------------------------------------
CustomersNext ==
    \E w \in Slots :
        \/ FindByUserId(w) \/ CreateProfile(w)
        \/ \E isDefault \in BOOLEAN :
              \/ AddAddress(w, isDefault)
              \/ \E a \in Addresses : UpdateAddress(w, a, isDefault)
        \/ AddAddressSave(w) \/ UpdateAddressClear(w) \/ UpdateAddressSet(w)
        \/ \E a \in Addresses : DeleteAddress(w, a)
        \/ SoftDelete(w)
        \/ Crash(w) /\ UNCHANGED customerVars

--------------------------------------------------------------------------------
(* Properties.                                                              *)

Defaults == {a \in Present : address[a].isDefault}

\* An order goes to one default address.  Two requests that interleave leave two;
\* one that is cut short leaves none.
SerialOneDefault == serial => Cardinality(Defaults) <= 1

\* The default is the address the user chose last, until it is deleted.
CalmDefaultIsChosen ==
    calm /\ AtRest => Defaults = (IF chosen = NoAddress THEN {} ELSE {chosen})
================================================================================
