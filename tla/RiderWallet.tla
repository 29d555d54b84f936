------------------------------ MODULE RiderWallet ------------------------------
(****************************************************************************)
(* The wallet half of RidersService: creditWallet and requestWithdrawal,    *)
(* each one transaction around SELECT ... FOR UPDATE, an UPDATE computed    *)
(* from the values read, and the INSERT of a wallet transaction.            *)
(*                                                                          *)
(* The columns are numeric(15, 2), so what they hold is whole minor units.  *)
(* An order's earnings are whole too (toFixed(2)); what a rider asks for is *)
(* not: @Body('amount') has no DTO, and any JSON value reaches the service. *)
(* Such an amount is kept as far as the rounding of the columns tells it    *)
(* apart: the whole units below it, where the rest lies in the unit, and    *)
(* whether it came as text.  A value that is not a number at all fails one  *)
(* of the statements and is rolled back.                                    *)
(*                                                                          *)
(* The UPDATE, the INSERT and the COMMIT become visible together, so they   *)
(* are one step; the locked SELECT is a step of its own, and other requests *)
(* run between the two.                                                     *)
(****************************************************************************)
EXTENDS Integers, Sequences

CONSTANTS
    Riders, Transactions,
    NoTransaction,  \* the row is not locked
    Earnings,       \* what an order brings its rider
    Withdrawals,    \* amounts riders ask for
    Misread,        \* totals that text glued to a total may be read as
    Openings,       \* [available, earned] a wallet may start with
    MaxEntries      \* bound: entries per ledger

ASSUME WalletAssumption ==
    /\ NoTransaction \notin Transactions
    /\ Earnings \subseteq Nat
    /\ Withdrawals \subseteq [units : Int, rest : {"none", "less", "half", "more"}, text : BOOLEAN]
    /\ Misread \subseteq Int
    /\ Openings \subseteq [available : Nat, earned : Nat]
    /\ MaxEntries \in Nat

VARIABLES
    wallet,     \* rider_wallets, by rider_id
    ledger,     \* wallet_transactions of a rider, oldest first
    lock,       \* the transaction holding the wallet's row
    tx          \* what each transaction has read and is about to do

walletVars == <<wallet, ledger, lock, tx>>

WalletRow == [availableBalance : Int, totalEarned : Int, totalWithdrawn : Int]

Entry == [type : {"CREDIT", "DEBIT"}, amount : Int, balanceAfter : Int]

NoTx == [op |-> "idle"]

\* An amount: the whole units below it, where the rest lies, text or number.
Amount == [units : Int, rest : {"none", "less", "half", "more"}, text : BOOLEAN]

Earned(n) == [units |-> n, rest |-> "none", text |-> FALSE]

Credits == {Earned(n) : n \in Earnings}

IsWhole(a) == a.rest = "none"

TxStates == {NoTx} \cup
    [op : {"CREDIT", "DEBIT"}, rider : Riders, amount : Amount, read : WalletRow]

WalletTypeOK ==
    /\ wallet \in [Riders -> WalletRow]
    /\ ledger \in [Riders -> Seq(Entry)]
    /\ lock \in [Riders -> Transactions \cup {NoTransaction}]
    /\ tx \in [Transactions -> TxStates]

WalletInit ==
    /\ \E opening \in [Riders -> Openings] :
          wallet = [r \in Riders |-> [availableBalance |-> opening[r].available,
                                      totalEarned |-> opening[r].earned,
                                      totalWithdrawn |-> 0]]
    /\ ledger = [r \in Riders |-> <<>>]
    /\ lock = [r \in Riders |-> NoTransaction]
    /\ tx = [w \in Transactions |-> NoTx]

--------------------------------------------------------------------------------
\* findOne with lock pessimistic_write: waits for the row, keeps it, reads it.
LockAndRead(w, op, r, amount) ==
    /\ tx[w] = NoTx
    /\ lock[r] = NoTransaction
    /\ Len(ledger[r]) < MaxEntries
    /\ lock' = [lock EXCEPT ![r] = w]
    /\ tx' = [tx EXCEPT ![w] = [op |-> op, rider |-> r, amount |-> amount,
                                    read |-> wallet[r]]]
    /\ UNCHANGED <<wallet, ledger>>

Release(w) ==
    /\ lock' = [lock EXCEPT ![tx[w].rider] = NoTransaction]
    /\ tx' = [tx EXCEPT ![w] = NoTx]

\* numeric(15, 2) rounds an amount to the nearest unit, a half away from zero.
Rounded(a) ==
    IF a.rest = "more" \/ (a.rest = "half" /\ a.units >= 0) THEN a.units + 1 ELSE a.units

\* What a column may hold of a computed value: a float beside a half falls to
\* either side.
Stored(units, rest) ==
    CASE rest = "more" -> {units + 1}
      [] rest = "half" -> {units, units + 1}
      [] OTHER -> {units}

\* balance - amount.
Less(balance, a) ==
    CASE a.rest = "none" -> Stored(balance - a.units, "none")
      [] a.rest = "less" -> Stored(balance - a.units - 1, "more")
      [] a.rest = "half" -> Stored(balance - a.units - 1, "half")
      [] a.rest = "more" -> Stored(balance - a.units - 1, "less")

\* Number(total) + amount: of a text, the digits of both in a row.
Plus(total, a) == IF a.text THEN Misread ELSE Stored(total + a.units, a.rest)

\* balance < amount, text or number.
IsShort(balance, a) == balance < a.units \/ (balance = a.units /\ ~IsWhole(a))

\* Bug: a withdrawal is entered with its sign.
BookSigned(w, row) ==
    LET r == tx[w].rider
        amount == IF tx[w].op = "DEBIT" THEN -Rounded(tx[w].amount) ELSE Rounded(tx[w].amount)
    IN  /\ wallet' = [wallet EXCEPT ![r] = row]
        /\ ledger' = [ledger EXCEPT ![r] = Append(@,
                         [type |-> tx[w].op, amount |-> amount,
                          balanceAfter |-> row.availableBalance])]
        /\ Release(w)

\* UPDATE and INSERT with what the row shall hold, then COMMIT.
Book(w, row) ==
    LET r == tx[w].rider
    IN  /\ wallet' = [wallet EXCEPT ![r] = row]
        /\ ledger' = [ledger EXCEPT ![r] = Append(@,
                         [type |-> tx[w].op, amount |-> Rounded(tx[w].amount),
                          balanceAfter |-> row.availableBalance])]
        /\ Release(w)

\* creditWallet: the row computed from the one read.
Credited(row, a) ==
    [availableBalance |-> row.availableBalance + a.units,
     totalEarned |-> row.totalEarned + a.units,
     totalWithdrawn |-> row.totalWithdrawn]

\* Bug: a withdrawal forgets the total.
WithdrawnUncounted(row, a) ==
    {[availableBalance |-> left, totalEarned |-> row.totalEarned,
      totalWithdrawn |-> row.totalWithdrawn] : left \in Less(row.availableBalance, a)}

\* requestWithdrawal: the rows that may come of the one read.
Withdrawn(row, a) ==
    {[availableBalance |-> left, totalEarned |-> row.totalEarned, totalWithdrawn |-> total] :
         left \in Less(row.availableBalance, a), total \in Plus(row.totalWithdrawn, a)}

Credit(w) ==
    /\ tx[w].op = "CREDIT"
    /\ Book(w, Credited(tx[w].read, tx[w].amount))

\* Bug: the balance is taken to be what was earned and not withdrawn.
WithdrawFromTotals(w) ==
    /\ tx[w].op = "DEBIT"
    /\ ~IsShort(tx[w].read.totalEarned - tx[w].read.totalWithdrawn, tx[w].amount)
    /\ \E row \in Withdrawn(tx[w].read, tx[w].amount) : Book(w, row)

Withdraw(w) ==
    /\ tx[w].op = "DEBIT"
    /\ ~IsShort(tx[w].read.availableBalance, tx[w].amount)
    /\ \E row \in Withdrawn(tx[w].read, tx[w].amount) : Book(w, row)

\* 'Insufficient balance', a failed statement (an amount that is no number, a
\* total that reads as none) or a dead pod: rolled back.
Rollback(w) ==
    /\ tx[w] # NoTx
    /\ Release(w)
    /\ UNCHANGED <<wallet, ledger>>

WalletNext ==
    \E w \in Transactions :
        \/ \E r \in Riders, a \in Credits : LockAndRead(w, "CREDIT", r, a)
        \/ \E r \in Riders, a \in Withdrawals : LockAndRead(w, "DEBIT", r, a)
        \/ Credit(w)
        \/ Withdraw(w)
        \/ Rollback(w)

WalletSpec == WalletInit /\ [][WalletNext]_walletVars

--------------------------------------------------------------------------------
(* Properties.                                                              *)

\* Withdrawals racing on one wallet never overdraw it, whatever amount is asked
\* for, half a unit, text or less than nothing: the balance is checked and
\* written under one row lock, and rounding never takes it below zero.
NoOverdraft == \A r \in Riders : wallet[r].availableBalance >= 0

\* The ledger explains the balance: the last balanceAfter is the balance, a
\* credit's is the previous one plus its amount, and a withdrawal's the previous
\* one minus its amount up to the unit by which the rounding of a half may part
\* the two columns.  A lost update breaks the chain.
LedgerExplainsBalance ==
    \A r \in Riders :
        /\ \A i \in 2 .. Len(ledger[r]) :
              LET before == ledger[r][i - 1].balanceAfter
                  e == ledger[r][i]
              IN  IF e.type = "CREDIT"
                  THEN e.balanceAfter = before + e.amount
                  ELSE e.balanceAfter - (before - e.amount) \in -1 .. 1
        /\ ledger[r] # <<>> =>
              ledger[r][Len(ledger[r])].balanceAfter = wallet[r].availableBalance

Unexplained(r) ==
    wallet[r].totalEarned - wallet[r].totalWithdrawn - wallet[r].availableBalance

\* totalEarned and totalWithdrawn keep step with the balance: a credit, and a
\* withdrawal of a whole amount given as a number, leave their gap what it was,
\* and so does everything that is rolled back.
TotalsKeepStep ==
    [][\A w \in Transactions :
          tx[w] # NoTx /\ tx'[w] = NoTx /\ IsWhole(tx[w].amount) /\ ~tx[w].amount.text =>
              \A r \in Riders : Unexplained(r)' = Unexplained(r)]_walletVars
================================================================================
