--------------------------- MODULE RiderWalletProofs ---------------------------
(****************************************************************************)
(* The wallet is never overdrawn and always explained by its ledger, for    *)
(* any riders, any number of concurrent requests and whatever amount a      *)
(* withdrawal asks for: part of a unit, less than nothing, or text.         *)
(*                                                                          *)
(* The argument: whoever has read a wallet holds its row lock, so what was  *)
(* read is still what the row holds when it is written (ReadIsCurrent).     *)
(****************************************************************************)
EXTENDS RiderWallet, TLAPS

ReadIsCurrent ==
    \A w \in Transactions :
        tx[w] # NoTx =>
            /\ lock[tx[w].rider] = w
            /\ tx[w].read = wallet[tx[w].rider]

\* What an order brings is a whole number of units.
CreditsAreWhole ==
    \A w \in Transactions :
        tx[w] # NoTx /\ tx[w].op = "CREDIT" =>
            IsWhole(tx[w].amount) /\ ~tx[w].amount.text /\ tx[w].amount.units \in Nat

IInv == WalletTypeOK /\ ReadIsCurrent /\ CreditsAreWhole /\ NoOverdraft /\ LedgerExplainsBalance

\* What a request under way holds is typed: it names a rider, and its read
\* is a row.
LEMMA CallFields ==
    ASSUME WalletTypeOK, NEW w \in Transactions, tx[w] # NoTx
    PROVE  /\ tx[w].op \in {"CREDIT", "DEBIT"}
           /\ tx[w].rider \in Riders
           /\ tx[w].amount \in Amount
           /\ tx[w].read \in WalletRow
  BY DEF WalletTypeOK, TxStates

\* The fields of an amount, and what the columns make of it.
LEMMA AmountFields ==
    ASSUME NEW a \in Amount
    PROVE  /\ a.units \in Int
           /\ a.rest \in {"none", "less", "half", "more"}
           /\ a.text \in BOOLEAN
           /\ Rounded(a) \in Int
           /\ Rounded(a) \in {a.units, a.units + 1}
  BY DEF Amount, Rounded

\* What is left of a balance that is not short is not negative, and differs
\* from the balance by the amount booked, give or take the unit of a half.
LEMMA LessIs ==
    ASSUME NEW a \in Amount, NEW b \in Int, NEW left \in Less(b, a)
    PROVE  /\ left \in Int
           /\ left - (b - Rounded(a)) \in -1 .. 1
           /\ IsWhole(a) => left = b - a.units
           /\ ~IsShort(b, a) => left >= 0
  <1> USE AmountFields
  <1>1. CASE a.rest = "none"
    <2>1. left = b - a.units /\ Rounded(a) = a.units
      BY <1>1 DEF Less, Stored, Rounded
    <2> QED
      BY <1>1, <2>1 DEF IsShort, IsWhole
  <1>2. CASE a.rest = "less"
    <2>1. left = b - a.units - 1 + 1 /\ Rounded(a) = a.units
      BY <1>2 DEF Less, Stored, Rounded
    <2> QED
      BY <1>2, <2>1 DEF IsShort, IsWhole
  <1>3. CASE a.rest = "half"
    <2>1. left = b - a.units - 1 \/ left = b - a.units - 1 + 1
      BY <1>3 DEF Less, Stored
    <2> QED
      BY <1>3, <2>1 DEF IsShort, IsWhole
  <1>4. CASE a.rest = "more"
    <2>1. left = b - a.units - 1 /\ Rounded(a) = a.units + 1
      BY <1>4 DEF Less, Stored, Rounded
    <2> QED
      BY <1>4, <2>1 DEF IsShort, IsWhole
  <1> QED
    BY <1>1, <1>2, <1>3, <1>4

\* A total plus an amount is a number, the sum itself if the amount is whole
\* and no text.
LEMMA PlusIs ==
    ASSUME NEW a \in Amount, NEW n \in Int, NEW total \in Plus(n, a)
    PROVE  /\ total \in Int
           /\ (IsWhole(a) /\ ~a.text) => total = n + a.units
  <1> USE AmountFields
  <1>1. CASE a.text
    BY <1>1, WalletAssumption DEF Plus
  <1>2. CASE ~a.text
    <2>1. total \in Stored(n + a.units, a.rest)
      BY <1>2 DEF Plus
    <2> QED
      BY <2>1 DEF Stored, IsWhole
  <1> QED
    BY <1>1, <1>2

\* The rows a withdrawal may leave.
LEMMA WithdrawnIs ==
    ASSUME NEW a \in Amount, NEW read \in WalletRow, NEW row \in Withdrawn(read, a)
    PROVE  /\ row \in WalletRow
           /\ row.availableBalance \in Less(read.availableBalance, a)
           /\ row.totalEarned = read.totalEarned
           /\ row.totalWithdrawn \in Plus(read.totalWithdrawn, a)
  <1>1. PICK left \in Less(read.availableBalance, a), total \in Plus(read.totalWithdrawn, a) :
            row = [availableBalance |-> left, totalEarned |-> read.totalEarned,
                   totalWithdrawn |-> total]
    BY DEF Withdrawn
  <1>2. /\ read.availableBalance \in Int /\ read.totalEarned \in Int
        /\ read.totalWithdrawn \in Int
    BY DEF WalletRow
  <1>3. left \in Int /\ total \in Int
    BY <1>2, LessIs, PlusIs
  <1> QED
    BY <1>1, <1>2, <1>3 DEF WalletRow

\* What a ledger's entry may say of the one before it.
Follows(balance, e) ==
    IF e.type = "CREDIT" THEN e.balanceAfter = balance + e.amount
    ELSE e.balanceAfter - (balance - e.amount) \in -1 .. 1

\* Extending a ledger by an entry that agrees with the balance before it.
LEMMA ChainExtends ==
    ASSUME NEW s \in Seq(Entry), NEW e \in Entry, NEW b \in Int,
           \A i \in 2 .. Len(s) : Follows(s[i - 1].balanceAfter, s[i]),
           s # <<>> => s[Len(s)].balanceAfter = b,
           Follows(b, e)
    PROVE  /\ \A i \in 2 .. Len(Append(s, e)) :
                 Follows(Append(s, e)[i - 1].balanceAfter, Append(s, e)[i])
           /\ Append(s, e) # <<>>
           /\ Append(s, e)[Len(Append(s, e))].balanceAfter = e.balanceAfter
  <1> DEFINE t == Append(s, e)
  <1>1. /\ Len(t) = Len(s) + 1
        /\ Len(s) \in Nat
        /\ \A i \in 1 .. Len(s) : t[i] = s[i]
        /\ t[Len(s) + 1] = e
    OBVIOUS
  <1>2. t # <<>>
    BY <1>1
  <1>3. ASSUME NEW i \in 2 .. Len(t)
        PROVE  Follows(t[i - 1].balanceAfter, t[i])
    <2>1. CASE i \in 2 .. Len(s)
      <3>1. t[i] = s[i] /\ t[i - 1] = s[i - 1]
        BY <1>1, <2>1
      <3> QED
        BY <2>1, <3>1
    <2>2. CASE i = Len(s) + 1
      <3>1. t[i] = e /\ t[i - 1] = s[Len(s)] /\ s # <<>>
        BY <1>1, <1>3, <2>2
      <3> QED
        BY <3>1
    <2> QED
      BY <1>1, <1>3, <2>1, <2>2
  <1> QED
    BY <1>1, <1>2, <1>3

LEMMA InitHolds == WalletInit => IInv
  <1> SUFFICES ASSUME WalletInit PROVE IInv
    OBVIOUS
  <1> PICK opening \in [Riders -> Openings] :
           wallet = [r \in Riders |-> [availableBalance |-> opening[r].available,
                                       totalEarned |-> opening[r].earned,
                                       totalWithdrawn |-> 0]]
    BY DEF WalletInit
  <1>1. ASSUME NEW r \in Riders
        PROVE  /\ wallet[r] \in WalletRow
               /\ wallet[r].availableBalance >= 0
    <2>1. opening[r] \in [available : Nat, earned : Nat]
      BY WalletAssumption
    <2>2. opening[r].available \in Nat /\ opening[r].earned \in Nat
      BY <2>1
    <2>3. wallet[r] = [availableBalance |-> opening[r].available,
                       totalEarned |-> opening[r].earned,
                       totalWithdrawn |-> 0]
      OBVIOUS
    <2> QED
      BY <2>2, <2>3 DEF WalletRow
  <1>2. WalletTypeOK
    <2>1. wallet \in [Riders -> WalletRow]
      BY <1>1
    <2> QED
      BY <2>1 DEF WalletInit, WalletTypeOK, TxStates
  <1>3. ReadIsCurrent
    BY DEF WalletInit, ReadIsCurrent
  <1>4. NoOverdraft
    BY <1>1 DEF NoOverdraft
  <1>5. LedgerExplainsBalance
    <2>1. ASSUME NEW r \in Riders
          PROVE  ledger[r] = <<>> /\ Len(ledger[r]) = 0
      BY DEF WalletInit
    <2>2. 2 .. 0 = {}
      OBVIOUS
    <2> QED
      BY <2>1, <2>2 DEF LedgerExplainsBalance
  <1>6. CreditsAreWhole
    BY DEF WalletInit, CreditsAreWhole
  <1> QED
    BY <1>2, <1>3, <1>4, <1>5, <1>6 DEF IInv

LEMMA LockAndReadKeeps ==
    ASSUME IInv, NEW w \in Transactions, NEW op \in {"CREDIT", "DEBIT"}, NEW r \in Riders,
           NEW a \in Amount, LockAndRead(w, op, r, a),
           op = "CREDIT" => IsWhole(a) /\ ~a.text /\ a.units \in Nat
    PROVE  IInv'
  <1> DEFINE c == [op |-> op, rider |-> r, amount |-> a, read |-> wallet[r]]
  <1>1. c \in TxStates /\ wallet[r] \in WalletRow
    BY DEF IInv, WalletTypeOK, TxStates
  <1>2. /\ wallet' = wallet /\ ledger' = ledger
        /\ lock' = [lock EXCEPT ![r] = w]
        /\ tx' = [tx EXCEPT ![w] = c]
        /\ lock[r] = NoTransaction
    BY DEF LockAndRead
  <1> HIDE DEF c
  <1>3. WalletTypeOK'
    BY <1>1, <1>2 DEF IInv, WalletTypeOK
  <1>4. ReadIsCurrent'
    <2> SUFFICES ASSUME NEW v \in Transactions, tx'[v] # NoTx
                 PROVE  /\ lock'[tx'[v].rider] = v
                        /\ tx'[v].read = wallet'[tx'[v].rider]
      BY DEF ReadIsCurrent
    <2>1. CASE v = w
      <3>1. tx'[v] = c
        BY <1>2, <2>1 DEF IInv, WalletTypeOK
      <3> QED
        BY <1>2, <2>1, <3>1 DEF IInv, WalletTypeOK, c
    <2>2. CASE v # w
      <3>1. tx'[v] = tx[v] /\ tx[v] # NoTx
        BY <1>2, <2>2 DEF IInv, WalletTypeOK
      <3>2. lock[tx[v].rider] = v /\ tx[v].read = wallet[tx[v].rider]
        BY <3>1 DEF IInv, ReadIsCurrent
      <3>3. tx[v].rider # r
        BY <1>2, <3>2, WalletAssumption
      <3> QED
        BY <1>2, <3>1, <3>2, <3>3, CallFields DEF IInv, WalletTypeOK
    <2> QED
      BY <2>1, <2>2
  <1>5. NoOverdraft' /\ LedgerExplainsBalance'
    BY <1>2 DEF IInv, NoOverdraft, LedgerExplainsBalance
  <1>6. CreditsAreWhole'
    <2> SUFFICES ASSUME NEW v \in Transactions, tx'[v] # NoTx, tx'[v].op = "CREDIT"
                 PROVE  /\ IsWhole(tx'[v].amount) /\ ~tx'[v].amount.text
                        /\ tx'[v].amount.units \in Nat
      BY DEF CreditsAreWhole, IsWhole
    <2>1. CASE v = w
      <3>1. tx'[v] = c
        BY <1>2, <2>1 DEF IInv, WalletTypeOK
      <3> QED
        BY <3>1 DEF c
    <2>2. CASE v # w
      <3>1. tx'[v] = tx[v]
        BY <1>2, <2>2 DEF IInv, WalletTypeOK
      <3> QED
        BY <3>1 DEF IInv, CreditsAreWhole
    <2> QED
      BY <2>1, <2>2
  <1> QED
    BY <1>3, <1>4, <1>5, <1>6 DEF IInv

\* Letting go of the row leaves every other request's read current.
LEMMA ReleaseKeeps ==
    ASSUME IInv, NEW w \in Transactions, tx[w] # NoTx, Release(w),
           \A r \in Riders \ {tx[w].rider} : wallet'[r] = wallet[r]
    PROVE  /\ lock' \in [Riders -> Transactions \cup {NoTransaction}]
           /\ tx' \in [Transactions -> TxStates]
           /\ ReadIsCurrent'
           /\ CreditsAreWhole'
  <1>1. lock' \in [Riders -> Transactions \cup {NoTransaction}] /\ tx' \in [Transactions -> TxStates]
    BY DEF IInv, WalletTypeOK, Release, TxStates
  <1>2. ASSUME NEW v \in Transactions, tx'[v] # NoTx
        PROVE  /\ lock'[tx'[v].rider] = v
               /\ tx'[v].read = wallet'[tx'[v].rider]
    <2>1. v # w /\ tx'[v] = tx[v]
      BY <1>2 DEF IInv, WalletTypeOK, Release
    <2>2. lock[tx[v].rider] = v /\ tx[v].read = wallet[tx[v].rider]
      BY <1>2, <2>1 DEF IInv, ReadIsCurrent
    <2>3. lock[tx[w].rider] = w
      BY DEF IInv, ReadIsCurrent
    <2>4. tx[v].rider # tx[w].rider /\ tx[v].rider \in Riders
      BY <1>2, <2>1, <2>2, <2>3, CallFields DEF IInv
    <2> QED
      BY <2>1, <2>2, <2>4 DEF IInv, WalletTypeOK, Release
  <1>3. ASSUME NEW v \in Transactions, tx'[v] # NoTx, tx'[v].op = "CREDIT"
        PROVE  IsWhole(tx'[v].amount) /\ ~tx'[v].amount.text /\ tx'[v].amount.units \in Nat
    <2>1. tx'[v] = tx[v] /\ tx[v] # NoTx
      BY <1>3 DEF IInv, WalletTypeOK, Release
    <2> QED
      BY <1>3, <2>1 DEF IInv, CreditsAreWhole
  <1> QED
    BY <1>1, <1>2, <1>3 DEF ReadIsCurrent, CreditsAreWhole, IsWhole

\* Booking an entry that agrees with the balance keeps everything.
LEMMA BookKeeps ==
    ASSUME IInv, NEW w \in Transactions, tx[w] # NoTx, NEW row \in WalletRow, Book(w, row),
           row.availableBalance >= 0,
           Follows(wallet[tx[w].rider].availableBalance,
                   [type |-> tx[w].op, amount |-> Rounded(tx[w].amount),
                    balanceAfter |-> row.availableBalance])
    PROVE  IInv'
  <1> DEFINE r == tx[w].rider
             e == [type |-> tx[w].op, amount |-> Rounded(tx[w].amount),
                   balanceAfter |-> row.availableBalance]
  <1>1. r \in Riders /\ Rounded(tx[w].amount) \in Int /\ tx[w].op \in {"CREDIT", "DEBIT"}
    BY CallFields, AmountFields DEF IInv
  <1>2. e \in Entry /\ Follows(wallet[r].availableBalance, e)
    BY <1>1 DEF Entry, WalletRow
  <1>3. /\ wallet' = [wallet EXCEPT ![r] = row]
        /\ ledger' = [ledger EXCEPT ![r] = Append(@, e)]
        /\ Release(w)
    BY DEF Book
  <1> HIDE DEF e, r
  <1>4. /\ wallet \in [Riders -> WalletRow] /\ ledger \in [Riders -> Seq(Entry)]
        /\ wallet' \in [Riders -> WalletRow] /\ ledger' \in [Riders -> Seq(Entry)]
    BY <1>1, <1>2, <1>3 DEF IInv, WalletTypeOK
  <1>5. WalletTypeOK' /\ ReadIsCurrent' /\ CreditsAreWhole'
    BY <1>1, <1>3, <1>4, ReleaseKeeps DEF WalletTypeOK, r
  <1>6. NoOverdraft'
    BY <1>1, <1>3, <1>4 DEF IInv, NoOverdraft, WalletRow
  <1>7. LedgerExplainsBalance'
    <2> SUFFICES ASSUME NEW x \in Riders
                 PROVE  /\ \A i \in 2 .. Len(ledger'[x]) :
                              Follows(ledger'[x][i - 1].balanceAfter, ledger'[x][i])
                        /\ ledger'[x] # <<>> =>
                              ledger'[x][Len(ledger'[x])].balanceAfter
                                  = wallet'[x].availableBalance
      BY DEF LedgerExplainsBalance, Follows
    <2>1. CASE x = r
      <3>1. /\ ledger[r] \in Seq(Entry) /\ wallet[r].availableBalance \in Int
            /\ \A i \in 2 .. Len(ledger[r]) :
                  Follows(ledger[r][i - 1].balanceAfter, ledger[r][i])
            /\ ledger[r] # <<>> =>
                  ledger[r][Len(ledger[r])].balanceAfter = wallet[r].availableBalance
        BY <1>1, <1>4 DEF IInv, LedgerExplainsBalance, WalletRow, Follows
      <3>2. ledger'[r] = Append(ledger[r], e) /\ wallet'[r] = row
        BY <1>1, <1>3, <1>4
      <3>3. e.balanceAfter = row.availableBalance
        BY DEF e
      <3> QED
        BY <1>2, <2>1, <3>1, <3>2, <3>3, ChainExtends
    <2>2. CASE x # r
      BY <1>3, <1>4, <2>2 DEF IInv, LedgerExplainsBalance, Follows
    <2> QED
      BY <2>1, <2>2
  <1> QED
    BY <1>5, <1>6, <1>7 DEF IInv

\* What was read under the lock is what the row still holds, field by field.
LEMMA ReadHolds ==
    ASSUME IInv, NEW w \in Transactions, tx[w] # NoTx
    PROVE  /\ tx[w].rider \in Riders
           /\ tx[w].amount \in Amount
           /\ tx[w].op = "CREDIT" => IsWhole(tx[w].amount) /\ ~tx[w].amount.text
           /\ tx[w].read = wallet[tx[w].rider]
           /\ tx[w].read \in WalletRow
           /\ tx[w].read.availableBalance \in Int
           /\ tx[w].read.totalEarned \in Int
           /\ tx[w].read.totalWithdrawn \in Int
  <1>1. tx[w].rider \in Riders /\ tx[w].amount \in Amount /\ tx[w].read \in WalletRow
    BY CallFields DEF IInv
  <1>3. tx[w].op = "CREDIT" => IsWhole(tx[w].amount) /\ ~tx[w].amount.text
    BY DEF IInv, CreditsAreWhole
  <1>2. tx[w].read = wallet[tx[w].rider]
    BY DEF IInv, ReadIsCurrent
  <1> QED
    BY <1>1, <1>2, <1>3 DEF WalletRow

LEMMA StepKeeps == IInv /\ [WalletNext]_walletVars => IInv'
  <1> SUFFICES ASSUME IInv, [WalletNext]_walletVars PROVE IInv'
    OBVIOUS
  <1>1. ASSUME NEW w \in Transactions, NEW r \in Riders, NEW a \in Credits,
               LockAndRead(w, "CREDIT", r, a)
        PROVE  IInv'
    <2>1. a \in Amount /\ IsWhole(a) /\ ~a.text /\ a.units \in Nat
      <3>1. PICK n \in Earnings : a = Earned(n)
        BY DEF Credits
      <3>2. n \in Nat
        BY WalletAssumption
      <3> QED
        BY <3>1, <3>2 DEF Earned, Amount, IsWhole
    <2> QED
      BY <1>1, <2>1, LockAndReadKeeps
  <1>6. ASSUME NEW w \in Transactions, NEW r \in Riders, NEW a \in Withdrawals,
               LockAndRead(w, "DEBIT", r, a)
        PROVE  IInv'
    <2>1. a \in Amount
      BY WalletAssumption DEF Amount
    <2> QED
      BY <1>6, <2>1, LockAndReadKeeps
  <1>2. ASSUME NEW w \in Transactions, Credit(w)
        PROVE  IInv'
    <2> DEFINE row == Credited(tx[w].read, tx[w].amount)
    <2>1. tx[w] # NoTx /\ tx[w].op = "CREDIT" /\ Book(w, row)
      BY <1>2 DEF Credit, NoTx
    <2>2. tx[w].read.availableBalance >= 0
      BY <2>1, ReadHolds DEF IInv, NoOverdraft
    <2>3. /\ tx[w].amount.units \in Nat /\ Rounded(tx[w].amount) = tx[w].amount.units
          /\ tx[w].read = wallet[tx[w].rider]
      BY <2>1, ReadHolds DEF IInv, CreditsAreWhole, Rounded, IsWhole
    <2>4. /\ row \in WalletRow
          /\ row.availableBalance = wallet[tx[w].rider].availableBalance + tx[w].amount.units
          /\ row.availableBalance >= 0
      BY <2>1, <2>2, <2>3, ReadHolds DEF Credited, WalletRow
    <2>5. Follows(wallet[tx[w].rider].availableBalance,
                  [type |-> tx[w].op, amount |-> Rounded(tx[w].amount),
                   balanceAfter |-> row.availableBalance])
      BY <2>1, <2>3, <2>4 DEF Follows
    <2> HIDE DEF row
    <2> QED
      BY <2>1, <2>4, <2>5, BookKeeps
  <1>3. ASSUME NEW w \in Transactions, Withdraw(w)
        PROVE  IInv'
    <2>1. /\ tx[w] # NoTx /\ tx[w].op = "DEBIT"
          /\ ~IsShort(tx[w].read.availableBalance, tx[w].amount)
      BY <1>3 DEF Withdraw, NoTx
    <2>2. PICK row \in Withdrawn(tx[w].read, tx[w].amount) : Book(w, row)
      BY <1>3 DEF Withdraw
    <2>3. /\ tx[w].amount \in Amount /\ tx[w].read \in WalletRow
          /\ tx[w].read = wallet[tx[w].rider] /\ tx[w].read.availableBalance \in Int
      BY <2>1, ReadHolds
    <2>4. /\ row \in WalletRow
          /\ row.availableBalance \in Less(tx[w].read.availableBalance, tx[w].amount)
      BY <2>3, WithdrawnIs
    <2>5. /\ row.availableBalance >= 0
          /\ row.availableBalance
                 - (wallet[tx[w].rider].availableBalance - Rounded(tx[w].amount)) \in -1 .. 1
      BY <2>1, <2>3, <2>4, LessIs
    <2>6. Follows(wallet[tx[w].rider].availableBalance,
                  [type |-> tx[w].op, amount |-> Rounded(tx[w].amount),
                   balanceAfter |-> row.availableBalance])
      BY <2>1, <2>5 DEF Follows
    <2> QED
      BY <2>1, <2>2, <2>4, <2>5, <2>6, BookKeeps
  <1>4. ASSUME NEW w \in Transactions, Rollback(w)
        PROVE  IInv'
    <2>1. tx[w] # NoTx /\ Release(w) /\ wallet' = wallet /\ ledger' = ledger
      BY <1>4 DEF Rollback
    <2>2. /\ lock' \in [Riders -> Transactions \cup {NoTransaction}]
          /\ tx' \in [Transactions -> TxStates]
          /\ ReadIsCurrent' /\ CreditsAreWhole'
      BY <2>1, ReleaseKeeps
    <2> QED
      BY <2>1, <2>2 DEF IInv, WalletTypeOK, NoOverdraft, LedgerExplainsBalance
  <1>5. CASE UNCHANGED walletVars
    BY <1>5 DEF walletVars, IInv, WalletTypeOK, ReadIsCurrent, CreditsAreWhole, NoOverdraft,
                LedgerExplainsBalance
  <1> QED
    BY <1>1, <1>2, <1>3, <1>4, <1>5, <1>6 DEF WalletNext

\* The wallet's invariant holds in every reachable state.
THEOREM Invariance == WalletSpec => []IInv
  <1> QED
    BY InitHolds, StepKeeps, PTL DEF WalletSpec

\* Type correctness of the wallet module.
THEOREM TypeCorrect == WalletSpec => []WalletTypeOK
  <1>1. IInv => WalletTypeOK
    BY DEF IInv
  <1> QED
    BY <1>1, Invariance, PTL

\* creditWallet and requestWithdrawal never overdraw a wallet.
THEOREM NeverOverdrawn == WalletSpec => []NoOverdraft
  <1>1. IInv => NoOverdraft
    BY DEF IInv
  <1> QED
    BY <1>1, Invariance, PTL

\* The wallet transactions explain the balance of every wallet.
THEOREM LedgerExplains == WalletSpec => []LedgerExplainsBalance
  <1>1. IInv => LedgerExplainsBalance
    BY DEF IInv
  <1> QED
    BY <1>1, Invariance, PTL

\* Only the row booked changes, so it is enough to look at that one.
LEMMA BookedGap ==
    ASSUME IInv, NEW w \in Transactions, tx[w] # NoTx, NEW row, Book(w, row),
           row.totalEarned - row.totalWithdrawn - row.availableBalance
               = Unexplained(tx[w].rider),
           NEW r \in Riders
    PROVE  Unexplained(r)' = Unexplained(r)
  <1>1. wallet' = [wallet EXCEPT ![tx[w].rider] = row] /\ wallet \in [Riders -> WalletRow]
    BY DEF Book, IInv, WalletTypeOK
  <1>2. CASE r = tx[w].rider
    <2>1. wallet'[r] = row
      BY <1>1, <1>2
    <2> QED
      BY <1>2, <2>1 DEF Unexplained
  <1>3. CASE r # tx[w].rider
    BY <1>1, <1>3 DEF Unexplained
  <1> QED
    BY <1>2, <1>3

\* A credit, a withdrawal of a whole amount given as a number, and everything
\* rolled back leave the gap between the totals and the balance what it was.
THEOREM TotalsKeepStepHolds == WalletSpec => TotalsKeepStep
  <1>1. ASSUME IInv, [WalletNext]_walletVars
        PROVE  [\A w \in Transactions :
                   tx[w] # NoTx /\ tx'[w] = NoTx /\ IsWhole(tx[w].amount) /\ ~tx[w].amount.text =>
                       \A r \in Riders : Unexplained(r)' = Unexplained(r)]_walletVars
    <2> SUFFICES ASSUME NEW w \in Transactions, NEW r \in Riders, tx[w] # NoTx, tx'[w] = NoTx,
                        IsWhole(tx[w].amount), ~tx[w].amount.text
                 PROVE  Unexplained(r)' = Unexplained(r)
      OBVIOUS
    <2> USE <1>1
    <2>0. /\ tx[w].amount \in Amount /\ tx[w].read \in WalletRow
          /\ tx[w].read = wallet[tx[w].rider] /\ tx[w].rider \in Riders
          /\ tx[w].read.availableBalance \in Int /\ tx[w].read.totalEarned \in Int
          /\ tx[w].read.totalWithdrawn \in Int /\ tx[w].amount.units \in Int
      BY ReadHolds, AmountFields
    <2>1. CASE Credit(w)
      <3> DEFINE row == Credited(tx[w].read, tx[w].amount)
      <3>1. Book(w, row)
        BY <2>1 DEF Credit
      <3>2. row.totalEarned - row.totalWithdrawn - row.availableBalance
                = Unexplained(tx[w].rider)
        BY <2>0 DEF Credited, Unexplained
      <3> QED
        BY <3>1, <3>2, BookedGap
    <2>2. CASE Withdraw(w)
      <3>1. PICK row \in Withdrawn(tx[w].read, tx[w].amount) : Book(w, row)
        BY <2>2 DEF Withdraw
      <3>2. /\ row.availableBalance \in Less(tx[w].read.availableBalance, tx[w].amount)
            /\ row.totalEarned = tx[w].read.totalEarned
            /\ row.totalWithdrawn \in Plus(tx[w].read.totalWithdrawn, tx[w].amount)
        BY <2>0, WithdrawnIs
      <3>3. /\ row.availableBalance = tx[w].read.availableBalance - tx[w].amount.units
            /\ row.totalWithdrawn = tx[w].read.totalWithdrawn + tx[w].amount.units
        BY <2>0, <3>2, LessIs, PlusIs
      <3>4. row.totalEarned - row.totalWithdrawn - row.availableBalance
                = Unexplained(tx[w].rider)
        BY <2>0, <3>2, <3>3 DEF Unexplained
      <3> QED
        BY <3>1, <3>4, BookedGap
    <2>3. CASE Rollback(w) \/ UNCHANGED walletVars
      BY <2>3 DEF Rollback, walletVars, Unexplained
    <2>4. Credit(w) \/ Withdraw(w) \/ Rollback(w) \/ UNCHANGED walletVars
      <3>1. ASSUME NEW v \in Transactions, v # w, Release(v)
            PROVE  FALSE
        BY <3>1 DEF Release, IInv, WalletTypeOK
      <3>2. ASSUME NEW v \in Transactions, NEW op, NEW x, NEW a, LockAndRead(v, op, x, a)
            PROVE  FALSE
        <4>1. tx'[w] = tx[w] \/ tx'[w] = [op |-> op, rider |-> x, amount |-> a, read |-> wallet[x]]
          BY <3>2 DEF LockAndRead, IInv, WalletTypeOK
        <4>2. tx'[w] # tx[w]
          OBVIOUS
        <4>3. v = w
          BY <3>2, <4>2 DEF LockAndRead, IInv, WalletTypeOK
        <4> QED
          BY <3>2, <4>3 DEF LockAndRead
      <3>3. CASE \E v \in Transactions : Credit(v) \/ Withdraw(v) \/ Rollback(v)
        BY <3>1, <3>3 DEF Credit, Withdraw, Rollback, Book
      <3> QED
        BY <3>2, <3>3 DEF WalletNext
    <2> QED
      BY <2>1, <2>2, <2>3, <2>4
  <1> QED
    BY <1>1, Invariance, PTL DEF WalletSpec, TotalsKeepStep
================================================================================
