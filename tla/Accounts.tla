------------------------------- MODULE Accounts -------------------------------
(****************************************************************************)
(* AuthService and UsersService for one account: its registration, the      *)
(* counter that locks it after wrong passwords, and the one-time codes that *)
(* verify its phone.                                                        *)
(*                                                                          *)
(* Codes are named in the order of created_at.  A lock or a code runs out   *)
(* by a step of its own.  The tokens a login issues are in Sessions.        *)
(****************************************************************************)
EXTENDS Requests, Naturals, FiniteSets

CONSTANTS
    MAX_LOGIN_ATTEMPTS,
    MAX_OTP_ATTEMPTS,   \* the 5 of verifyOtp
    NumCodes,           \* bound: one-time codes that are sent
    MaxFailures         \* bound: wrong passwords between two right ones

ASSUME AccountsAssumption ==
    /\ MAX_LOGIN_ATTEMPTS \in Nat \ {0}
    /\ MAX_OTP_ATTEMPTS \in Nat \ {0}
    /\ NumCodes \in Nat
    /\ MaxFailures \in Nat

VARIABLES
    user,       \* users: status, failed_login_attempts, locked_until > now
    failures,   \* wrong passwords answered since the last right one
    otp         \* otp_records

accountVars == <<user, failures, otp>>

Codes == 1 .. NumCodes

AccountStatus == {"PENDING", "VERIFIED", "SUSPENDED"}
UserRow == [status : AccountStatus, attempts : 0 .. MaxFailures, locked : BOOLEAN]
OtpRow == [isUsed : BOOLEAN, expired : BOOLEAN, attemptCount : 0 .. MAX_OTP_ATTEMPTS]

NoUser == [status |-> "absent"]
NoOtp == [isUsed |-> TRUE]

AccountCalls ==
         {Idle}
    \cup [op : {"register", "invalidate", "saveOtp", "mark", "succeeded"}]
    \cup [op : {"password"}, attempts : 0 .. MaxFailures, status : AccountStatus]
    \cup [op : {"failed"}, attempts : 0 .. MaxFailures]
    \cup [op : {"accept"}, code : Codes]
    \cup [op : {"refuse"}, code : Codes, attempts : 0 .. MAX_OTP_ATTEMPTS]

AccountsTypeOK ==
    /\ user \in {NoUser} \cup UserRow
    /\ failures \in 0 .. MaxFailures
    /\ otp \in [Codes -> {NoOtp} \cup OtpRow]

AccountsInit ==
    /\ user = NoUser
    /\ failures = 0
    /\ otp = [c \in Codes |-> NoOtp]

Registered == user # NoUser

--------------------------------------------------------------------------------
(* register, login                                                          *)

\* Nobody has the address or the phone yet; then the password is hashed.
RegisterFind(w) ==
    /\ MayStart(w)
    /\ ~ Registered
    /\ Continue(w, [op |-> "register"])
    /\ UNCHANGED accountVars

\* INSERT, which fails if another registration was faster: email is unique.
RegisterCreate(w) ==
    /\ call[w].op = "register"
    /\ user' = IF Registered THEN user
               ELSE [status |-> "PENDING", attempts |-> 0, locked |-> FALSE]
    /\ Continue(w, IF Registered THEN Idle ELSE [op |-> "invalidate"])
    /\ UNCHANGED <<failures, otp>>

\* validateUser up to argon2.verify, which takes its time.
Login(w) ==
    /\ MayStart(w)
    /\ Registered
    /\ ~ user.locked
    /\ Continue(w, [op |-> "password", attempts |-> user.attempts, status |-> user.status])
    /\ UNCHANGED accountVars

WrongPassword(w) ==
    /\ call[w].op = "password"
    /\ failures < MaxFailures
    /\ call[w].attempts < MaxFailures
    /\ failures' = failures + 1
    /\ Continue(w, [op |-> "failed", attempts |-> call[w].attempts])
    /\ UNCHANGED <<user, otp>>

\* Bug: the comparison is off by one.
FailedTooEarly(n) == [user EXCEPT !.attempts = n, !.locked = @ \/ n + 1 >= MAX_LOGIN_ATTEMPTS]

\* The user with the number of failures n.
Failed(n) == [user EXCEPT !.attempts = n, !.locked = @ \/ n >= MAX_LOGIN_ATTEMPTS]

\* handleFailedLogin counts on from the user validateUser has read.
HandleFailedLogin(w) ==
    /\ call[w].op = "failed"
    /\ user' = Failed(call[w].attempts + 1)
    /\ Finish(w)
    /\ UNCHANGED <<failures, otp>>

RightPassword(w) ==
    /\ call[w].op = "password"
    /\ Continue(w, IF call[w].status = "SUSPENDED" THEN Idle ELSE [op |-> "succeeded"])
    /\ UNCHANGED accountVars

\* resetFailedLogins; updateLastLogin and the tokens follow.
ResetFailedLogins(w) ==
    /\ call[w].op = "succeeded"
    /\ user' = [user EXCEPT !.attempts = 0, !.locked = FALSE]
    /\ failures' = 0
    /\ Finish(w)
    /\ UNCHANGED otp

--------------------------------------------------------------------------------
(* sendPhoneOtp, verifyOtp                                                  *)

ResendOtp(w) ==
    /\ MayStart(w)
    /\ Registered
    /\ Continue(w, [op |-> "invalidate"])
    /\ UNCHANGED accountVars

\* Bug: codes sent before stay valid.
InvalidateNothing(w) ==
    /\ call[w].op = "invalidate"
    /\ Continue(w, [op |-> "saveOtp"])
    /\ UNCHANGED accountVars

\* Every unused code is marked used ...
InvalidateOtps(w) ==
    /\ call[w].op = "invalidate"
    /\ otp' = [c \in Codes |-> [otp[c] EXCEPT !.isUsed = TRUE]]
    /\ Continue(w, [op |-> "saveOtp"])
    /\ UNCHANGED <<user, failures>>

\* ... and then a new one is saved.
SaveOtp(w) ==
    /\ call[w].op = "saveOtp"
    /\ \E c \in Codes :
          /\ \A d \in Codes : otp[d] = NoOtp <=> d >= c
          /\ otp' = [otp EXCEPT ![c] = [isUsed |-> FALSE, expired |-> FALSE, attemptCount |-> 0]]
    /\ Finish(w)
    /\ UNCHANGED <<user, failures>>

Unused == {c \in Codes : ~ otp[c].isUsed}

\* Bug: attempts are counted and never looked at.
ActiveHoweverOften ==
    {c \in Unused : (\A d \in Unused : d <= c) /\ ~ otp[c].expired}

\* The newest unused code, if it has neither expired nor been tried too often.
Active ==
    {c \in Unused : /\ \A d \in Unused : d <= c
                    /\ ~ otp[c].expired
                    /\ otp[c].attemptCount < MAX_OTP_ATTEMPTS}

\* The customer types the code in, or something else.
VerifyOtp(w) ==
    /\ MayStart(w)
    /\ \E c \in Active :
          \/ Continue(w, [op |-> "accept", code |-> c])
          \/ Continue(w, [op |-> "refuse", code |-> c, attempts |-> otp[c].attemptCount])
    /\ UNCHANGED accountVars

OtpAccept(w) ==
    /\ call[w].op = "accept"
    /\ otp' = [otp EXCEPT ![call[w].code].isUsed = TRUE]
    /\ Continue(w, [op |-> "mark"])
    /\ UNCHANGED <<user, failures>>

OtpRefuse(w) ==
    /\ call[w].op = "refuse"
    /\ otp' = [otp EXCEPT ![call[w].code].attemptCount = call[w].attempts + 1]
    /\ Finish(w)
    /\ UNCHANGED <<user, failures>>

\* status = VERIFIED, whatever it was.
MarkPhoneVerified(w) ==
    /\ call[w].op = "mark"
    /\ user' = [user EXCEPT !.status = "VERIFIED"]
    /\ Finish(w)
    /\ UNCHANGED <<failures, otp>>

--------------------------------------------------------------------------------
\* PATCH /users/:id/suspend.
Suspend ==
    /\ Registered
    /\ user' = [user EXCEPT !.status = "SUSPENDED"]
    /\ UNCHANGED <<world, call, failures, otp>>

LockRunsOut ==
    /\ Registered
    /\ user.locked
    /\ user' = [user EXCEPT !.locked = FALSE]
    /\ UNCHANGED <<world, call, failures, otp>>

OtpRunsOut ==
    /\ \E c \in Unused : otp' = [otp EXCEPT ![c].expired = TRUE]
    /\ UNCHANGED <<world, call, user, failures>>

AccountCrash(w) == Crash(w) /\ UNCHANGED accountVars

AccountsNext ==
    \/ Suspend \/ LockRunsOut \/ OtpRunsOut
    \/ \E w \in Slots :
          \/ RegisterFind(w) \/ RegisterCreate(w)
          \/ Login(w) \/ WrongPassword(w) \/ HandleFailedLogin(w)
          \/ RightPassword(w) \/ ResetFailedLogins(w)
          \/ ResendOtp(w) \/ InvalidateOtps(w) \/ SaveOtp(w)
          \/ VerifyOtp(w) \/ OtpAccept(w) \/ OtpRefuse(w) \/ MarkPhoneVerified(w)
          \/ AccountCrash(w)

--------------------------------------------------------------------------------
(* Properties.                                                              *)

\* While nobody races, the counter is the number of wrong passwords in a row, and
\* fewer than MAX_LOGIN_ATTEMPTS of them leave the account open.  When a lock runs
\* out is not said here.  Logins that race may be counted once, and a late failure
\* may undo a reset: that is why it asks for the calm world.
CalmCountIsTrue ==
    calm /\ AtRest /\ Registered =>
        /\ user.attempts = failures
        /\ user.locked => failures >= MAX_LOGIN_ATTEMPTS

\* While requests follow each other, only the newest code can be used.  Two requests
\* for a code at once leave two of them.
SerialOneCode == serial => Cardinality(Unused) <= 1
================================================================================
