------------------------------- MODULE Sessions -------------------------------
(* One account: how it is registered with a mailed code, logged in and out, kept *)
(* alive with refresh tokens and given a new password.  The database row, the   *)
(* list of spent tokens and the codes in Redis are separate writes, and calls   *)
(* of several devices run between them.                                        *)
EXTENDS Naturals, FiniteSets

CONSTANTS
  AuthReqs,           \* calls under way
  Passwords,
  MaxTokens,          \* bound: refresh tokens issued in a behaviour
  MaxCodes,           \* bound: codes mailed in a behaviour
  MaxAuthCalls        \* bound: calls in a behaviour

VARIABLES
  account,            \* the row of the account, NoAccount before it is registered
  issued,             \* refresh tokens issued: 1 .. issued
  expired,            \* tokens whose seven days are over
  blacklist,          \* tokens in Redis as spent, as long as they are not expired
  pendingReg,         \* the registration waiting for its code, NoCode without
  resetCode,          \* the code of a password reset, NoCode without
  codes,              \* codes mailed so far, each drawn once
  authReqs, authCalls,
  exchanged,          \* tokens for which a refresh has finished
  over                \* the session was ended with no login or refresh under way
authVars == <<account, issued, expired, blacklist, pendingReg, resetCode, codes,
              authReqs, authCalls, exchanged, over>>

NoAccount == [exists |-> FALSE]
NoToken   == 0
NoCode    == [code |-> 0]
NoAuthReq == [at |-> "idle"]
Row(p)    == [exists |-> TRUE, active |-> TRUE, password |-> p, refreshToken |-> NoToken]
Active == account.exists /\ account.active

AuthInit ==
  /\ account \in {NoAccount} \cup {Row(p) : p \in Passwords}
  /\ issued = 0 /\ expired = {} /\ blacklist = {}
  /\ pendingReg = NoCode /\ resetCode = NoCode /\ codes = 0
  /\ authReqs = [r \in AuthReqs |-> NoAuthReq] /\ authCalls = 0
  /\ exchanged = {} /\ over = FALSE

(* A call begins with its first read, then goes from one await to the next.     *)
Calls(r, q) == /\ authReqs[r] = NoAuthReq
               /\ authCalls < MaxAuthCalls
               /\ authCalls' = authCalls + 1
               /\ authReqs' = [authReqs EXCEPT ![r] = q]
Is(r, at)   == authReqs[r].at = at
Proceed(r, at) == authReqs' = [authReqs EXCEPT ![r].at = at] /\ UNCHANGED authCalls
Return(r)   == authReqs' = [authReqs EXCEPT ![r] = NoAuthReq] /\ UNCHANGED authCalls

Issued == 1 .. issued
\* Variant: the token is never entered in the list of spent ones.
SpendNothing(t) == UNCHANGED blacklist
Spend(t) == blacklist' = IF t \in expired THEN blacklist ELSE blacklist \cup {t}
MaySave == {r \in AuthReqs : authReqs[r].at \in {"login", "spend", "save"}}
EndSession == over' = (MaySave = {})

(* --------------------------- Login and logout ----------------------------- *)

\* validateUser, then the new token's hash over the old one.
Login(r, p) ==
  /\ Active /\ account.password = p
  /\ Calls(r, [at |-> "login"])
  /\ over' = FALSE
  /\ UNCHANGED <<account, issued, expired, blacklist, pendingReg, resetCode, codes, exchanged>>

SaveToken == /\ issued < MaxTokens
             /\ issued' = issued + 1
             /\ account' = [account EXCEPT !.refreshToken = issued']
SaveLogin(r) ==
  /\ Is(r, "login") /\ SaveToken /\ Return(r)
  /\ UNCHANGED <<expired, blacklist, pendingReg, resetCode, codes, exchanged, over>>

Logout(r, t) ==
  /\ Active
  /\ Calls(r, [at |-> "logout"])
  /\ Spend(t)
  /\ UNCHANGED <<account, issued, expired, pendingReg, resetCode, codes, exchanged, over>>
ClearToken(r) ==
  /\ Is(r, "logout")
  /\ account' = [account EXCEPT !.refreshToken = NoToken]
  /\ EndSession /\ Return(r)
  /\ UNCHANGED <<issued, expired, blacklist, pendingReg, resetCode, codes, exchanged>>

(* ------------------------------- Refresh ---------------------------------- *)

\* bcrypt reads 72 bytes, and those of a token of this account end inside its "sub" field:
\* the stored hash tells accounts apart, and one of any token of the account matches it.
Matches(t) == account.refreshToken # NoToken
Unspent(t) == t \notin blacklist

Refresh(r, t) ==
  /\ Unspent(t)
  /\ Calls(r, [at |-> "match", token |-> t, again |-> t \in exchanged])
  /\ UNCHANGED <<account, issued, expired, blacklist, pendingReg, resetCode, codes, exchanged, over>>
Match(r) ==
  LET t == authReqs[r].token
  IN /\ Is(r, "match")
     /\ IF t \notin expired /\ Active /\ Matches(t) THEN Proceed(r, "spend") ELSE Return(r)
     /\ UNCHANGED <<account, issued, expired, blacklist, pendingReg, resetCode, codes, exchanged, over>>
SpendToken(r) ==
  /\ Is(r, "spend") /\ Spend(authReqs[r].token) /\ Proceed(r, "save")
  /\ UNCHANGED <<account, issued, expired, pendingReg, resetCode, codes, exchanged, over>>
SaveRefresh(r) ==
  /\ Is(r, "save") /\ SaveToken /\ Return(r)
  /\ exchanged' = exchanged \cup {authReqs[r].token}
  /\ UNCHANGED <<expired, blacklist, pendingReg, resetCode, codes, over>>

\* The entry of a spent token lives exactly as long as the token.
TokenExpires(t) ==
  /\ t \notin expired
  /\ expired' = expired \cup {t}
  /\ blacklist' = blacklist \ {t}
  /\ UNCHANGED <<account, issued, pendingReg, resetCode, codes, authReqs, authCalls, exchanged, over>>

(* ----------------------------- Registration ------------------------------- *)

Draw == codes < MaxCodes /\ codes' = codes + 1

Register(r, p) ==
  /\ ~account.exists
  /\ Draw
  /\ Calls(r, [at |-> "register", reg |-> [code |-> codes', password |-> p]])
  /\ UNCHANGED <<account, issued, expired, blacklist, pendingReg, resetCode, exchanged, over>>
KeepPending(r) ==
  /\ Is(r, "register")
  /\ pendingReg' = authReqs[r].reg
  /\ Return(r)
  /\ UNCHANGED <<account, issued, expired, blacklist, resetCode, codes, exchanged, over>>

VerifyRegisterOtp(r, c) ==
  /\ pendingReg # NoCode /\ pendingReg.code = c
  /\ Calls(r, [at |-> "existing", reg |-> pendingReg])
  /\ UNCHANGED <<account, issued, expired, blacklist, pendingReg, resetCode, codes, exchanged, over>>
CheckExisting(r) ==
  /\ Is(r, "existing")
  /\ IF account.exists THEN Return(r) ELSE Proceed(r, "create")
  /\ UNCHANGED <<account, issued, expired, blacklist, pendingReg, resetCode, codes, exchanged, over>>
\* The e-mail is unique: of two calls past the check one insert fails.
NewAccount(reg) == Row(reg.password)
CreateAccount(r) ==
  /\ Is(r, "create")
  /\ IF account.exists THEN Return(r) /\ UNCHANGED account
     ELSE Proceed(r, "forgetPending") /\ account' = NewAccount(authReqs[r].reg)
  /\ UNCHANGED <<issued, expired, blacklist, pendingReg, resetCode, codes, exchanged, over>>
DropPending(r) ==
  /\ Is(r, "forgetPending")
  /\ pendingReg' = NoCode /\ Return(r)
  /\ UNCHANGED <<account, issued, expired, blacklist, resetCode, codes, exchanged, over>>

(* ------------------------------ Passwords --------------------------------- *)

ForgotPassword(r) ==
  /\ Active
  /\ Draw
  /\ Calls(r, [at |-> "keepReset", code |-> codes'])
  /\ UNCHANGED <<account, issued, expired, blacklist, pendingReg, resetCode, exchanged, over>>
KeepReset(r) ==
  /\ Is(r, "keepReset")
  /\ resetCode' = [code |-> authReqs[r].code]
  /\ Return(r)
  /\ UNCHANGED <<account, issued, expired, blacklist, pendingReg, codes, exchanged, over>>

\* A code is used up only by the last write: two resets with one code may both go through.
ResetPassword(r, c, p) ==
  /\ resetCode.code = c
  /\ Calls(r, [at |-> "reset", password |-> p])
  /\ UNCHANGED <<account, issued, expired, blacklist, pendingReg, resetCode, codes, exchanged, over>>
CheckActive(r) ==
  /\ Is(r, "reset")
  /\ IF Active THEN Proceed(r, "setPassword") ELSE Return(r)
  /\ UNCHANGED <<account, issued, expired, blacklist, pendingReg, resetCode, codes, exchanged, over>>
\* Variant: a reset leaves the sessions running.
SetPasswordOnly(r) ==
  /\ Is(r, "setPassword")
  /\ account' = [account EXCEPT !.password = authReqs[r].password]
  /\ EndSession
  /\ Proceed(r, "dropReset")
  /\ UNCHANGED <<issued, expired, blacklist, pendingReg, resetCode, codes, exchanged>>
SetPassword(r) ==
  /\ Is(r, "setPassword")
  /\ account' = [account EXCEPT !.password = authReqs[r].password, !.refreshToken = NoToken]
  /\ EndSession
  /\ Proceed(r, "dropReset")
  /\ UNCHANGED <<issued, expired, blacklist, pendingReg, resetCode, codes, exchanged>>
DropReset(r) ==
  /\ Is(r, "dropReset")
  /\ resetCode' = NoCode /\ Return(r)
  /\ UNCHANGED <<account, issued, expired, blacklist, pendingReg, codes, exchanged, over>>

\* Leaves the sessions of other devices alone.
ChangePassword(r, old, new) ==
  /\ Active /\ account.password = old /\ old # new
  /\ Calls(r, [at |-> "change", password |-> new])
  /\ UNCHANGED <<account, issued, expired, blacklist, pendingReg, resetCode, codes, exchanged, over>>
WritePassword(r) ==
  /\ Is(r, "change")
  /\ account' = [account EXCEPT !.password = authReqs[r].password]
  /\ Return(r)
  /\ UNCHANGED <<issued, expired, blacklist, pendingReg, resetCode, codes, exchanged, over>>

\* An administrator suspends the account or takes it back.
SetStatus(on) ==
  /\ account.exists /\ account.active # on
  /\ account' = [account EXCEPT !.active = on]
  /\ UNCHANGED <<issued, expired, blacklist, pendingReg, resetCode, codes, authReqs, authCalls,
                 exchanged, over>>

\* The ten minutes of a code are over.
CodesExpire ==
  /\ <<pendingReg, resetCode>> # <<NoCode, NoCode>>
  /\ \/ pendingReg' = NoCode /\ UNCHANGED resetCode
     \/ resetCode' = NoCode /\ UNCHANGED pendingReg
  /\ UNCHANGED <<account, issued, expired, blacklist, codes, authReqs, authCalls, exchanged, over>>

AuthNext ==
  \/ \E r \in AuthReqs :
       \/ SaveLogin(r) \/ ClearToken(r) \/ Match(r) \/ SpendToken(r) \/ SaveRefresh(r)
       \/ KeepPending(r) \/ CheckExisting(r) \/ CreateAccount(r) \/ DropPending(r)
       \/ KeepReset(r) \/ CheckActive(r) \/ SetPassword(r) \/ DropReset(r) \/ WritePassword(r)
       \/ ForgotPassword(r)
       \/ Logout(r, NoToken)
       \/ \E t \in Issued : Logout(r, t) \/ Refresh(r, t)
       \/ \E c \in 1 .. codes : \/ VerifyRegisterOtp(r, c)
                                \/ \E p \in Passwords : ResetPassword(r, c, p)
       \/ \E p \in Passwords : \/ Login(r, p) \/ Register(r, p)
                               \/ \E new \in Passwords : ChangePassword(r, p, new)
  \/ \E t \in Issued : TokenExpires(t)
  \/ \E on \in BOOLEAN : SetStatus(on)
  \/ CodesExpire

(* ---------------------------- Properties --------------------------------- *)

\* A refresh token is exchanged a second time only by a call that began before the first
\* exchange was finished (refresh: the list of spent tokens is read first and written late).
TokenExchangedOnce ==
  \A r \in AuthReqs : authReqs[r].at \in {"spend", "save"} => ~authReqs[r].again

\* A logout or a reset of the password that ends the session while no login or refresh is past
\* its check ends it for good: no token is exchanged until someone logs in (logout, resetPassword).
SessionEndsForGood ==
  over => /\ account.refreshToken = NoToken
          /\ \A r \in AuthReqs : authReqs[r].at \notin {"spend", "save"}
=============================================================================
