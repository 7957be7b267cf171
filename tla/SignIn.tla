------------------------------- MODULE SignIn -------------------------------
(***************************************************************************)
(* Signing in to one account with a password (auth/): the change of the    *)
(* initial password, the one-time codes of the second factor and of a      *)
(* forgotten password (auth/otp.service), and the pages that ask for them  *)
(* (Login, TwoFactorChallenge, InitialPasswordChallenge,                   *)
(* ForgotPasswordFlow and ChangePasswordModal) in the tabs of one browser. *)
(*                                                                         *)
(* Hashes, tokens and codes are what they stand for: a password is the     *)
(* number of changes before it, a code its row, a token what it was issued *)
(* for.  Time has no state: a test of it (a token or a code that lapses,   *)
(* the minute between two mails, the six codes of one window) may fail     *)
(* whenever it is made.  The limits of requests per minute, the link to a  *)
(* Google account, the masked address and the mails' texts are left out.   *)
(* A tab that leaves a page with an open request counts as another tab.    *)
(***************************************************************************)
EXTENDS Requests, Sequences, FiniteSetsExt

CONSTANTS
    Tabs,           \* tabs of the browser
    MAX_ATTEMPTS,   \* wrong codes before a code is consumed
    MaxCodes,       \* bound: codes ever issued
    MaxPasswords,   \* bound: changes of the password
    SignInScenes    \* bound: what a behaviour starts with, see SignInStart

ASSUME SignInAssumption ==
    /\ MAX_ATTEMPTS \in Nat \ {0}
    /\ {MaxCodes, MaxPasswords} \subseteq Nat
    /\ IsFiniteSet(Tabs)
    /\ SignInScenes \subseteq [mode : Modes, tabs : SUBSET Tabs, initial : BOOLEAN, codes : BOOLEAN]

VARIABLES
    password,       \* the current password: the number of changes of it
    mustChange,     \* must_change_password
    locked,         \* is_activated = 0
    otps,           \* Email_Otp: the codes of the account, in the order of their otp_id
    inbox,          \* the codes that have been mailed
    trusted,        \* the cookie of the browser: a password, or NoPassword
    tab,            \* [Tabs -> the page that is shown, and the token it holds]
    knew,           \* the password that whoever made the n-th change had shown to know
    passed,         \* [1 .. MaxCodes -> how many times the code was right]
    missed,         \* [1 .. MaxCodes -> how many wrong codes were held against it]
    account         \* the scene of this behaviour; it never changes

accountRow == <<password, mustChange, locked, knew>>
otpTable == <<otps, passed, missed>>
browser == <<inbox, trusted, tab>>
signInVars == <<accountRow, otpTable, browser, account, requestVars>>

NoPassword == -1
Purposes == {"login", "password-reset"}
CodeIds == DOMAIN otps
Wrong == 0

\* The steps of Login and of ForgotPasswordFlow, and the app behind them.
Pages == {"login", "initial", "twofactor", "email", "otp", "password", "success", "home"}

\* A page, and the password that its token stands for.
Shows(page, proof) == [page |-> page, proof |-> proof]

SignInSteps == {"idle", "resend_count", "otp_void", "otp_insert", "otp_mail", "otp_select",
                "otp_pass", "otp_miss", "session_read", "trust_read",
                "password_write", "renewed_read", "signin_answer"}

SignInTypeOK ==
    /\ password \in 0 .. MaxPasswords
    /\ {mustChange, locked} \subseteq BOOLEAN
    /\ otps \in Seq([purpose : Purposes, attempts : 0 .. MAX_ATTEMPTS, consumed : BOOLEAN])
    /\ Len(otps) <= MaxCodes
    /\ inbox \subseteq CodeIds
    /\ trusted \in {NoPassword} \cup 0 .. MaxPasswords
    /\ tab \in [Tabs -> [page : Pages, proof : {NoPassword} \cup 0 .. MaxPasswords]]
    /\ Len(knew) = password
    /\ passed \in [1 .. MaxCodes -> Nat] /\ missed \in [1 .. MaxCodes -> Nat]
    /\ \A c \in Slots : slot[c].pc \in SignInSteps

SignInStart(s) ==
    /\ account = s
    /\ password = 0
    /\ mustChange = s.initial
    /\ locked = FALSE
    /\ otps = <<>>
    /\ inbox = {}
    /\ trusted = NoPassword
    /\ tab = [t \in Tabs |-> Shows("login", NoPassword)]
    /\ knew = <<>>
    /\ passed = [i \in 1 .. MaxCodes |-> 0]
    /\ missed = [i \in 1 .. MaxCodes |-> 0]

SignInInit == RequestsInit /\ \E s \in SignInScenes : mode = s.mode /\ SignInStart(s)

twoFactorEnabled == account.codes
isPasswordResetEligible == ~locked
isTrustedBrowser == trusted = password      \* and its cookie has not expired

-----------------------------------------------------------------------------
(* Requests: a tab sends one at a time, except that a code may be verified *)
(* while another one is sent (TwoFactorChallenge: busy and resending).     *)

Pending(t) == {c \in Slots : ~At(c, "idle") /\ slot[c].tab = t}
waits(t) == \E c \in Pending(t) : slot[c].call # "resend"
resending(t) == \E c \in Pending(t) : slot[c].call = "resend"

\* The request of a tab, with what the tab shows when the answer comes.
Request(step, call, t, shows) == [pc |-> step, call |-> call, tab |-> t, shows |-> shows]

Sends(c, t, page, request) ==
    /\ tab[t].page = page
    /\ ~waits(t)
    /\ Enter(c, request)
    /\ UNCHANGED <<accountRow, otpTable, browser>>

\* The request goes on with its next statement, and shows the tab something else at its end.
Continue(c, step, shows) == slot' = [slot EXCEPT ![c].pc = step, ![c].shows = shows]

Answer(c) ==
    /\ At(c, "signin_answer")
    /\ tab' = [tab EXCEPT ![slot[c].tab] = slot[c].shows]
    /\ Finish(c)
    /\ UNCHANGED <<accountRow, otpTable, inbox, trusted>>

\* The request dies, or its answer is lost: the page shows an error, and stays.
NoAnswer(c) ==
    /\ Fail(c)
    /\ UNCHANGED <<accountRow, otpTable, browser>>

-----------------------------------------------------------------------------
(* One-time codes: OtpService. *)

LiveCodes(p) == {i \in CodeIds : otps[i].purpose = p /\ ~otps[i].consumed}

\* What the codes of a request are for.
PurposeOf(c) == IF slot[c].shows.page \in {"otp", "password"} THEN "password-reset" ELSE "login"

\* assertCanResend: the last code is 60 seconds old, and its window has room for another.
ResendCount(c) ==
    /\ At(c, "resend_count")
    /\ Goto(c, "otp_void") \/ Finish(c)
    /\ UNCHANGED <<accountRow, otpTable, browser>>

\* Mutant of OtpVoid: the codes of the default purpose.
OtpVoidLogin(c) ==
    /\ At(c, "otp_void")
    /\ otps' = [i \in CodeIds |-> [otps[i] EXCEPT !.consumed = @ \/ otps[i].purpose = "login"]]
    /\ Goto(c, "otp_insert")
    /\ UNCHANGED <<accountRow, passed, missed, browser>>

\* issue: UPDATE ... SET consumed_at = NOW() WHERE consumed_at IS NULL
OtpVoid(c) ==
    /\ At(c, "otp_void")
    /\ otps' = [i \in CodeIds |-> [otps[i] EXCEPT !.consumed = @ \/ otps[i].purpose = PurposeOf(c)]]
    /\ Goto(c, "otp_insert")
    /\ UNCHANGED <<accountRow, passed, missed, browser>>

\* issue: its INSERT.
OtpInsert(c) ==
    /\ At(c, "otp_insert")
    /\ Len(otps) < MaxCodes
    /\ otps' = Append(otps, [purpose |-> PurposeOf(c), attempts |-> 0, consumed |-> FALSE])
    /\ Become(c, [pc |-> "otp_mail", call |-> slot[c].call, tab |-> slot[c].tab,
                  shows |-> slot[c].shows, code |-> Len(otps) + 1])
    /\ UNCHANGED <<accountRow, passed, missed, browser>>

OtpMail(c) ==
    /\ At(c, "otp_mail")
    /\ inbox' = inbox \cup {slot[c].code}
    /\ Become(c, Request("signin_answer", slot[c].call, slot[c].tab, slot[c].shows))
    /\ UNCHANGED <<accountRow, otpTable, trusted, tab>>

\* verify: the newest live code, and whether the code that was entered is this one.  (That
\* a code with MAX_ATTEMPTS were live cannot be: OtpMiss has consumed it.)
OtpSelect(c) ==
    /\ At(c, "otp_select")
    /\ \/ Finish(c)     \* no code, or it has expired
       \/ /\ LiveCodes(PurposeOf(c)) # {}
          /\ LET i == Max(LiveCodes(PurposeOf(c)))
                 step == IF slot[c].entered = i THEN "otp_pass" ELSE "otp_miss"
             IN Become(c, [pc |-> step, call |-> slot[c].call, tab |-> slot[c].tab,
                           shows |-> slot[c].shows, id |-> i, attempts |-> otps[i].attempts])
    /\ UNCHANGED <<accountRow, otpTable, browser>>

\* verify: a wrong code; the attempts are those that were read, and one.
OtpMiss(c) ==
    /\ At(c, "otp_miss")
    /\ LET i == slot[c].id
           attempts == slot[c].attempts + 1
       IN /\ otps' = [otps EXCEPT ![i].attempts = attempts,
                                  ![i].consumed = @ \/ attempts >= MAX_ATTEMPTS]
          /\ missed' = [missed EXCEPT ![i] = @ + 1]
    /\ Finish(c)
    /\ UNCHANGED <<accountRow, passed, browser>>

\* verify: the right code; then the caller goes on.
OtpPass(c) ==
    /\ At(c, "otp_pass")
    /\ otps' = [otps EXCEPT ![slot[c].id].consumed = TRUE]
    /\ passed' = [passed EXCEPT ![slot[c].id] = @ + 1]
    /\ Become(c, Request(IF slot[c].shows.page = "home" THEN "session_read" ELSE "signin_answer",
                         slot[c].call, slot[c].tab, slot[c].shows))
    /\ UNCHANGED <<accountRow, missed, browser>>

-----------------------------------------------------------------------------
(* Login. *)

\* validateLocal: the requests that it may go on as.  (A cookie may have expired.)
validateLocal(t) ==
    IF mustChange
    THEN {Request("signin_answer", "login", t, Shows("initial", password))}
    ELSE (IF ~twoFactorEnabled \/ isTrustedBrowser
          THEN {Request("signin_answer", "login", t, Shows("home", password))} ELSE {})
         \cup
         (IF twoFactorEnabled
          THEN {Request("otp_void", "login", t, Shows("twofactor", password))} ELSE {})

\* onSubmit
LoginSubmit(c, t) ==
    /\ ~locked
    /\ \E request \in validateLocal(t) : Sends(c, t, "login", request)

\* validateGoogle
validateGoogle(t) == Request("signin_answer", "google", t, Shows("home", NoPassword))

\* The way to Google and back: AuthCallback with loginWithToken.
GoogleCallback(c, t) == ~locked /\ Sends(c, t, "login", validateGoogle(t))

\* completeInitialPasswordChange: the tests before the change.
completeInitialPasswordChange == ~locked /\ mustChange

\* InitialPasswordChallenge: submit.
InitialSubmit(c, t) ==
    /\ completeInitialPasswordChange
    /\ password < MaxPasswords
    /\ Sends(c, t, "initial", Request("password_write", "initial", t, tab[t]))

\* The rest of it: the user is read again, and the login goes on.
RenewedRead(c) ==
    /\ At(c, "renewed_read")
    /\ IF twoFactorEnabled
       THEN Continue(c, "otp_void", Shows("twofactor", password))
       ELSE IF locked THEN Finish(c)
       ELSE Continue(c, "signin_answer", Shows("home", password))
    /\ UNCHANGED <<accountRow, otpTable, browser>>

\* TwoFactorChallenge: submit, with verifyTwoFactor.
CodeSubmit(c, t, code) ==
    /\ Sends(c, t, "twofactor",
             [pc |-> "otp_select", call |-> "verify", tab |-> t, entered |-> code,
              shows |-> Shows("home", tab[t].proof)])

\* verifyTwoFactor reads the user for the session, createTrustedBrowserToken for the cookie.
SessionRead(c) ==
    /\ At(c, "session_read")
    /\ IF locked THEN Finish(c) ELSE Goto(c, "trust_read")
    /\ UNCHANGED <<accountRow, otpTable, browser>>

TrustRead(c) ==
    /\ At(c, "trust_read")
    /\ \/ /\ ~locked
          /\ trusted' = password
          /\ tab' = [tab EXCEPT ![slot[c].tab] = slot[c].shows]
       \/ UNCHANGED <<trusted, tab>>    \* refused, or the answer with the cookie is lost
    /\ Finish(c)
    /\ UNCHANGED <<accountRow, otpTable, inbox>>

\* TwoFactorChallenge: onResend, with resendOtp.  The token of the challenge stays.
CodeResend(c, t) ==
    /\ tab[t].page = "twofactor"
    /\ ~resending(t)
    /\ Enter(c, Request("resend_count", "resend", t, tab[t]))
    /\ UNCHANGED <<accountRow, otpTable, browser>>

-----------------------------------------------------------------------------
(* A forgotten password: ForgotPasswordFlow. *)

\* beginForgotPassword and resendPasswordResetOtp: what they begin with.  An address
\* without an account gets the same answer, and no mail.
beginForgotPassword == IF isPasswordResetEligible THEN "otp_void" ELSE "signin_answer"
resendPasswordResetOtp == IF isPasswordResetEligible THEN "resend_count" ELSE "signin_answer"

\* sendOtp
ForgotSend(c, t) ==
    Sends(c, t, "email", Request(beginForgotPassword, "forgot", t, Shows("otp", NoPassword)))

\* resendOtp
ForgotResend(c, t) == Sends(c, t, "otp", Request(resendPasswordResetOtp, "forgot", t, tab[t]))

\* verifyPasswordResetOtp: the grant is for the password that is read before the code.
verifyPasswordResetOtp(t, code) ==
    [pc |-> "otp_select", call |-> "verify", tab |-> t, entered |-> code,
     shows |-> Shows("password", password)]

\* verifyOtp
ForgotVerify(c, t, code) ==
    isPasswordResetEligible /\ Sends(c, t, "otp", verifyPasswordResetOtp(t, code))

\* Mutant of resetPassword: passwordVersion is not compared.
resetPasswordLate(grant) == isPasswordResetEligible

\* resetPassword: the account, and the password that the grant is for.
resetPassword(grant) == isPasswordResetEligible /\ grant = password

\* updatePassword of the page
ResetSubmit(c, t) ==
    /\ resetPassword(tab[t].proof)
    /\ password < MaxPasswords
    /\ Sends(c, t, "password", Request("password_write", "reset", t, tab[t]))

-----------------------------------------------------------------------------
(* The account. *)

\* changePassword, with the current password entered.
changePassword(t) == Request("password_write", "change", t, Shows("home", password))

\* ChangePasswordModal: submit.
ChangeSubmit(c, t) ==
    /\ ~locked
    /\ password < MaxPasswords
    /\ Sends(c, t, "home", changePassword(t))

\* UsersService.updatePassword
updatePassword(c) ==
    /\ At(c, "password_write")
    /\ password < MaxPasswords
    /\ password' = password + 1
    /\ mustChange' = FALSE
    /\ knew' = Append(knew, slot[c].shows.proof)
    /\ CASE slot[c].call = "initial" -> Goto(c, "renewed_read")
         [] slot[c].call = "reset" -> Continue(c, "signin_answer", Shows("success", NoPassword))
         [] OTHER -> Continue(c, "signin_answer", tab[slot[c].tab])
    /\ UNCHANGED <<locked, otpTable, browser>>

\* AdminService.updateUser: activated.
LockChange ==
    /\ InTurn => Quiet
    /\ locked' = ~locked
    /\ UNCHANGED <<password, mustChange, knew, otpTable, browser, slot>>

-----------------------------------------------------------------------------
(* The pages: what each of them offers. *)

\* A link that drops what the page holds.
Link(t, from, to) ==
    /\ tab[t].page \in from
    /\ Pending(t) = {}
    /\ tab' = [tab EXCEPT ![t] = Shows(to, NoPassword)]
    /\ UNCHANGED <<accountRow, otpTable, inbox, trusted, slot>>

Login(c, t) == LoginSubmit(c, t) \/ GoogleCallback(c, t) \/ Link(t, {"login"}, "email")

InitialPasswordChallenge(c, t) == InitialSubmit(c, t) \/ Link(t, {"initial"}, "login")

Codes == inbox \cup {Wrong}

TwoFactorChallenge(c, t) ==
    \/ \E code \in Codes : CodeSubmit(c, t, code)
    \/ CodeResend(c, t)
    \/ Link(t, {"twofactor"}, "login")

EmailStep(c, t) == ForgotSend(c, t) \/ Link(t, {"email"}, "login")

OtpStep(c, t) ==
    \/ \E code \in Codes : ForgotVerify(c, t, code)
    \/ ForgotResend(c, t)
    \/ Link(t, {"otp"}, "email")

PasswordStep(c, t) == ResetSubmit(c, t) \/ Link(t, {"password"}, "email")

SuccessStep(t) == Link(t, {"success"}, "login")

\* The app: the change of the password and the logout.
Home(c, t) == ChangeSubmit(c, t) \/ Link(t, {"home"}, "login")

\* The page is loaded anew, or an answer 401 leads from the app to the login.
Reload(t) == Link(t, Pages \ {"login"}, "login")

TabCall(c, t) ==
    \/ Login(c, t) \/ InitialPasswordChallenge(c, t) \/ TwoFactorChallenge(c, t)
    \/ EmailStep(c, t) \/ OtpStep(c, t) \/ PasswordStep(c, t)
    \/ SuccessStep(t)
    \/ Home(c, t)

SignInStep(c) ==
    \/ ResendCount(c) \/ OtpVoid(c) \/ OtpInsert(c) \/ OtpMail(c)
    \/ OtpSelect(c) \/ OtpPass(c) \/ OtpMiss(c)
    \/ SessionRead(c) \/ TrustRead(c) \/ updatePassword(c) \/ RenewedRead(c)
    \/ Answer(c) \/ NoAnswer(c)

SignInNext ==
    /\ \/ \E c \in Slots : SignInStep(c) \/ \E t \in account.tabs : TabCall(c, t)
       \/ \E t \in account.tabs : Reload(t)
       \/ LockChange
    /\ UNCHANGED <<account, mode>>

SignInSpec == SignInInit /\ [][SignInNext]_signInVars

-----------------------------------------------------------------------------
\* One request at a time whatever dies, or any number of them from one tab.
OneAsks == InTurn \/ (Undisturbed /\ Cardinality(account.tabs) = 1)

\* A password is changed by somebody who has shown to know the one that it replaces, or
\* to have the mailbox while it was the current one: a grant or a challenge does not
\* outlive a change, be it by the same token, in another tab or in the app.
PasswordFollowsPassword == OneAsks => \A n \in DOMAIN knew : knew[n] = n - 1

\* A code lets in once, and never after MAX_ATTEMPTS wrong ones; one request at a time
\* there is one live code for a purpose, whatever dies while another one is issued.
CodesAreSpent ==
    /\ OneAsks => \A i \in CodeIds : passed[i] <= 1 /\ missed[i] <= MAX_ATTEMPTS
    /\ InTurn => \A p \in Purposes : Cardinality(LiveCodes(p)) <= 1
=============================================================================
