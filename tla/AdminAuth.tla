----------------------------- MODULE AdminAuth -----------------------------
(***************************************************************************)
(* One administrator (admin/auth.py, accounts.py, routers/auth.py,         *)
(* cli/admin.py, core/ratelimit.py): logging in, sessions, the second      *)
(* factor, and the counter of attempts in Redis.                           *)
(*                                                                         *)
(* A request loads the row of the administrator with its session, without  *)
(* a lock, checks it, and commits later: an UPDATE writes the columns the  *)
(* request has changed.  Requests of two windows of a browser, and the     *)
(* command line, may overlap.  Passwords and codes are right or wrong;     *)
(* what a token looks like, cookies and audit entries are left out.        *)
(*                                                                         *)
(* An operator X_Y is X with the slip Y, as in SubscriptionState.          *)
(***************************************************************************)
EXTENDS Integers, FiniteSets

CONSTANTS Limit,        \* LOGIN_LIMIT, SECRET_LIMIT
          Window,       \* LOGIN_WINDOW_S, SECRET_WINDOW_S
          Windows,      \* requests that may be under way at once
          Overlap,      \* may two of them change the second factor at once
          MaxSecrets, MaxSessions   \* bounds of the model

AdminAuthAssumption ==
    /\ Overlap \in BOOLEAN
    /\ Limit \in Nat /\ Window \in Nat \ {0} /\ MaxSecrets \in Nat /\ MaxSessions \in Nat

VARIABLES totp,       \* totp_enabled, totp_secret (0 is NULL) of the row
          secrets,    \* secrets that totp_setup has made
          confirmed,  \* those whose code the administrator has typed
          sessions,   \* admin_sessions, by id
          opened,     \* ids given
          counter,    \* by key: the count in Redis, the time it has left
          admitted,   \* by key: attempts let through since the count began
          request     \* by window: what it does, as whom, what it loaded

vars == <<totp, secrets, confirmed, sessions, opened, counter, admitted, request>>

Keys == {"login", "totp", "password"}
NoSecret == 0
NoCount == [n |-> 0, left |-> 0]
Idle == [op |-> "none", session |-> 0, seen |-> [enabled |-> FALSE, secret |-> NoSecret]]
CLI == 0                \* the session of a command: none

----------------------------------------------------------------------------
Hit_Prolongs(k) ==
    counter' = [counter EXCEPT ![k] = [n |-> IF @.n > Limit THEN @.n ELSE @.n + 1, left |-> Window]]
\* ratelimit.hit: INCR and EXPIRE NX in one transaction.  A count past the limit is one value.
Hit(k) ==
    counter' = [counter EXCEPT ![k] = [n |-> IF @.n > Limit THEN @.n ELSE @.n + 1,
                                       left |-> IF @.left = 0 THEN Window ELSE @.left]]
Passes_OneMore(k) == counter[k].n <= Limit
Passes(k) == counter[k].n + 1 <= Limit

\* Redis: time goes by, a key whose time is up is gone.
Tick ==
    /\ \E k \in Keys : counter[k].left > 0
    /\ counter' = [k \in Keys |-> IF counter[k].left > 1 THEN [counter[k] EXCEPT !.left = @ - 1]
                                  ELSE NoCount]
    /\ admitted' = [k \in Keys |-> IF counter[k].left > 1 THEN admitted[k] ELSE 0]
    /\ UNCHANGED <<totp, secrets, confirmed, sessions, opened, request>>

\* An attempt: one more is counted, and it goes on or is answered with RateLimited.
Attempt(w, r, k) ==
    /\ Hit(k)
    /\ IF Passes(k)
       THEN request' = [request EXCEPT ![w] = r] /\ admitted' = [admitted EXCEPT ![k] = @ + 1]
       ELSE UNCHANGED <<request, admitted>>
    /\ UNCHANGED <<totp, secrets, confirmed, sessions, opened>>

----------------------------------------------------------------------------
TryLogin(w) == request[w] = Idle /\ Attempt(w, [Idle EXCEPT !.op = "login"], "login")

\* Wrong name, password or code, or no code: the attempt stays counted.
FailLogin(w) ==
    /\ request[w].op = "login"
    /\ request' = [request EXCEPT ![w] = Idle]
    /\ UNCHANGED <<totp, secrets, confirmed, sessions, opened, counter, admitted>>

\* With the factor on, the code is checked against the secret; the count starts anew.
Login(w) ==
    /\ request[w].op = "login" /\ opened < MaxSessions
    /\ totp.enabled => totp.secret # NoSecret
    /\ opened' = opened + 1 /\ sessions' = sessions \cup {opened + 1}
    /\ counter' = [counter EXCEPT !["login"] = NoCount]
    /\ admitted' = [admitted EXCEPT !["login"] = 0]
    /\ request' = [request EXCEPT ![w] = Idle]
    /\ UNCHANGED <<totp, secrets, confirmed>>

\* authenticate: an expired session is deleted; logout and delete_session do the same.
EndSession(s) ==
    /\ s \in sessions
    /\ sessions' = sessions \ {s}
    /\ UNCHANGED <<totp, secrets, confirmed, opened, counter, admitted, request>>

----------------------------------------------------------------------------
As(s, op) == [op |-> op, session |-> s, seen |-> totp]
Load(w, s, op) ==
    /\ request' = [request EXCEPT ![w] = As(s, op)]
    /\ UNCHANGED <<totp, secrets, confirmed, sessions, opened, counter, admitted>>

\* current_admin, the guard of the operation, and the code, which is right or ends it (Fail).
MaySetUp_Again == TRUE
MaySetUp == ~totp.enabled
MayConfirm == ~totp.enabled /\ totp.secret # NoSecret
MayDisable == totp.enabled /\ totp.secret # NoSecret
Alone(w) == \A v \in Windows \ {w} : request[v].op \in {"none", "login", "password"}
MayStart(w) == request[w] = Idle /\ (Overlap \/ Alone(w))

AskSetup(w, s) == MayStart(w) /\ MaySetUp /\ secrets < MaxSecrets /\ Load(w, s, "setup")
\* The attempt is counted before the guard is looked at.
AskConfirm(w, s) ==
    MayStart(w) /\ Attempt(w, As(s, IF MayConfirm THEN "confirm" ELSE "refused"), "totp")
AskDisable(w, s) ==
    MayStart(w) /\ Attempt(w, As(s, IF MayDisable THEN "disable" ELSE "refused"), "totp")
AskPassword(w, s) == request[w] = Idle /\ Attempt(w, As(s, "password"), "password")
\* The command line: without a session, a code or a count.
AskReset(w) == MayStart(w) /\ (totp.enabled \/ totp.secret # NoSecret) /\ Load(w, CLI, "reset")
AskPasswd(w) == request[w] = Idle /\ Load(w, CLI, "password")

Ends(w) == request' = [request EXCEPT ![w] = Idle] /\ UNCHANGED <<opened, counter, admitted>>

\* totp_setup commits and shows the new secret.
Setup(w) ==
    /\ request[w].op = "setup" /\ secrets < MaxSecrets
    /\ secrets' = secrets + 1
    /\ totp' = [totp EXCEPT !.secret = secrets + 1]
    /\ Ends(w) /\ UNCHANGED <<confirmed, sessions>>

\* totp_confirm: the code was of the secret the request has loaded.
Confirm(w) ==
    /\ request[w].op = "confirm"
    /\ totp' = [totp EXCEPT !.enabled = TRUE]
    /\ confirmed' = confirmed \cup {request[w].seen.secret}
    /\ Ends(w) /\ UNCHANGED <<secrets, sessions>>

\* totp_disable, reset_totp: a column that was empty already is not written.
Disable(w) ==
    /\ request[w].op \in {"disable", "reset"}
    /\ totp' = [enabled |-> totp.enabled /\ ~request[w].seen.enabled,
                secret |-> IF request[w].seen.secret = NoSecret THEN totp.secret ELSE NoSecret]
    /\ Ends(w) /\ UNCHANGED <<secrets, confirmed, sessions>>

\* change_password, passwd: the other sessions are closed.
ChangePassword(w) ==
    /\ request[w].op = "password"
    /\ sessions' = sessions \cap {request[w].session}
    /\ Ends(w) /\ UNCHANGED <<totp, secrets, confirmed>>

\* A wrong code or password, a lost request.
Fail(w) ==
    /\ request[w].op \notin {"none", "login"}
    /\ Ends(w) /\ UNCHANGED <<totp, secrets, confirmed, sessions>>

Init ==
    /\ totp = [enabled |-> FALSE, secret |-> NoSecret] /\ secrets = 0 /\ confirmed = {}
    /\ sessions = {} /\ opened = 0
    /\ counter = [k \in Keys |-> NoCount] /\ admitted = [k \in Keys |-> 0]
    /\ request = [w \in Windows |-> Idle]

Next ==
    \/ \E w \in Windows :
         \/ TryLogin(w) \/ FailLogin(w) \/ Login(w) \/ AskReset(w) \/ AskPasswd(w)
         \/ Setup(w) \/ Confirm(w) \/ Disable(w) \/ ChangePassword(w) \/ Fail(w)
         \/ \E s \in sessions :
              AskSetup(w, s) \/ AskConfirm(w, s) \/ AskDisable(w, s) \/ AskPassword(w, s)
    \/ \E s \in sessions : EndSession(s)
    \/ Tick

Spec == Init /\ [][Next]_vars

\* Of the clock only: nobody has to log in.
Fairness == WF_vars(Tick)
FairSpec == Spec /\ Fairness

----------------------------------------------------------------------------
\* Of hit: of the attempts at one thing since its count began, and since the last login that
\* succeeded, the first Limit pass, however many are under way at once.
AttemptsAreBounded == \A k \in Keys : admitted[k] <= Limit

\* Of the comment on hit (ratelimit.py:13-18): a count that refuses comes to its end, and
\* attempts that are refused meanwhile do not put the end off.
RefusalEnds == \A k \in Keys : []<>(counter[k].n <= Limit)

\* Of totp_setup («включается он только после confirm с рабочим кодом»): the factor is on
\* only with a secret whose code was typed, so the administrator can log in.
SecretIsConfirmed == totp.enabled => totp.secret \in confirmed
============================================================================
