-------------------------------- MODULE Access --------------------------------
(***************************************************************************)
(* Logging in and the second factor: the two middlewares of main.py that   *)
(* count by client address, the login of api/routes/auth.py behind them,   *)
(* and api/routes/two_factor.py, as one client address and one account see *)
(* them in one server process.                                             *)
(*                                                                         *)
(* A request suspends at every await: between a middleware and what it     *)
(* wraps, between the SELECT of the user row and the commit, and before    *)
(* the answer travels back through the middlewares.  Other requests run in *)
(* between.  Time is kept as the age of each timestamp, in ticks; an age   *)
(* stops at the length of its window, past which nothing looks at it.      *)
(***************************************************************************)
EXTENDS Naturals, FiniteSets, Sequences

CONSTANTS
    Requests,        \* requests that can be in flight at the same time
    max_attempts,    \* failed logins that lock the address out
    lockout,         \* for how long, in ticks
    rpm,             \* requests an address may make ...
    Minute,          \* ... in this many ticks
    MaxSecrets,      \* bound: TOTP secrets generated
    None             \* no row

ASSUME ConstantsOK ==
    /\ IsFiniteSet(Requests) /\ Requests # {}
    /\ max_attempts \in Nat \ {0} /\ lockout \in Nat \ {0}
    /\ rpm \in Nat \ {0} /\ Minute \in Nat \ {0}
    /\ MaxSecrets \in Nat
    /\ None \notin [secret : Nat, enabled : BOOLEAN]

Older(a, window) == IF a < window THEN a + 1 ELSE a

Setups == {"enable", "verify", "disable"}   \* the handlers of two_factor.py
Kinds  == {"login"} \union Setups
Stages == {"idle", "limit", "load", "commit", "answer"}
\* Secrets are numbered as they are generated; 0 is no secret, or no code.
Secrets == 0 .. MaxSecrets
Row     == [secret : Secrets, enabled : BOOLEAN]

VARIABLES
    failed_attempts, \* BruteForceProtectionMiddleware: ages of the failures
    requests,        \* GlobalRateLimitMiddleware: ages of the requests let in
    user,            \* totp_secret and is_2fa_enabled of the account
    generated,       \* secrets generated so far
    \* the requests in flight
    stage, kind,
    now,             \* the age of the time the middleware took
    row,             \* the user row as the session loaded it
    status,          \* the answer to a login
    \* observations
    rejected,        \* ages of the logins that failed since the last success
    served,          \* ages of the requests whose handler was started
    proved,          \* the last secret /verify was given a code of
    torn             \* two second-factor requests have overlapped

account     == <<user, generated, proved, torn>>
requestVars == <<stage, kind, now, row, status>>
vars == <<failed_attempts, requests, user, generated, stage, kind, now, row, status,
          rejected, served, proved, torn>>

Init ==
    /\ failed_attempts = <<>> /\ requests = <<>>
    /\ rejected = <<>> /\ served = <<>>
    /\ user = [secret |-> 0, enabled |-> FALSE]
    /\ generated = 0 /\ proved = 0 /\ torn = FALSE
    /\ stage = [r \in Requests |-> "idle"]
    /\ kind = [r \in Requests |-> "login"]
    /\ now = [r \in Requests |-> 0]
    /\ row = [r \in Requests |-> None]
    /\ status = [r \in Requests |-> 0]

\* The comprehension that prunes a list: what it has kept of the first i ages.
Kept(ages, window) ==
    LET kept[i \in 0 .. Len(ages)] ==
            IF i = 0 THEN <<>>
            ELSE IF ages[i] < window THEN Append(kept[i - 1], ages[i]) ELSE kept[i - 1]
    IN kept

Within(ages, window) == Kept(ages, window)[Len(ages)]

-----------------------------------------------------------------------------
(***************************************************************************)
(* BruteForceProtectionMiddleware.  It prunes, looks, and awaits the rest; *)
(* a request it refuses is answered at once and leaves no trace.           *)
(***************************************************************************)
LockedOut == Len(Within(failed_attempts, lockout)) >= max_attempts

\* Variant for a mutation check: a refused attempt counts as a failure.
RefuseAndCount(r) ==
    /\ stage[r] = "idle"
    /\ LockedOut
    /\ failed_attempts' = Append(Tail(Within(failed_attempts, lockout)), 0)
    /\ UNCHANGED <<account, requests, rejected, served, requestVars>>

RefuseLogin(r) ==
    /\ stage[r] = "idle"
    /\ LockedOut
    /\ failed_attempts' = Within(failed_attempts, lockout)
    /\ UNCHANGED <<account, requests, rejected, served, requestVars>>

Begin(r, k) ==
    /\ stage[r] = "idle"
    /\ stage' = [stage EXCEPT ![r] = "limit"]
    /\ kind' = [kind EXCEPT ![r] = k]
    /\ now' = [now EXCEPT ![r] = 0]
    /\ UNCHANGED <<account, requests, rejected, served, row, status>>

BeginLogin(r) ==
    /\ ~LockedOut
    /\ failed_attempts' = Within(failed_attempts, lockout)
    /\ Begin(r, "login")

\* The paths of two_factor.py are not counted by the brute-force middleware.
BeginSetup(r) ==
    /\ \E k \in Setups : Begin(r, k)
    /\ UNCHANGED failed_attempts

\* What a request leaves behind when it is over.
Close(r) == /\ stage' = [stage EXCEPT ![r] = "idle"]
            /\ kind' = [kind EXCEPT ![r] = "login"]
            /\ now' = [now EXCEPT ![r] = 0]
            /\ row' = [row EXCEPT ![r] = None]
            /\ status' = [status EXCEPT ![r] = 0]

\* Only for a login is anything left to do when the answer is there.
Reply(r, s) ==
    IF kind[r] = "login"
    THEN /\ stage' = [stage EXCEPT ![r] = "answer"]
         /\ status' = [status EXCEPT ![r] = s]
         /\ UNCHANGED <<kind, now, row>>
    ELSE Close(r)

(***************************************************************************)
(* GlobalRateLimitMiddleware, inside of the one above: a request it lets   *)
(* through is recorded before it is awaited.                               *)
(***************************************************************************)
OverLimit == Len(Within(requests, Minute)) >= rpm

Deny(r) ==
    /\ stage[r] = "limit"
    /\ OverLimit
    /\ requests' = Within(requests, Minute)
    /\ Reply(r, 429)
    /\ UNCHANGED <<account, failed_attempts, rejected, served>>

\* Variant for a mutation check: recorded when the answer is there.
AdmitUnrecorded(r) ==
    /\ stage[r] = "limit"
    /\ ~OverLimit
    /\ requests' = Within(requests, Minute)
    /\ served' = Append(Within(served, Minute), 0)
    /\ stage' = [stage EXCEPT ![r] = "load"]
    /\ UNCHANGED <<account, failed_attempts, rejected, kind, now, row, status>>

Admit(r) ==
    /\ stage[r] = "limit"
    /\ ~OverLimit
    /\ requests' = Append(Within(requests, Minute), 0)
    /\ served' = Append(Within(served, Minute), 0)
    /\ stage' = [stage EXCEPT ![r] = "load"]
    /\ UNCHANGED <<account, failed_attempts, rejected, kind, now, row, status>>

-----------------------------------------------------------------------------
(***************************************************************************)
(* The handlers.  One SELECT loads the user row; what follows up to the    *)
(* commit works on that copy.                                              *)
(***************************************************************************)
\* A one-time code is known by the secret it was made from.
Codes == 0 .. generated
VerifyTotp(secret, c) == secret # 0 /\ c # 0 /\ c = secret

\* Variant for a mutation check: a missing code is a bad request.
LoginAnswerBadRequest(u, p, c) ==
    IF p /\ u.enabled /\ c = 0 THEN 400
    ELSE IF p /\ (u.enabled => VerifyTotp(u.secret, c)) THEN 200 ELSE 401

\* p: the password fits the address.
LoginAnswer(u, p, c) ==
    IF p /\ (u.enabled => VerifyTotp(u.secret, c)) THEN 200 ELSE 401

\* 500: the commit of last_login_at failed.
Login(r) ==
    /\ stage[r] = "load" /\ kind[r] = "login"
    /\ \E p \in BOOLEAN, c \in Codes :
          LET answer == LoginAnswer(user, p, c) IN
          /\ \/ Reply(r, answer)
             \/ answer = 200 /\ Reply(r, 500)
          /\ rejected' = IF answer = 401 THEN Append(rejected, now[r]) ELSE rejected
    /\ UNCHANGED <<account, failed_attempts, requests, served>>

\* Variant for a mutation check: /verify takes any code.
SetupAnswerUnverified(k, u, c) ==
    CASE k = "enable"  -> IF u.enabled THEN 400 ELSE 200
      [] k = "verify"  -> IF u.secret = 0 THEN 400 ELSE 200
      [] k = "disable" -> IF ~u.enabled THEN 400
                          ELSE IF VerifyTotp(u.secret, c) THEN 200 ELSE 401

SetupAnswer(k, u, c) ==
    CASE k = "enable"  -> IF u.enabled THEN 400 ELSE 200
      [] k = "verify"  -> IF u.secret = 0 THEN 400
                          ELSE IF VerifyTotp(u.secret, c) THEN 200 ELSE 401
      [] k = "disable" -> IF ~u.enabled THEN 400
                          ELSE IF VerifyTotp(u.secret, c) THEN 200 ELSE 401

Setup(r) ==
    /\ stage[r] = "load" /\ kind[r] \in Setups
    /\ \E c \in Codes :
          IF SetupAnswer(kind[r], user, c) = 200
          THEN /\ stage' = [stage EXCEPT ![r] = "commit"]
               /\ row' = [row EXCEPT ![r] = user]
               /\ torn' = (torn \/ \E q \in Requests : stage[q] = "commit")
               /\ proved' = IF kind[r] = "verify" /\ VerifyTotp(user.secret, c)
                             THEN c ELSE proved
               /\ UNCHANGED <<kind, now, status>>
          ELSE /\ Reply(r, SetupAnswer(kind[r], user, c))
               /\ UNCHANGED <<torn, proved>>
    /\ UNCHANGED <<failed_attempts, requests, rejected, served, user, generated>>

\* The ORM writes a column only if it differs from what the session loaded.
Save(mine, r) ==
    user' = [secret  |-> IF mine.secret # row[r].secret THEN mine.secret ELSE user.secret,
             enabled |-> IF mine.enabled # row[r].enabled THEN mine.enabled ELSE user.enabled]

CommitEnable(r) ==
    /\ kind[r] = "enable"
    /\ generated < MaxSecrets
    /\ generated' = generated + 1
    /\ Save([row[r] EXCEPT !.secret = generated + 1], r)

CommitVerify(r) ==
    /\ kind[r] = "verify"
    /\ Save([row[r] EXCEPT !.enabled = TRUE], r)
    /\ UNCHANGED generated

CommitDisable(r) ==
    /\ kind[r] = "disable"
    /\ Save([secret |-> 0, enabled |-> FALSE], r)
    /\ UNCHANGED generated

Commit(r) ==
    /\ stage[r] = "commit"
    /\ CommitEnable(r) \/ CommitVerify(r) \/ CommitDisable(r)
    /\ Reply(r, 200)
    /\ UNCHANGED <<failed_attempts, requests, rejected, served, proved, torn>>

CommitFails(r) ==
    /\ stage[r] = "commit"
    /\ Reply(r, 500)
    /\ UNCHANGED <<account, failed_attempts, requests, rejected, served>>

-----------------------------------------------------------------------------
(***************************************************************************)
(* The answer passes the brute-force middleware on its way out.            *)
(***************************************************************************)
\* Variant for a mutation check: the list is replaced, not extended.
RecordAnew(r) ==
    failed_attempts' = IF status[r] = 401 THEN <<now[r]>>
                       ELSE IF status[r] = 200 THEN <<>> ELSE failed_attempts

Record(r) ==
    failed_attempts' = IF status[r] = 401 THEN Append(failed_attempts, now[r])
                       ELSE IF status[r] = 200 THEN <<>> ELSE failed_attempts

Respond(r) ==
    /\ stage[r] = "answer"
    /\ Record(r)
    /\ rejected' = IF status[r] = 200 THEN <<>> ELSE rejected
    /\ Close(r)
    /\ UNCHANGED <<account, requests, served>>

Aged(ages, window) == [i \in DOMAIN ages |-> Older(ages[i], window)]
Tick ==
    /\ failed_attempts' = Aged(failed_attempts, lockout)
    /\ requests' = Aged(requests, Minute)
    /\ rejected' = Within(Aged(rejected, lockout), lockout)
    /\ served' = Within(Aged(served, Minute), Minute)
    /\ now' = [r \in Requests |-> IF stage[r] # "idle" /\ kind[r] = "login"
                                 THEN Older(now[r], lockout) ELSE 0]
    /\ UNCHANGED <<account, stage, kind, row, status>>

MiddlewareStep(r) == \/ RefuseLogin(r) \/ BeginLogin(r) \/ BeginSetup(r)
                     \/ Deny(r) \/ Admit(r) \/ Respond(r)
HandlerStep(r)    == Login(r) \/ Setup(r) \/ Commit(r) \/ CommitFails(r)

Next == \/ \E r \in Requests : MiddlewareStep(r) \/ HandlerStep(r)
        \/ Tick

Spec == Init /\ [][Next]_vars

(***************************************************************************)
(* Time goes on.  Nothing is said of the clients, nor of the handlers.     *)
(***************************************************************************)
FairSpec == Spec /\ WF_vars(Tick)

-----------------------------------------------------------------------------
TypeOK ==
    /\ failed_attempts \in Seq(0 .. lockout) /\ rejected \in Seq(0 .. lockout)
    /\ requests \in Seq(0 .. Minute) /\ served \in Seq(0 .. Minute)
    /\ user \in Row /\ generated \in Secrets /\ proved \in 0 .. generated
    /\ user.secret <= generated /\ torn \in BOOLEAN
    /\ stage \in [Requests -> Stages] /\ kind \in [Requests -> Kinds]
    /\ now \in [Requests -> 0 .. lockout]
    /\ row \in [Requests -> Row \union {None}]
    /\ status \in [Requests -> {0, 200, 401, 429, 500}]
    /\ \A r \in Requests : /\ stage[r] = "commit" => row[r] \in Row /\ kind[r] \in Setups
                           /\ row[r] # None => row[r].secret <= generated

(***************************************************************************)
(* However logins overlap, the failures of one lockout period are at most  *)
(* the allowed ones and one for each further request in flight: the check  *)
(* before the await lets no more through, and a success is the only thing  *)
(* that wipes failures out (main.py:110-129).                              *)
(***************************************************************************)
FailuresBounded ==
    Len(Within(rejected, lockout)) <= max_attempts + Cardinality(Requests) - 1

(***************************************************************************)
(* In no window of a minute are more than rpm handlers of an address       *)
(* started (main.py:152-160), requests that overlap included.              *)
(***************************************************************************)
RateBounded == Len(Within(served, Minute)) <= rpm

(***************************************************************************)
(* While second-factor requests do not overlap, an enabled second factor   *)
(* has a secret that a code was checked against (two_factor.py:38-97):     *)
(* the account can be logged in to.                                        *)
(***************************************************************************)
EnabledWasVerified == ~torn => (user.enabled => user.secret # 0 /\ user.secret = proved)

(***************************************************************************)
(* A locked address is let in again, whatever is still in flight and       *)
(* however often it asks meanwhile (main.py:107-117).                      *)
(***************************************************************************)
LockoutEnds == LockedOut ~> ~LockedOut

===============================================================================
