----------------------------- MODULE AuthHandler -----------------------------
(***************************************************************************)
(* One account and its credentials (backend/handlers/auth/auth.go,         *)
(* backend/services/auth_service.go and rate_limiter.go).  Almost every    *)
(* endpoint reads the user, changes some of it and saves the whole row, so *)
(* a save puts back what another request has changed in the meantime.      *)
(***************************************************************************)
EXTENDS Rows

CONSTANTS
    Reqs, None,
    Passwords, Codes,  \* passwords; the recovery codes of one generation
    maxFailedAttempts, lockoutDuration, ResetTTL, EmailTTL,
    EmailLimit, EmailWindow,
    MaxTokens, MaxTime

VARIABLES
    user,              \* the row of users, or None
    codes,             \* recovery_codes not used yet
    sessions,          \* user_sessions, counted
    window,            \* the mail limiter's window [count, reset]
    req,
    tokens,            \* tokens handed out so far
    now,
    signedIn,          \* an access token of the account has been issued
    touched,           \* history: the row was written since request r read it
    stale,             \* history: a save has put back an old row
    password,          \* history: the password set last
    spent,             \* history: how often each token or code was accepted
    failures           \* history: failed logins counted since the last success

vars == <<user, codes, sessions, window, req, tokens, now, signedIn, touched, stale, password, spent, failures>>
aux == <<tokens, now, touched, stale, password, spent, failures>>

TypeOK ==
    /\ user # None => user.pw \in Passwords /\ user.totp \in {"off", "setup", "on"} /\ user.failed \in Nat
    /\ codes \subseteq Codes
    /\ sessions \in 0..(Cardinality(Reqs))
    /\ window.count \in 0..EmailLimit

NewUser(pw, token) ==
    [pw |-> pw, verified |-> FALSE, emailToken |-> token, emailUntil |-> now + EmailTTL,
     resetToken |-> 0, resetUntil |-> 0, totp |-> "off", backup |-> {}, failed |-> 0, locked |-> 0]

\* An account that is verified and signed in, with or without a second factor.
Account(pw, totp) ==
    [NewUser(pw, 0) EXCEPT !.verified = TRUE, !.emailUntil = 0, !.totp = totp, !.backup = IF totp = "on" THEN {1} ELSE {}]

Init ==
    /\ tokens = 0 /\ now = 0
    /\ \/ user = None /\ password = None /\ signedIn = FALSE
       \/ \E pw \in Passwords, totp \in {"off", "on"} : user = Account(pw, totp) /\ password = pw /\ signedIn = TRUE
    /\ codes = {} /\ sessions = 0
    /\ window = [count |-> 0, reset |-> 0]
    /\ req = [r \in Reqs |-> New]
    /\ touched = [r \in Reqs |-> FALSE] /\ stale = FALSE
    /\ spent = [t \in (1..MaxTokens) \cup Codes |-> 0]
    /\ failures = 0

Goto(r, q) == req' = [req EXCEPT ![r] = q]

\* Request r writes the user's row.
Write(r, row) ==
    /\ user' = row
    /\ touched' = [p \in Reqs |-> p # r]
    /\ stale' = (stale \/ touched[r])

\* The row as request r reads it, for the operation op.
Read(r, op) ==
    /\ req[r] = New
    /\ user # None
    /\ Goto(r, [pc |-> op, row |-> user])
    /\ touched' = [touched EXCEPT ![r] = FALSE]

\* EmailRateLimiter.Allow: a fixed window.
Allow(w) == IF now > w.reset \/ w.count = 0 THEN [count |-> 1, reset |-> now + EmailWindow]
            ELSE [w EXCEPT !.count = @ + 1]
MayMail(w) == now > w.reset \/ w.count < EmailLimit

\* A second registration fails on the unique index, but counts in the window.
Register(r, pw) ==
    /\ req[r] = New
    /\ MayMail(window)
    /\ window' = Allow(window)
    /\ \/ /\ user = None
          /\ tokens < MaxTokens
          /\ tokens' = tokens + 1
          /\ Write(r, NewUser(pw, tokens + 1))
          /\ password' = pw
          /\ failures' = 0
       \/ user # None /\ UNCHANGED <<user, tokens, touched, stale, password, failures>>
    /\ Goto(r, Done)
    /\ UNCHANGED <<codes, sessions, now, signedIn, spent>>

\* Login: the account is not locked; the password decides.
Login(r, pw) ==
    /\ user # None /\ user.locked <= now
    /\ Read(r, IF pw = user.pw THEN "right" ELSE "wrong")
    /\ UNCHANGED <<user, codes, sessions, window, tokens, now, signedIn, stale, password, spent, failures>>

\* recordAttempt reads the counter again and writes it back one higher.
CountRead(r) ==
    /\ req[r].pc = "wrong"
    /\ user # None
    /\ Goto(r, [pc |-> "count", failed |-> user.failed])
    /\ touched' = [touched EXCEPT ![r] = FALSE]
    /\ UNCHANGED <<user, codes, sessions, window, tokens, now, signedIn, stale, password, spent, failures>>

recordAttempt(row, failed) ==
    [row EXCEPT !.failed = failed, !.locked = IF failed >= maxFailedAttempts THEN now + lockoutDuration ELSE @]

CountWrite(r) ==
    /\ req[r].pc = "count"
    /\ user # None
    /\ Write(r, recordAttempt(user, req[r].failed + 1))
    /\ failures' = failures + 1
    /\ Goto(r, Done)
    /\ UNCHANGED <<codes, sessions, window, tokens, now, signedIn, password, spent>>

\* RecordSuccessfulAttempt writes two columns; the row read before it is
\* saved afterwards, unless the login ends here.
RecordSuccessfulAttempt(r) ==
    LET q == req[r] IN
    /\ q.pc = "right"
    /\ user # None
    /\ Write(r, [user EXCEPT !.failed = 0, !.locked = 0])
    /\ failures' = 0
    /\ Goto(r, IF q.row.verified /\ q.row.totp # "on" THEN [q EXCEPT !.pc = "login"] ELSE Done)
    /\ UNCHANGED <<codes, sessions, window, tokens, now, signedIn, password, spent>>

\* The endpoints that read, change and save the row.  A token is looked up
\* by its value; a one-time password is taken to be right.
VerifyEmail(r) ==
    /\ user # None /\ user.emailToken # 0 /\ now < user.emailUntil
    /\ Read(r, "verify_email")
    /\ UNCHANGED <<user, codes, sessions, window, tokens, now, signedIn, stale, password, spent, failures>>

ForgotPassword(r) ==
    /\ tokens < MaxTokens
    /\ Read(r, "forgot")
    /\ UNCHANGED <<user, codes, sessions, window, tokens, now, signedIn, stale, password, spent, failures>>

ResetPassword(r, pw) ==
    /\ user # None /\ user.resetToken # 0 /\ now < user.resetUntil
    /\ req[r] = New
    /\ Goto(r, [pc |-> "reset", row |-> user, pw |-> pw])
    /\ touched' = [touched EXCEPT ![r] = FALSE]
    /\ UNCHANGED <<user, codes, sessions, window, tokens, now, signedIn, stale, password, spent, failures>>

Setup2FA(r) ==
    /\ signedIn /\ user # None /\ user.totp # "on"
    /\ Read(r, "setup")
    /\ UNCHANGED <<user, codes, sessions, window, tokens, now, signedIn, stale, password, spent, failures>>

Verify2FA(r) ==
    /\ signedIn /\ user # None /\ user.totp = "setup"
    /\ Read(r, "enable")
    /\ UNCHANGED <<user, codes, sessions, window, tokens, now, signedIn, stale, password, spent, failures>>

Disable2FA(r, pw) ==
    /\ signedIn /\ user # None /\ user.totp = "on" /\ user.pw = pw
    /\ Read(r, "disable")
    /\ UNCHANGED <<user, codes, sessions, window, tokens, now, signedIn, stale, password, spent, failures>>

\* With the one-time password, or with one of the backup codes of the row.
LoginWith2FA(r, used) ==
    /\ user # None /\ user.totp = "on"
    /\ used \subseteq user.backup
    /\ req[r] = New
    /\ Goto(r, [pc |-> "backup", row |-> user, used |-> used])
    /\ touched' = [touched EXCEPT ![r] = FALSE]
    /\ UNCHANGED <<user, codes, sessions, window, tokens, now, signedIn, stale, password, spent, failures>>

Reset_KeepToken(q) == [q.row EXCEPT !.pw = q.pw]

Reset(q) == [q.row EXCEPT !.pw = q.pw, !.resetToken = 0, !.resetUntil = 0]

Changed(q) ==
    CASE q.pc = "verify_email" -> [q.row EXCEPT !.verified = TRUE, !.emailToken = 0, !.emailUntil = 0]
      [] q.pc = "forgot" -> [q.row EXCEPT !.resetToken = tokens + 1, !.resetUntil = now + ResetTTL]
      [] q.pc = "reset" -> Reset(q)
      [] q.pc = "setup" -> [q.row EXCEPT !.totp = "setup", !.backup = {1}]
      [] q.pc = "enable" -> [q.row EXCEPT !.totp = "on"]
      [] q.pc = "disable" -> [q.row EXCEPT !.totp = "off", !.backup = {}]
      [] q.pc = "backup" -> [q.row EXCEPT !.backup = @ \ q.used]
      [] OTHER -> q.row

Token(q) == IF q.pc = "verify_email" THEN {q.row.emailToken} ELSE IF q.pc = "reset" THEN {q.row.resetToken} ELSE {}

\* Save writes the row it has, a deleted account included; a login creates
\* its session next, a reset deletes them all.
Save(r) ==
    LET q == req[r] IN
    /\ q.pc \in {"verify_email", "forgot", "reset", "setup", "enable", "disable", "backup", "login", "recovered"}
    /\ q.pc = "forgot" => tokens < MaxTokens
    /\ Write(r, Changed(q))
    /\ tokens' = IF q.pc = "forgot" THEN tokens + 1 ELSE tokens
    /\ password' = IF q.pc = "reset" THEN q.pw ELSE password
    /\ spent' = [t \in DOMAIN spent |-> IF t \in Token(q) THEN spent[t] + 1 ELSE spent[t]]
    /\ Goto(r, IF q.pc \in {"login", "backup", "recovered"} THEN [pc |-> "session"]
               ELSE IF q.pc = "reset" THEN [pc |-> "purge"] ELSE Done)
    /\ UNCHANGED <<codes, sessions, window, now, signedIn, failures>>

CreateSession(r) ==
    /\ req[r].pc = "session"
    /\ sessions' = sessions + 1
    /\ signedIn' = TRUE
    /\ Goto(r, Done)
    /\ UNCHANGED <<user, codes, window, aux>>

PurgeSessions(r) ==
    /\ req[r].pc = "purge"
    /\ sessions' = 0
    /\ Goto(r, Done)
    /\ UNCHANGED <<user, codes, window, signedIn, aux>>

Logout(r) ==
    /\ req[r] = New /\ signedIn /\ user # None
    /\ sessions' = 0
    /\ Goto(r, Done)
    /\ UNCHANGED <<user, codes, window, signedIn, aux>>

\* One transaction replaces the recovery codes (new ones, modelled once).
GenerateRecoveryCodes(r, pw) ==
    /\ req[r] = New
    /\ signedIn /\ user # None /\ user.totp = "on" /\ user.pw = pw
    /\ \A c \in Codes : spent[c] = 0
    /\ codes' = Codes
    /\ Goto(r, Done)
    /\ UNCHANGED <<user, sessions, window, signedIn, aux>>

\* The unused codes are read, the match is saved as used, then the user.
LoginWithRecoveryCode(r, c) ==
    /\ user # None /\ user.totp = "on"
    /\ c \in codes
    /\ req[r] = New
    /\ Goto(r, [pc |-> "match", row |-> user, code |-> c])
    /\ touched' = [touched EXCEPT ![r] = FALSE]
    /\ UNCHANGED <<user, codes, sessions, window, tokens, now, signedIn, stale, password, spent, failures>>

Consumed(c) == codes \ {c}

ConsumeCode(r) ==
    LET q == req[r] IN
    /\ q.pc = "match"
    /\ codes' = Consumed(q.code)
    /\ spent' = [spent EXCEPT ![q.code] = @ + 1]
    /\ stale' = (stale \/ q.code \notin codes)
    /\ Goto(r, [q EXCEPT !.pc = "recovered"])
    /\ UNCHANGED <<user, sessions, window, tokens, now, signedIn, touched, password, failures>>

DeleteAccount(r) ==
    /\ req[r] = New /\ signedIn /\ user # None
    /\ Write(r, None)
    /\ sessions' = 0 /\ codes' = {}
    /\ Goto(r, Done)
    /\ UNCHANGED <<window, tokens, now, signedIn, password, spent, failures>>

Tick == now < MaxTime /\ now' = now + 1
        /\ UNCHANGED <<user, codes, sessions, window, req, tokens, signedIn, touched, stale, password, spent, failures>>

Next ==
    \/ \E r \in Reqs, pw \in Passwords :
        Register(r, pw) \/ Login(r, pw) \/ ResetPassword(r, pw) \/ Disable2FA(r, pw) \/ GenerateRecoveryCodes(r, pw)
    \/ \E r \in Reqs :
        \/ CountRead(r) \/ CountWrite(r) \/ RecordSuccessfulAttempt(r)
        \/ VerifyEmail(r) \/ ForgotPassword(r) \/ Setup2FA(r) \/ Verify2FA(r)
        \/ Save(r) \/ CreateSession(r) \/ PurgeSessions(r) \/ Logout(r) \/ ConsumeCode(r) \/ DeleteAccount(r)
    \/ \E r \in Reqs, used \in {{}, {1}} : LoginWith2FA(r, used)
    \/ \E r \in Reqs, c \in Codes : LoginWithRecoveryCode(r, c)
    \/ Tick

Spec == Init /\ [][Next]_vars

-----------------------------------------------------------------------------
\* As long as no request has saved an old row over a newer one: the password
\* of the account is the one set last, a token of a mail and a recovery code
\* are accepted once, and a spent token is not in the row any more.
CredentialsAreKept ==
    ~stale =>
        /\ user # None => user.pw = password
        /\ \A t \in DOMAIN spent : spent[t] <= 1
        /\ user # None => \A t \in {user.emailToken, user.resetToken} \ {0} : spent[t] = 0

\* handlers/auth/auth.go:286: "Successful login clears any prior
\* failed-attempt state": with no other request in between, the counter of
\* the row is the number of failures since the last success.
SuccessClearsFailures ==
    ~stale /\ user # None /\ (\A r \in Reqs : req[r] \in {New, Done}) => user.failed = failures

-----------------------------------------------------------------------------
(***************************************************************************)
(* Sign-in with an identity of a provider (backend/handlers/auth/oauth.go, *)
(* backend/services/oauth_service.go).  Identities are linked to users in  *)
(* rows that are hidden, not removed, when the link is taken away; their   *)
(* unique constraint covers the hidden rows too.                           *)
(***************************************************************************)
CONSTANTS
    SocialReqs,
    Identities,        \* (provider, provider user id) pairs
    EmailOf,           \* the address a provider gives of an identity, NoEmail when none
    Emails,            \* addresses of users that registered with a password
    MaxUsers

VARIABLES
    users,             \* rows of users [email, via]; via is the identity a row was created for, or None
    links,             \* rows of social_accounts [identity, user, deleted]
    socialReq,
    socialSessions,    \* user_sessions created by a callback [identity, user]
    orphans            \* history: users created for an identity whose link failed

socialVars == <<users, links, socialReq, socialSessions, orphans>>

NoEmail == ""

SocialTypeOK ==
    /\ \A k \in DOMAIN links : links[k].user \in DOMAIN users /\ links[k].identity \in Identities
    /\ orphans \subseteq DOMAIN users

SocialInit ==
    /\ \E es \in SUBSET Emails :
        users = IF es = {} THEN <<>> ELSE <<[email |-> CHOOSE e \in es : TRUE, via |-> None]>>
    /\ links = <<>>
    /\ socialReq = [r \in SocialReqs |-> New]
    /\ socialSessions = {} /\ orphans = {}

SocialGoto(r, q) == socialReq' = [socialReq EXCEPT ![r] = q]

\* The visible link of an identity.
LinkOf(id) == {k \in DOMAIN links : links[k].identity = id /\ ~links[k].deleted}

\* The constraint on (provider, provider_user_id) sees every row.
Free(id) == \A k \in DOMAIN links : links[k].identity # id

WithEmail(e) == {u \in DOMAIN users : users[u].email = e}

\* Callback, once the provider has answered: the identity's link, else the
\* user of its address, else a user to create.
findOrCreateUserForProfile(r, id) ==
    /\ socialReq[r] = New
    /\ \/ \E k \in LinkOf(id) : SocialGoto(r, [pc |-> "session", id |-> id, user |-> links[k].user])
       \/ /\ LinkOf(id) = {}
          /\ EmailOf[id] # NoEmail
          /\ \E u \in WithEmail(EmailOf[id]) : SocialGoto(r, [pc |-> "link", id |-> id, user |-> u, created |-> FALSE])
       \/ /\ LinkOf(id) = {}
          /\ EmailOf[id] = NoEmail \/ WithEmail(EmailOf[id]) = {}
          /\ SocialGoto(r, [pc |-> "create", id |-> id])
    /\ UNCHANGED <<users, links, socialSessions, orphans>>

\* The address, the user name and the placeholder for the Stellar address
\* are unique: a second user for the identity is refused.
CreateUser(r) ==
    LET q == socialReq[r] IN
    /\ q.pc = "create"
    /\ \/ /\ WithEmail(EmailOf[q.id]) = {}
          /\ \A u \in DOMAIN users : users[u].via # q.id
          /\ Len(users) < MaxUsers
          /\ users' = Append(users, [email |-> EmailOf[q.id], via |-> q.id])
          /\ SocialGoto(r, [pc |-> "link", id |-> q.id, user |-> Len(users) + 1, created |-> TRUE])
       \/ /\ WithEmail(EmailOf[q.id]) # {} \/ \E u \in DOMAIN users : users[u].via = q.id
          /\ SocialGoto(r, Done)
          /\ UNCHANGED users
    /\ UNCHANGED <<links, socialSessions, orphans>>

\* linkNewSocialAccount and LinkAccount end here; a refused link leaves the
\* user that was created for it.
CreateLink(r) ==
    LET q == socialReq[r] IN
    /\ q.pc \in {"link", "manual"}
    /\ \/ /\ Free(q.id)
          /\ links' = Append(links, [identity |-> q.id, user |-> q.user, deleted |-> FALSE])
          /\ SocialGoto(r, IF q.pc = "link" THEN [pc |-> "session", id |-> q.id, user |-> q.user] ELSE Done)
          /\ UNCHANGED orphans
       \/ /\ ~Free(q.id)
          /\ orphans' = IF q.pc = "link" /\ q.created THEN orphans \cup {q.user} ELSE orphans
          /\ SocialGoto(r, Done)
          /\ UNCHANGED links
    /\ UNCHANGED <<users, socialSessions>>

\* The rest of Callback: the user is saved and gets a session.
CreateSocialSession(r) ==
    LET q == socialReq[r] IN
    /\ q.pc = "session"
    /\ socialSessions' = socialSessions \cup {[identity |-> q.id, user |-> q.user]}
    /\ SocialGoto(r, Done)
    /\ UNCHANGED <<users, links, orphans>>

LinkAccount(r, u, id) ==
    /\ socialReq[r] = New
    /\ LinkOf(id) = {}
    /\ SocialGoto(r, [pc |-> "manual", id |-> id, user |-> u])
    /\ UNCHANGED <<users, links, socialSessions, orphans>>

\* Every link of the user with the provider is hidden.
UnlinkAccount(r, u, id) ==
    LET mine == {k \in LinkOf(id) : links[k].user = u} IN
    /\ socialReq[r] = New
    /\ mine # {}
    /\ links' = [k \in DOMAIN links |-> IF k \in mine THEN [links[k] EXCEPT !.deleted = TRUE] ELSE links[k]]
    /\ SocialGoto(r, Done)
    /\ UNCHANGED <<users, socialSessions, orphans>>

SocialNext ==
    \/ \E r \in SocialReqs, id \in Identities : findOrCreateUserForProfile(r, id)
    \/ \E r \in SocialReqs : CreateUser(r) \/ CreateLink(r) \/ CreateSocialSession(r)
    \/ \E r \in SocialReqs, u \in DOMAIN users, id \in Identities : LinkAccount(r, u, id) \/ UnlinkAccount(r, u, id)

SocialSpec == SocialInit /\ [][SocialNext]_socialVars

-----------------------------------------------------------------------------
\* An identity signs in one user for ever: callbacks that race, links, and
\* links taken away and asked for again never let it into a second account,
\* and a user created for an identity is the one it is linked to, unless the
\* link was refused because an earlier one is hidden.
OneUserPerIdentity ==
    /\ \A s, t \in socialSessions : s.identity = t.identity => s.user = t.user
    /\ \A u \in DOMAIN users \ orphans :
        users[u].via # None /\ (\A r \in SocialReqs : socialReq[r] \in {New, Done}) =>
            \E k \in DOMAIN links : links[k].identity = users[u].via /\ links[k].user = u
=============================================================================
