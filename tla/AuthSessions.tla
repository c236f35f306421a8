---------------------------- MODULE AuthSessions ----------------------------
(***************************************************************************)
(* Sign-in, refresh and sign-out (auth/auth.service.ts), with the guards   *)
(* that accept or refuse a token (jwt.strategy.ts, stream-auth.guard.ts).  *)
(*                                                                         *)
(* A request is a list of awaited database calls; what other requests do   *)
(* in between is visible only to the calls that follow.  An entity that    *)
(* was found is saved whole: save() writes every column of the copy, also  *)
(* the ones another request changed since, except those set to undefined,  *)
(* which keep what the row has.  Password hashing and signing touch no     *)
(* row and are part of the step before them.                               *)
(*                                                                         *)
(* Module Accounts adds the operations on accounts and the specification.  *)
(***************************************************************************)
EXTENDS Integers, FiniteSets

CONSTANTS
  Requests,    \* number of HTTP requests that change something
  Overlaps,    \* pairs of operations whose requests may overlap
  Fresh,       \* whether the server may start with no account
  Root, Alice, Bob

ASSUME AuthAssumption ==
  /\ Requests \in Nat /\ Fresh \in BOOLEAN
  /\ Root # Alice /\ Root # Bob /\ Alice # Bob

Reqs  == 1..Requests
Names == {Root, Alice, Bob}

(* Nothing is numbered 0 but what exists at the start; a request is the    *)
(* name of whatever it creates: a session, a token id, a secret, a hash.   *)
Start == 0
None  == -1
Plain == -2     \* a two-factor secret stored before encryption existed
Old   == -3     \* the id of a refresh token used before
Made  == Reqs \cup {Start}
Ids   == Made \cup {None, Old}

VARIABLES
  users,      \* table users: name -> row, NoUser when absent
  sessions,   \* table auth_sessions, a session named by who made it
  backup,     \* table two_factor_backup_codes: batches of codes
  resets,     \* table password_reset_tokens
  invite,     \* table invite_codes: by whom the one code was used
  key,        \* auth_config: the generation of the two secrets
  issued,     \* pairs of tokens handed out
  challenges, \* two-factor challenge tokens handed out
  req,        \* what each request holds between two awaits
  dead,       \* pairs of tokens a finished request has ended
  uses,       \* how often each one-time code or token was acted on
  cut         \* how often a crash came between that and its mark

vars == <<users, sessions, backup, resets, invite, key, issued, challenges,
          req, dead, uses, cut>>
tables == <<users, sessions, backup, resets, invite, key>>
ghosts == <<dead, uses, cut>>

NoUser    == [pw |-> None, tv |-> None, legacy |-> None, admin |-> FALSE,
              tfa |-> FALSE, secret |-> None, enc |-> None, temp |-> None,
              tempEnc |-> None]
NoSession == [user |-> None, jti |-> None, revoked |-> TRUE]
NoGrant   == [user |-> Root, sid |-> None, jti |-> None, tv |-> None,
              key |-> None]
NoCode    == <<"none", None>>

Idle == [op |-> "none", pc |-> "idle", who |-> Root, given |-> NoGrant,
         pw |-> None, code |-> NoCode, id |-> None, user |-> NoUser,
         sess |-> NoSession, found |-> {}, key |-> None, old |-> {},
         replayed |-> FALSE]
Over == [Idle EXCEPT !.pc = "over"]

(* An access token is accepted while its version is the user's and its     *)
(* session is not revoked (JwtStrategy.validate,                           *)
(* verifyAccessTokenForBootstrap).                                         *)
Accepted(g) ==
  /\ g.key = key
  /\ users[g.user].tv = IF g.tv = None THEN 0 ELSE g.tv
  /\ g.sid # None => ~sessions[g.sid].revoked

(* A refresh token is exchanged for new ones while its version, if it has  *)
(* one, is the user's and it is the last of its session, which is not      *)
(* revoked; one of the time before sessions while the user row has its id. *)
Exchanged(g) ==
  /\ g.key = key
  /\ g.tv = None \/ users[g.user].tv = g.tv
  /\ IF g.sid = None THEN users[g.user].legacy = g.jti
     ELSE ~sessions[g.sid].revoked /\ sessions[g.sid].jti = g.jti

At(r, p) == req[r].pc = p
To(r, p) == req' = [req EXCEPT ![r].pc = p]
Finish(r) == req' = [req EXCEPT ![r] = Over]

(* The tokens a request has ended, once it answers.                        *)
Kill(r, gone) == dead' = dead \cup gone
OwnedBy(r) == {g \in req[r].old : g.user = req[r].who}

Once(r, what) == uses' = [uses EXCEPT ![what] = @ + 1]

(* users.save(copy): every column but the legacy token id, which callers   *)
(* set to undefined and which is then left alone.                          *)
SaveUser(who, copy) ==
  users' = [users EXCEPT ![who] = [copy EXCEPT !.legacy = users[who].legacy]]
(* issueTokens sets it to null, which is written.                          *)
SaveUserNoLegacy(who, copy) ==
  users' = [users EXCEPT ![who] = [copy EXCEPT !.legacy = None]]
Bumped_Not(row) == row
Bumped(row) == [row EXCEPT !.tv = @ + 1]

Saved(row, jti) == [row EXCEPT !.jti = jti]

---------------------------------------------------------------------------
(* Requests.  Each is made once; two run at a time only if their pair is   *)
(* among Overlaps, so that Overlaps = {} is a server without concurrency.  *)
May(r, op) ==
  /\ At(r, "idle")
  /\ \A q \in Reqs : q < r => ~At(q, "idle")
  /\ \A q \in Reqs : req[q].pc \in {"idle", "over"} \/ {op, req[q].op} \in Overlaps

Begin(r, op, pc, fields) ==
  /\ May(r, op)
  /\ req' = [req EXCEPT ![r] = [fields EXCEPT !.op = op, !.pc = pc, !.old = issued]]
  /\ UNCHANGED <<tables, issued, challenges, ghosts>>

Codes == {NoCode, <<"totp", None>>}
           \cup {<<"totp", users[n].secret>> : n \in Names}
           \cup {<<"backup", b.by>> : b \in backup}

Passwords(n) == {users[n].pw, None}

(* login, loginWeb: a name, a password, perhaps a code *)
Login(r) == \E n \in Names, c \in Codes : \E p \in Passwords(n) :
  /\ users[n] # NoUser
  /\ Begin(r, "login", "find", [Idle EXCEPT !.who = n, !.pw = p, !.code = c])

(* completeTwoFactorLogin: a challenge and a code; the challenge names the *)
(* user and is verified with the present secret.                           *)
LoginTwoFactor(r) == \E t \in challenges, c \in Codes \ {NoCode} :
  /\ t.key = key
  /\ Begin(r, "login2fa", "find", [Idle EXCEPT !.who = t.user, !.code = c])

(* refresh and logout take a refresh token signed with the present secret; *)
(* one that names no session takes another way through both.               *)
Current(g) == sessions[g.sid].jti = g.jti
Refresh(r) == \E g \in issued :
  /\ g.key = key
  /\ Begin(r, IF g.sid = None THEN "migrate" ELSE "refresh", "find",
       [Idle EXCEPT !.who = g.user, !.given = g,
          !.replayed = g.sid # None /\ ~Current(g)])

(* StreamAuthGuard.canActivate: the access token of the pair has expired   *)
(* or is refused, so the guard refreshes with the cookie itself.           *)
Stream(r) == \E g \in issued :
  /\ g.key = key /\ g.sid # None
  /\ Begin(r, "stream", "find",
       [Idle EXCEPT !.who = g.user, !.given = g, !.replayed = ~Current(g)])

Logout(r) == \E g \in issued :
  /\ g.key = key
  /\ Begin(r, IF g.sid = None THEN "logoutall" ELSE "logout", "find",
       [Idle EXCEPT !.who = g.user, !.given = g])

---------------------------------------------------------------------------
(* The code of a login or of an administrator's confirmation: first as a   *)
(* TOTP code of the decrypted secret, which throws if the secret was       *)
(* encrypted with a key since rotated, then as an unused backup code.      *)
Readable(row) == row.secret = None \/ row.enc \in {Plain, key}

VerifyTotp(row, code) ==
  /\ row.secret # None
  /\ code = <<"totp", row.secret>>

After(q) == IF q.op \in {"login", "login2fa"} THEN "session" ELSE "action"

(* maybeUpgradeTwoFactorSecret *)
Upgrade(q, row) == IF row.secret # None /\ row.enc = Plain THEN "upgrade" ELSE After(q)

CodeChecked(r, row) ==
  /\ Readable(row)
  /\ req' = [req EXCEPT ![r] = [@ EXCEPT !.user = row,
               !.pc = IF VerifyTotp(row, req[r].code) THEN Upgrade(req[r], row)
                      ELSE "codefind"]]

(* tryConsumeBackupCode: find the unused codes, hash, save the match       *)
CodeFind(r) ==
  /\ At(r, "codefind")
  /\ IF \E b \in backup : /\ ~b.used /\ b.user = req[r].who
                          /\ req[r].code = <<"backup", b.by>>
     THEN To(r, "codesave") ELSE Finish(r)
  /\ UNCHANGED <<tables, issued, challenges, ghosts>>

CodeSave(r) == LET b == [user |-> req[r].who, by |-> req[r].code[2]] IN
  /\ At(r, "codesave")
  /\ backup' = {c \in backup : c.user # b.user \/ c.by # b.by}
                 \cup {[user |-> b.user, by |-> b.by, used |-> TRUE]}
  /\ Once(r, <<"backup", b.by>>)
  /\ To(r, Upgrade(req[r], req[r].user))
  /\ UNCHANGED <<users, sessions, resets, invite, key, issued, challenges, dead, cut>>

UpgradeSave(r) == LET row == [req[r].user EXCEPT !.enc = key] IN
  /\ At(r, "upgrade")
  /\ users' = [users EXCEPT ![req[r].who] = row]
  /\ req' = [req EXCEPT ![r] = [@ EXCEPT !.user = row, !.pc = After(req[r])]]
  /\ UNCHANGED <<sessions, backup, resets, invite, key, issued, challenges, ghosts>>

LoginFind(r) == LET q == req[r] row == users[q.who] IN
  /\ q.op \in {"login", "login2fa"} /\ At(r, "find")
  /\ \/ /\ q.op = "login" /\ q.pw # row.pw
        /\ Finish(r) /\ UNCHANGED challenges
     \/ /\ q.op = "login" /\ q.pw = row.pw /\ ~row.tfa
        /\ req' = [req EXCEPT ![r] = [@ EXCEPT !.user = row, !.pc = "session"]]
        /\ UNCHANGED challenges
     \/ /\ q.op = "login" /\ q.pw = row.pw /\ row.tfa /\ q.code = NoCode
        /\ challenges' = challenges \cup {[user |-> q.who, key |-> key]}
        /\ Finish(r)
     \/ /\ q.op = "login" => q.pw = row.pw /\ q.code # NoCode
        /\ row.tfa /\ CodeChecked(r, row) /\ UNCHANGED challenges
     \/ /\ q.op = "login" => q.pw = row.pw /\ q.code # NoCode
        /\ row.tfa /\ ~Readable(row) /\ Finish(r) /\ UNCHANGED challenges
     \/ /\ q.op = "login2fa" /\ ~row.tfa /\ Finish(r) /\ UNCHANGED challenges
  /\ UNCHANGED <<tables, issued, ghosts>>

---------------------------------------------------------------------------
(* issueTokens: a session is inserted, then saved with the id of its       *)
(* refresh token; the tokens are signed with the secret read first; the    *)
(* user row, as it was found, is saved.                                    *)
Grant(r, row, sid) ==
  [user |-> req[r].who, sid |-> sid, jti |-> r, tv |-> row.tv, key |-> req[r].key]

CreateSession(r) == LET new == [user |-> req[r].who, jti |-> None, revoked |-> FALSE] IN
  /\ At(r, "session")
  /\ sessions' = [sessions EXCEPT ![r] = new]
  /\ req' = [req EXCEPT ![r] = [@ EXCEPT !.sess = new, !.key = key, !.pc = "jti"]]
  /\ UNCHANGED <<users, backup, resets, invite, key, issued, challenges, ghosts>>

SaveJti(r) ==
  /\ At(r, "jti")
  /\ sessions' = [sessions EXCEPT ![r] = Saved(req[r].sess, r)]
  /\ To(r, "saveuser")
  /\ UNCHANGED <<users, backup, resets, invite, key, issued, challenges, ghosts>>

Answered(r) == LET q == req[r] IN
  /\ At(r, "saveuser")
  /\ IF q.op = "migrate" THEN SaveUser(q.who, q.user)
     ELSE SaveUserNoLegacy(q.who, q.user)
  /\ issued' = issued \cup {Grant(r, q.user, r)}
  /\ Finish(r)
  /\ UNCHANGED <<sessions, backup, resets, invite, key, challenges, ghosts>>

---------------------------------------------------------------------------
(* refresh.  Tokens of a session carry sid; older ones are matched with    *)
(* the user row and exchanged for a session.                               *)
Refreshing(r) == req[r].op \in {"refresh", "migrate", "stream"}

RefreshUser(r) == LET q == req[r] row == users[q.who] IN
  /\ Refreshing(r) /\ At(r, "find")
  /\ req' = [req EXCEPT ![r] =
       IF q.given.tv # None /\ q.given.tv # row.tv THEN Over
       ELSE [@ EXCEPT !.user = row,
               !.pc = IF q.given.sid # None THEN "rsession"
                      ELSE IF row.legacy = q.given.jti THEN "session" ELSE "badlegacy"]]
  /\ UNCHANGED <<tables, issued, challenges, ghosts>>

Gone_Unchecked(s) == FALSE
Gone(s) == s.revoked
RefreshSession(r) == LET g == req[r].given s == sessions[g.sid] IN
  /\ Refreshing(r) /\ At(r, "rsession")
  /\ req' = [req EXCEPT ![r] =
       IF Gone(s) THEN Over
       ELSE [@ EXCEPT !.sess = s, !.key = key,
               !.pc = IF s.jti = g.jti THEN "rotate" ELSE "revfind"]]
  /\ UNCHANGED <<tables, issued, challenges, ghosts>>

(* issueTokensForExistingSession saves the session as it was found.        *)
Rotate(r) == LET q == req[r] IN
  /\ At(r, "rotate")
  /\ sessions' = [sessions EXCEPT ![q.given.sid] = Saved(q.sess, r)]
  /\ issued' = issued \cup {Grant(r, q.user, q.given.sid)}
  /\ Finish(r)
  /\ UNCHANGED <<users, backup, resets, invite, key, challenges, ghosts>>

(* A legacy token that is not the user's: the version goes up, alone.      *)
BadLegacy(r) ==
  /\ At(r, "badlegacy")
  /\ SaveUser(req[r].who, Bumped(req[r].user))
  /\ Finish(r) /\ Kill(r, OwnedBy(r))
  /\ UNCHANGED <<sessions, backup, resets, invite, key, issued, challenges, uses, cut>>

---------------------------------------------------------------------------
(* revokeAllSessionsForUser: find, then save all that were found.  What    *)
(* follows depends on the caller.  A sign-out with a token of the time     *)
(* before sessions ends the sessions and not that token: undefined leaves  *)
(* its id in the row.                                                      *)
Ended(r) == IF req[r].op = "logoutall" THEN {g \in OwnedBy(r) : g.sid # None} ELSE OwnedBy(r)
AfterRevoke(r) ==
  CASE Refreshing(r)          -> To(r, "replay") /\ UNCHANGED dead
    [] req[r].op = "reset"    -> To(r, "useReset") /\ UNCHANGED dead
    [] req[r].op = "confirm"  -> To(r, "codes") /\ UNCHANGED dead
    [] OTHER                  -> Finish(r) /\ Kill(r, Ended(r))

RevokeFind(r) == LET theirs == {s \in Made : sessions[s].user = req[r].who} IN
  /\ At(r, "revfind")
  /\ IF theirs = {} THEN AfterRevoke(r)
     ELSE /\ req' = [req EXCEPT ![r] = [@ EXCEPT !.found = theirs, !.pc = "revsave"]]
          /\ UNCHANGED dead
  /\ UNCHANGED <<tables, issued, challenges, uses, cut>>

Revoked(s) == [s EXCEPT !.jti = None, !.revoked = TRUE]

RevokeSave(r) ==
  /\ At(r, "revsave")
  /\ sessions' = [s \in Made |-> IF s \in req[r].found THEN Revoked(sessions[s])
                                  ELSE sessions[s]]
  /\ AfterRevoke(r)
  /\ UNCHANGED <<users, backup, resets, invite, key, issued, challenges, uses, cut>>

(* refresh_token_reuse_detected: the version goes up after the sessions.   *)
Replay(r) ==
  /\ At(r, "replay")
  /\ SaveUser(req[r].who, Bumped(req[r].user))
  /\ Finish(r) /\ Kill(r, OwnedBy(r))
  /\ UNCHANGED <<sessions, backup, resets, invite, key, issued, challenges, uses, cut>>

---------------------------------------------------------------------------
(* logout of a session: only with its current refresh token.  A legacy     *)
(* token ends every session of the user, and saves the row if it is his.   *)
LogoutFind(r) == LET q == req[r] g == q.given row == users[q.who] IN
  /\ q.op \in {"logout", "logoutall"} /\ At(r, "find")
  /\ req' = [req EXCEPT ![r] =
       IF g.sid # None
       THEN IF ~sessions[g.sid].revoked /\ Current(g)
            THEN [@ EXCEPT !.sess = sessions[g.sid], !.pc = "logout"] ELSE Over
       ELSE [@ EXCEPT !.user = row,
               !.pc = IF row.legacy = g.jti THEN "legacyout" ELSE "revfind"]]
  /\ UNCHANGED <<tables, issued, challenges, ghosts>>

(* A refresh that has read the session before will save it unrevoked over  *)
(* this: then the sign-out ends nothing.                                   *)
Undone(s) == \E q \in Reqs : At(q, "rotate") /\ req[q].given.sid = s

LogoutSave(r) == LET q == req[r] IN
  /\ At(r, "logout")
  /\ sessions' = [sessions EXCEPT ![q.given.sid] = Revoked(q.sess)]
  /\ Finish(r)
  /\ Kill(r, IF Undone(q.given.sid) THEN {} ELSE {g \in q.old : g.sid = q.given.sid})
  /\ UNCHANGED <<users, backup, resets, invite, key, issued, challenges, uses, cut>>

LegacyLogout(r) ==
  /\ At(r, "legacyout")
  /\ SaveUser(req[r].who, req[r].user)
  /\ To(r, "revfind")
  /\ UNCHANGED <<sessions, backup, resets, invite, key, issued, challenges, ghosts>>

SessionBegin(r) == Login(r) \/ LoginTwoFactor(r) \/ Refresh(r) \/ Stream(r) \/ Logout(r)
SessionStep(r) ==
  \/ LoginFind(r) \/ CodeFind(r) \/ CodeSave(r) \/ UpgradeSave(r)
  \/ CreateSession(r) \/ SaveJti(r) \/ Answered(r)
  \/ RefreshUser(r) \/ RefreshSession(r) \/ Rotate(r) \/ BadLegacy(r)
  \/ RevokeFind(r) \/ RevokeSave(r) \/ Replay(r)
  \/ LogoutFind(r) \/ LogoutSave(r) \/ LegacyLogout(r)
=============================================================================
