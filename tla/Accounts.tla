------------------------------ MODULE Accounts ------------------------------
(***************************************************************************)
(* The operations on accounts (auth/auth.service.ts): first-user setup,    *)
(* sign-up with an invite code, the profile and its password, password     *)
(* reset by mail, two-factor setup, its backup codes, what administrators  *)
(* do to other accounts, and the rotation of the secrets.                  *)
(*                                                                         *)
(* An operation of a signed-in user starts with AuthGuard accepting an     *)
(* access token; an administrator's with assertAdminReauth as well.        *)
(***************************************************************************)
EXTENDS AuthSessions

CONSTANT Stored   \* how the first accounts' two-factor secrets may be stored

ASSUME StoredAssumption == Stored \subseteq {None, Plain, Start}

ProfileOps == {"profile", "password", "begin2fa", "confirm", "disable", "newcodes"}
OneTime == {<<"reset", i>> : i \in Made} \cup {<<"backup", i>> : i \in Made}
             \cup {<<"invite", Start>>}

(* JwtStrategy.validate looks at no token's type: the token of a two-factor *)
(* challenge, signed with the same secret and without a version, passes as *)
(* an access token of a user whose version is 0.                           *)
SignedIn == {g.user : g \in {h \in issued : Accepted(h)}}
              \cup {t.user : t \in {c \in challenges : c.key = key /\ users[c.user].tv = 0}}
AsUser(r, op, n, pw, code) ==
  /\ n \in SignedIn
  /\ Begin(r, op, "find", [Idle EXCEPT !.who = n, !.pw = pw, !.code = code])

(* The request's password and code are the ones of the account, or not.    *)
Profile(r)    == \E n \in Names : AsUser(r, "profile", n, None, NoCode)
Password(r)   == \E n \in Names : \E p \in Passwords(n) : AsUser(r, "password", n, p, NoCode)
BeginSetup(r) == \E n \in Names : AsUser(r, "begin2fa", n, None, NoCode)
ConfirmSetup(r) == \E n \in Names : AsUser(r, "confirm", n, None, <<"totp", users[n].temp>>)
Disable(r)  == \E n \in Names, c \in Codes : \E p \in Passwords(n) : AsUser(r, "disable", n, p, c)
NewCodes(r) == \E n \in Names, c \in Codes : \E p \in Passwords(n) : AsUser(r, "newcodes", n, p, c)

Forgot(r) == \E n \in Names : users[n] # NoUser /\ Begin(r, "forgot", "find", [Idle EXCEPT !.who = n])
Reset(r)  == \E t \in resets : Begin(r, "reset", "token", [Idle EXCEPT !.who = t.user, !.id = t.id])
Setup(r)  == Begin(r, "setup", "check", [Idle EXCEPT !.who = IF users[Root] = NoUser THEN Root ELSE Bob])
Signup(r) == \E n \in {Alice, Bob} : Begin(r, "signup", "check", [Idle EXCEPT !.who = n])

AsAdmin(r, op, target) == \E n \in SignedIn, c \in Codes : \E p \in Passwords(n) :
  /\ users[n].admin
  /\ Begin(r, op, "reauth", [Idle EXCEPT !.who = n, !.pw = p, !.code = c, !.id = target])
ResetTwoFactor(r) == AsAdmin(r, "reset2fa", Alice)
ResetPassword(r)  == AsAdmin(r, "resetpw", Alice)
RotateSecrets(r)  == AsAdmin(r, "rotate", None)
(* Creating an account asks the administrator for no second confirmation.  *)
Create(r) ==
  /\ \E n \in SignedIn : users[n].admin
  /\ Begin(r, "create", "check", [Idle EXCEPT !.who = Bob])

---------------------------------------------------------------------------
(* The row an operation of a user saves, from the copy it found; NoUser if *)
(* it refuses.  A password change and both two-factor changes put the      *)
(* version up.                                                             *)
ConfirmedBy(q, row) ==
  IF q.code # NoCode THEN Readable(row) /\ VerifyTotp(row, q.code) ELSE q.pw = row.pw

WithoutTwoFactor(row) ==
  [row EXCEPT !.tfa = FALSE, !.secret = None, !.enc = None, !.temp = None, !.tempEnc = None]

Changed(r, q, row) ==
  CASE q.op = "profile" -> row
    [] q.op \in {"password", "resetpw", "reset"} -> Bumped([row EXCEPT !.pw = r])
    [] q.op = "begin2fa" -> [row EXCEPT !.temp = r, !.tempEnc = key]
    [] q.op = "confirm"  -> Bumped([row EXCEPT !.secret = row.temp, !.enc = key,
                                      !.temp = None, !.tempEnc = None, !.tfa = TRUE])
    [] q.op \in {"disable", "reset2fa"} -> Bumped(WithoutTwoFactor(row))
    [] OTHER -> row

Refused(q, row) ==
  CASE q.op = "password" -> q.pw # row.pw
    [] q.op = "confirm"  -> \/ row.temp = None \/ row.tempEnc # key
                            \/ q.code # <<"totp", row.temp>>
    [] q.op \in {"disable", "newcodes"} -> ~row.tfa \/ ~ConfirmedBy(q, row)
    [] q.op \in {"reset2fa", "resetpw"} -> row.admin
    [] OTHER -> FALSE

(* Backup codes go before the row when two-factor is turned off.           *)
Then_CodesKept(q) == IF q.op = "newcodes" THEN "delcodes"
                     ELSE IF q.op = "forgot" THEN "mail" ELSE "save"
Then(q) == IF q.op \in {"disable", "reset2fa", "newcodes"} THEN "delcodes"
           ELSE IF q.op = "forgot" THEN "mail" ELSE "save"
Find(r) == LET q == req[r] row == users[q.who] IN
  /\ At(r, "find") /\ q.op \in ProfileOps \cup {"reset2fa", "resetpw", "reset", "forgot"}
  /\ req' = [req EXCEPT ![r] =
       IF row = NoUser \/ Refused(q, row) THEN Over
       ELSE [@ EXCEPT !.user = Changed(r, q, row),
               !.pc = Then(q)]]
  /\ UNCHANGED <<tables, issued, challenges, ghosts>>

DeleteCodes(r) == LET q == req[r] IN
  /\ At(r, "delcodes")
  /\ backup' = {b \in backup : b.user # q.who}
  /\ To(r, IF q.op = "newcodes" THEN "codes" ELSE "save")
  /\ UNCHANGED <<users, sessions, resets, invite, key, issued, challenges, ghosts>>

(* A change of the profile and the start of a setup leave the row's legacy *)
(* token id as they found it and write it back; the others set it to       *)
(* undefined.  From here on a reset token has been acted on.               *)
Save(r) == LET q == req[r] IN
  /\ At(r, "save")
  /\ IF q.op \in {"profile", "begin2fa"}
     THEN users' = [users EXCEPT ![q.who] = q.user] /\ Finish(r)
     ELSE SaveUser(q.who, q.user) /\ To(r, "revfind")
  /\ IF q.op = "reset" THEN Once(r, <<"reset", q.id>>) ELSE UNCHANGED uses
  /\ UNCHANGED <<sessions, backup, resets, invite, key, issued, challenges, dead, cut>>

(* generateAndStoreBackupCodes, after the sessions were revoked.  Codes    *)
(* count as one batch.                                                     *)
StoreCodes(r) == LET q == req[r] IN
  /\ At(r, "codes")
  /\ backup' = backup \cup {[user |-> q.who, by |-> r, used |-> FALSE]}
  /\ Finish(r)
  /\ IF q.op = "confirm" THEN Kill(r, OwnedBy(r)) ELSE UNCHANGED dead
  /\ UNCHANGED <<users, sessions, resets, invite, key, issued, challenges, uses, cut>>

---------------------------------------------------------------------------
(* requestPasswordReset and resetPassword.  The token is marked used last, *)
(* after the password is saved and the sessions are revoked.               *)
Mail(r) ==
  /\ At(r, "mail")
  /\ resets' = resets \cup {[id |-> r, user |-> req[r].who, used |-> FALSE]}
  /\ Finish(r)
  /\ UNCHANGED <<users, sessions, backup, invite, key, issued, challenges, ghosts>>

Unused_Ignored(t) == TRUE
Unused(t) == ~t.used
FindToken(r) ==
  /\ At(r, "token")
  /\ IF \E t \in resets : t.id = req[r].id /\ Unused(t) THEN To(r, "find") ELSE Finish(r)
  /\ UNCHANGED <<tables, issued, challenges, ghosts>>

UseToken(r) == LET q == req[r] IN
  /\ At(r, "useReset")
  /\ resets' = {t \in resets : t.id # q.id} \cup {[id |-> q.id, user |-> q.who, used |-> TRUE]}
  /\ Finish(r) /\ Kill(r, OwnedBy(r))
  /\ UNCHANGED <<users, sessions, backup, invite, key, issued, challenges, uses, cut>>

---------------------------------------------------------------------------
(* setupFirstUser, signup and createUser insert a row; the first two sign  *)
(* the new user in.  Setup needs an empty table, sign-up an unused invite  *)
(* code, which is looked up again and marked only after the row is there.  *)
NewUser(r, admin) ==
  [NoUser EXCEPT !.pw = r, !.tv = 0, !.admin = admin]

CheckNew(r) == LET q == req[r] IN
  /\ At(r, "check")
  /\ IF /\ q.op = "setup"  => \A n \in Names : users[n] = NoUser
        /\ q.op = "signup" => invite = None
        /\ users[q.who] = NoUser
     THEN To(r, "insert") ELSE Finish(r)
  /\ UNCHANGED <<tables, issued, challenges, ghosts>>

Insert(r) == LET q == req[r] IN
  /\ At(r, "insert")
  /\ IF users[q.who] # NoUser        \* the name is a unique column
     THEN Finish(r) /\ UNCHANGED <<users, uses>>
     ELSE LET row == NewUser(r, q.op = "setup") IN
          /\ users' = [users EXCEPT ![q.who] = row]
          /\ req' = [req EXCEPT ![r] =
               IF q.op = "create" THEN Over
               ELSE [@ EXCEPT !.user = row,
                       !.pc = IF q.op = "signup" THEN "invite" ELSE "session"]]
          /\ IF q.op = "signup" THEN Once(r, <<"invite", Start>>) ELSE UNCHANGED uses
  /\ UNCHANGED <<sessions, backup, resets, invite, key, issued, challenges, dead, cut>>

FindInvite(r) ==
  /\ At(r, "invite")
  /\ IF invite = None THEN To(r, "useInvite") ELSE Finish(r)
  /\ UNCHANGED <<tables, issued, challenges, ghosts>>

UseInvite(r) ==
  /\ At(r, "useInvite")
  /\ invite' = r
  /\ To(r, "session")
  /\ UNCHANGED <<users, sessions, backup, resets, key, issued, challenges, ghosts>>

---------------------------------------------------------------------------
(* assertAdminReauth: the administrator's password and code; then the      *)
(* operation on the other account, or the rotation.                        *)
Reauth(r) == LET q == req[r] row == users[q.who] IN
  /\ At(r, "reauth")
  /\ \/ /\ q.pw = row.pw /\ ~row.tfa /\ To(r, "action")
     \/ /\ q.pw = row.pw /\ row.tfa /\ q.code # NoCode /\ CodeChecked(r, row)
     \/ /\ q.pw # row.pw \/ (row.tfa /\ (q.code = NoCode \/ ~Readable(row)))
        /\ Finish(r)
  /\ UNCHANGED <<tables, issued, challenges, ghosts>>

Act(r) == LET q == req[r] IN
  /\ At(r, "action")
  /\ IF q.op = "rotate"
     THEN key' = key + 1 /\ Finish(r) /\ Kill(r, q.old)
     ELSE /\ req' = [req EXCEPT ![r] = [@ EXCEPT !.who = q.id, !.pc = "find"]]
          /\ UNCHANGED <<key, dead>>
  /\ UNCHANGED <<users, sessions, backup, resets, invite, issued, challenges, uses, cut>>

---------------------------------------------------------------------------
(* Accounts as earlier releases or a run of the server left them: Root and *)
(* Alice, perhaps with two-factor, one of them signed in on a device and   *)
(* holding a refresh token already exchanged, and tokens of a release      *)
(* without sessions; or no account at all.                                 *)
Account(admin, enc) ==
  [NoUser EXCEPT !.pw = Start, !.tv = 0, !.admin = admin, !.tfa = enc # None,
     !.legacy = IF admin THEN None ELSE Start,
     !.secret = IF enc = None THEN None ELSE Start, !.enc = enc]

Grant0(user, sid, jti, tv) == [user |-> user, sid |-> sid, jti |-> jti, tv |-> tv, key |-> 0]

Populated(enc, owner) ==
  /\ users = [n \in Names |-> CASE n = Root -> Account(TRUE, enc)
                                [] n = Alice -> Account(FALSE, enc)
                                [] OTHER -> NoUser]
  /\ sessions = [s \in Made |-> IF s = Start
                   THEN [user |-> owner, jti |-> Start, revoked |-> FALSE] ELSE NoSession]
  /\ backup = IF enc = None THEN {} ELSE {[user |-> Alice, by |-> Start, used |-> FALSE]}
  /\ resets = {[id |-> Start, user |-> Alice, used |-> FALSE]}
  /\ issued = {Grant0(owner, Start, Start, 0), Grant0(owner, Start, Old, 0),
               Grant0(Alice, None, Start, None), Grant0(Root, None, Old, 0)}

Empty ==
  /\ Fresh
  /\ users = [n \in Names |-> NoUser]
  /\ sessions = [s \in Made |-> NoSession]
  /\ backup = {} /\ resets = {} /\ issued = {}

Init ==
  /\ (\E enc \in Stored, owner \in {Root, Alice} : Populated(enc, owner)) \/ Empty
  /\ invite = None /\ key = 0 /\ challenges = {}
  /\ req = [r \in Reqs |-> Idle]
  /\ dead = {} /\ uses = [o \in OneTime |-> 0] /\ cut = [o \in OneTime |-> 0]

Begins(r) ==
  \/ SessionBegin(r) \/ Profile(r) \/ Password(r) \/ BeginSetup(r) \/ ConfirmSetup(r)
  \/ Disable(r) \/ NewCodes(r) \/ Forgot(r) \/ Reset(r) \/ Setup(r) \/ Signup(r)
  \/ Create(r) \/ ResetTwoFactor(r) \/ ResetPassword(r) \/ RotateSecrets(r)

Steps(r) ==
  \/ SessionStep(r) \/ Find(r) \/ DeleteCodes(r) \/ Save(r) \/ StoreCodes(r)
  \/ Mail(r) \/ FindToken(r) \/ UseToken(r) \/ CheckNew(r) \/ Insert(r)
  \/ FindInvite(r) \/ UseInvite(r) \/ Reauth(r) \/ Act(r)

(* The process ends and starts again: requests under way are lost, and     *)
(* ensureAdminUser promotes the first account if none is an administrator. *)
(* A request that has acted on a token it had yet to mark is counted.      *)
Acting(c, o) ==
  \/ c.op = "reset" /\ c.pc \in {"revfind", "revsave", "useReset"} /\ o = <<"reset", c.id>>
  \/ c.pc \in {"invite", "useInvite"} /\ o = <<"invite", Start>>
CutOff(o) == \E r \in Reqs : Acting(req[r], o)

Existing == {n \in Names : users[n] # NoUser}
Orphaned == Existing # {} /\ \A n \in Existing : ~users[n].admin

Restart ==
  /\ Orphaned \/ \E r \in Reqs : req[r].pc \notin {"idle", "over"}
  /\ req' = [r \in Reqs |-> IF At(r, "idle") THEN Idle ELSE Over]
  /\ IF Orphaned THEN \E n \in Existing : users' = [users EXCEPT ![n].admin = TRUE]
     ELSE UNCHANGED users
  /\ cut' = [o \in OneTime |-> IF CutOff(o) THEN cut[o] + 1 ELSE cut[o]]
  /\ UNCHANGED <<sessions, backup, resets, invite, key, issued, challenges, dead, uses>>

Next ==
  \/ Restart
  \/ \E r \in Reqs : At(r, "idle") /\ Begins(r)
  \/ \E r \in Reqs : ~At(r, "idle") /\ ~At(r, "over") /\ Steps(r)

Spec == Init /\ [][Next]_vars

---------------------------------------------------------------------------
(* Every table and every request holds what its columns and variables may. *)
Rows == [pw : Ids, tv : Nat \cup {None}, legacy : Ids, admin : BOOLEAN, tfa : BOOLEAN,
         secret : Ids, enc : Nat \cup {None, Plain}, temp : Ids, tempEnc : Nat \cup {None}]
SessionRows == [user : Names \cup {None}, jti : Ids, revoked : BOOLEAN]
Grants == [user : Names, sid : Ids, jti : Ids, tv : Nat \cup {None}, key : Nat \cup {None}]
TypeOK ==
  /\ users \in [Names -> Rows]
  /\ sessions \in [Made -> SessionRows]
  /\ backup \subseteq [user : Names, by : Made, used : BOOLEAN]
  /\ resets \subseteq [id : Made, user : Names, used : BOOLEAN]
  /\ invite \in Ids /\ key \in Nat
  /\ issued \subseteq Grants /\ dead \subseteq issued
  /\ \A r \in Reqs : req[r].user \in Rows /\ req[r].found \subseteq Made

(* Once a password change or reset, a change of two-factor, a rotation, a  *)
(* detected replay or a sign-out has answered, no access token handed out  *)
(* before it started is accepted again and no refresh token of a session   *)
(* exchanged, although a refresh that read the user and the session before *)
(* may still save the session unrevoked.  Two things are not claimed: that *)
(* a sign-out holds which such a refresh undoes (Undone), and that the     *)
(* refresh token of the release without sessions is ended: undefined       *)
(* leaves it in the user row, and it is still exchanged.  (And tables and  *)
(* requests hold what their columns and variables may.)                    *)
RevocationHolds ==
  /\ TypeOK
  /\ \A g \in dead : ~Accepted(g) /\ (g.sid # None => ~Exchanged(g))

(* Every session of a user is ended as a replay only by a refresh token    *)
(* that had been exchanged before the request came in.                     *)
NoFalseReplay == \A r \in Reqs :
  req[r].op \in {"refresh", "stream"} /\ req[r].pc \in {"revfind", "revsave", "replay"}
    => req[r].replayed

(* A backup code is acted on once, whatever crashes come between.  So are  *)
(* a reset token and an invite code, but for each crash that comes between *)
(* what they were for (the password saved, the account inserted) and their *)
(* mark, after which they work once more.                                  *)
SingleUse == \A o \in OneTime : uses[o] <= 1 + cut[o]

(* Unused backup codes exist only while the account has two-factor, also   *)
(* after a crash half-way: a later setup does not bring old codes to life. *)
CodesOnlyWithTwoFactor == \A b \in backup : ~b.used => users[b.user].tfa
=============================================================================
