--------------------------- MODULE Accounts_proofs ---------------------------
(***************************************************************************)
(* Proofs about Accounts, for every number of requests, every first state  *)
(* and every set of overlaps the theorems name.                            *)
(*                                                                         *)
(* Base is what holds whatever overlaps: the types, which await belongs to *)
(* which operation, and which session a token names.  Each further theorem *)
(* has an inductive invariant of its own on top of it: ReplayInv, RInv,    *)
(* OnceInv and CodesInv.                                                   *)
(***************************************************************************)
EXTENDS Accounts, TLAPS

(* Operations by what they do to tokens: exchange them, need a confirming   *)
(* administrator, end those of a user.  Races are the overlaps under which  *)
(* RevocationHolds is proved.                                               *)
Racing == {"refresh", "stream"}
Admins == {"reset2fa", "resetpw", "rotate"}
Enders == {"password", "reset", "confirm", "disable", "logout"}
            \cup IF Plain \in Stored THEN {} ELSE Admins
Races  == {{a, b} : a \in Racing, b \in Enders}

(* The awaits of each operation.                                            *)
LoginPcs == {"find", "codefind", "codesave", "upgrade", "session", "jti", "saveuser"}
AdminPcs == {"reauth", "codefind", "codesave", "upgrade", "action", "find",
             "save", "revfind", "revsave"}
PcsOf(op) ==
  CASE op = "none" -> {"idle", "over"}
    [] op \in {"login", "login2fa"} -> LoginPcs
    [] op \in Racing -> {"find", "rsession", "rotate", "revfind", "revsave", "replay"}
    [] op = "migrate" -> {"find", "badlegacy", "session", "jti", "saveuser"}
    [] op = "logout" -> {"find", "logout"}
    [] op = "logoutall" -> {"find", "legacyout", "revfind", "revsave"}
    [] op \in {"profile", "begin2fa"} -> {"find", "save"}
    [] op = "password" -> {"find", "save", "revfind", "revsave"}
    [] op = "confirm" -> {"find", "save", "revfind", "revsave", "codes"}
    [] op = "disable" -> {"find", "delcodes", "save", "revfind", "revsave"}
    [] op = "newcodes" -> {"find", "delcodes", "codes"}
    [] op = "forgot" -> {"find", "mail"}
    [] op = "reset" -> {"token", "find", "save", "revfind", "revsave", "useReset"}
    [] op = "setup" -> {"check", "insert", "session", "jti", "saveuser"}
    [] op = "signup" -> {"check", "insert", "invite", "useInvite", "session", "jti", "saveuser"}
    [] op = "create" -> {"check", "insert"}
    [] op = "resetpw" -> AdminPcs
    [] op = "reset2fa" -> AdminPcs \cup {"delcodes"}
    [] op = "rotate" -> {"reauth", "codefind", "codesave", "upgrade", "action"}
    [] OTHER -> {}

(* What a request is: values of its fields, and how they hang together.     *)
Pcs == {"idle", "over", "find", "codefind", "codesave", "upgrade", "session", "jti",
        "saveuser", "reauth", "action", "delcodes", "save", "revfind", "revsave",
        "rsession", "rotate", "replay", "badlegacy", "logout", "legacyout", "codes",
        "mail", "token", "useReset", "check", "insert", "invite", "useInvite"}
OpNames == {"none", "login", "login2fa", "refresh", "stream", "migrate", "logout",
            "logoutall", "forgot", "reset", "setup", "signup", "create"} \cup ProfileOps \cup Admins
IssuedGrants == [user : Names, sid : Made \cup {None}, jti : Ids, tv : Nat \cup {None},
           key : Nat]
Calls == [op : OpNames, pc : Pcs, who : Names,
          given : Grants, pw : Ids, code : {"none", "totp", "backup"} \X Ids,
          id : Made \cup Names \cup {None}, user : Rows, sess : SessionRows,
          found : SUBSET Made, key : Nat \cup {None}, old : SUBSET IssuedGrants,
          replayed : BOOLEAN]

Busy(r) == req[r].pc \notin {"idle", "over"}
Done(s) == s = Start \/ (s \in Reqs /\ At(s, "over"))

WithSession == {"refresh", "stream", "logout", "logoutall", "migrate"}
Sound(c, I) ==
  /\ c.pc \in PcsOf(c.op)
  /\ c.old \subseteq I
  /\ c.op \in {"reset2fa", "resetpw"} => c.id = Alice
  /\ c.op = "reset" => c.id \in Made
  /\ c.op \in WithSession =>
       /\ c.given \in I /\ c.given.user = c.who
       /\ c.given.sid = None <=> c.op \in {"logoutall", "migrate"}
  /\ c.pc = "logout" => c.given.sid # None
  /\ c.pc \in {"jti", "saveuser", "rotate"} => c.key \in Nat
  /\ c.pc = "codesave" => c.code \in {"backup"} \X Made
  /\ c.pc \in {"jti", "saveuser", "rotate", "logout"} => c.sess.user = c.who

(* The tables, then the tables with the requests.                           *)
Tables ==
  /\ users \in [Names -> Rows]
  /\ sessions \in [Made -> SessionRows]
  /\ backup \subseteq [user : Names, by : Made, used : BOOLEAN]
  /\ resets \subseteq [id : Made, user : Names, used : BOOLEAN]
  /\ invite \in Ids /\ key \in Nat
  /\ issued \subseteq IssuedGrants /\ dead \subseteq issued
  /\ challenges \subseteq [user : Names, key : Nat]
  /\ uses \in [OneTime -> Nat] /\ cut \in [OneTime -> Nat]
Types ==
  /\ Tables
  /\ req \in [Reqs -> Calls]
  /\ \A r \in Reqs : Sound(req[r], issued)

(* Requests under way may overlap; a token's session was made by a request  *)
(* that has ended, or was there, and is the same user's.                    *)
Apart == \A q, r \in Reqs : q # r /\ Busy(q) /\ Busy(r) => {req[q].op, req[r].op} \in Overlaps

Named == \A g \in issued :
  g.sid # None => Done(g.sid) /\ sessions[g.sid].user = g.user

(* A step of one request.                                                   *)
Others(r) == \A q \in Reqs : q # r => req'[q] = req[q]
Turns(r, d) == d \in Calls /\ req' = [req EXCEPT ![r] = d]

(* Setting one request's entry changes no other.                            *)
LEMMA Turning ==
  ASSUME Types, NEW r \in Reqs, NEW d, Turns(r, d)
  PROVE  req' \in [Reqs -> Calls] /\ req'[r] = d /\ Others(r)
  BY DEF Types, Turns, Others

Turn(r) == Types' /\ Others(r)
Left(r, p) == req'[r] = [req[r] EXCEPT !.pc = p]

(* A request that has ended is well formed, whatever tokens there are.      *)
LEMMA OverSound == Over \in Calls /\ \A I : Sound(Over, I)
<1>1. Over \in Calls
      BY DEF Calls, Pcs, Over, Idle, OpNames, NoGrant, NoUser, NoSession, NoCode, Grants, Rows, SessionRows, None, Ids, Names, Made
<1>2. Over.pc \in PcsOf(Over.op)
      BY DEF PcsOf, Over, Idle, Racing, Admins
<1> QED BY <1>1, <1>2 DEF Sound, Over, Idle, WithSession

LoginOps == {"login", "login2fa"}
Coded  == LoginOps \cup Admins
Issues == LoginOps \cup {"migrate", "setup", "signup"}
Bumps  == {"password", "confirm", "disable", "reset", "reset2fa", "resetpw"}

(* Which operations an await belongs to.                                    *)
LEMMA OpsAt ==
  ASSUME NEW c \in Calls, c.pc \in PcsOf(c.op)
  PROVE  /\ c.pc \in {"codefind", "codesave", "upgrade"} => c.op \in Coded
         /\ c.pc \in {"session", "jti", "saveuser"} => c.op \in Issues
         /\ c.pc \in {"rsession", "rotate", "replay"} => c.op \in Racing
         /\ c.pc = "badlegacy" => c.op = "migrate"
         /\ c.pc \in {"revfind", "revsave"} => c.op \in Bumps \cup Racing \cup {"logoutall"}
         /\ c.pc = "logout" => c.op = "logout"
         /\ c.pc = "legacyout" => c.op = "logoutall"
         /\ c.pc \in {"reauth", "action"} => c.op \in Admins
         /\ c.pc = "delcodes" => c.op \in {"disable", "newcodes", "reset2fa"}
         /\ c.pc = "save" => c.op \in Bumps \cup {"profile", "begin2fa"}
         /\ c.pc = "codes" => c.op \in {"confirm", "newcodes"}
         /\ c.pc = "mail" => c.op = "forgot"
         /\ c.pc \in {"token", "useReset"} => c.op = "reset"
         /\ c.pc \in {"check", "insert"} => c.op \in {"setup", "signup", "create"}
         /\ c.pc \in {"invite", "useInvite"} => c.op = "signup"
         /\ c.pc \in {"idle", "over"} <=> c.op = "none"
<1> USE DEF PcsOf, Racing, Admins, LoginPcs, AdminPcs, Coded, LoginOps, Issues, Bumps
<1>1. c.op \in OpNames
      BY DEF Calls
<1> QED BY <1>1 DEF OpNames, ProfileOps

(* The changes the steps make to a request keep it well formed.             *)
LEMMA CallChanges ==
  ASSUME NEW c \in Calls, NEW p \in Pcs
  PROVE  /\ [c EXCEPT !.pc = p] \in Calls
         /\ \A u \in Rows : [c EXCEPT !.user = u, !.pc = p] \in Calls
         /\ \A s \in SessionRows : [c EXCEPT !.sess = s, !.pc = p] \in Calls
         /\ \A s \in SessionRows : \A k \in Nat :
               [c EXCEPT !.sess = s, !.key = k, !.pc = p] \in Calls
         /\ \A f \in SUBSET Made : [c EXCEPT !.found = f, !.pc = p] \in Calls
         /\ \A n \in Names : [c EXCEPT !.who = n, !.pc = p] \in Calls
  BY DEF Calls

(* A step that keeps the tables well formed and leaves a well-formed        *)
(* request is a turn.                                                       *)
LEMMA Turned ==
  ASSUME Types, NEW r \in Reqs, NEW d \in Calls, Sound(d, issued),
         req' = [req EXCEPT ![r] = d], Tables', issued \subseteq issued'
  PROVE  Types' /\ Others(r) /\ req'[r] = d
<1>1. req' \in [Reqs -> Calls] /\ Others(r) /\ req'[r] = d
      BY DEF Types, Others
<1>2. ASSUME NEW q \in Reqs PROVE Sound(req'[q], issued')
  <2>1. Sound(req'[q], issued)
        BY <1>1 DEF Others, Types
  <2> QED BY <2>1 DEF Sound
<1> QED BY <1>1, <1>2 DEF Types

(* Finish(r) is such a step, and so are To(r, p) and the reading of a row   *)
(* where the await belongs to the operation.                                *)
LEMMA Answers ==
  ASSUME Types, NEW r \in Reqs, Finish(r), Tables', issued \subseteq issued'
  PROVE  Types' /\ Others(r) /\ req'[r] = Over
  BY Turned, OverSound DEF Finish

LEMMA GoesOn ==
  ASSUME Types, NEW r \in Reqs, NEW p \in PcsOf(req[r].op), p \in Pcs,
         p = "logout" => req[r].given.sid # None,
         p = "codesave" => req[r].code \in {"backup"} \X Made,
         p \in {"jti", "saveuser", "rotate", "logout"} => req[r].sess.user = req[r].who,
         p \in {"jti", "saveuser", "rotate"} => req[r].key \in Nat,
         To(r, p), Tables', issued \subseteq issued'
  PROVE  Types' /\ Others(r) /\ req'[r] = [req[r] EXCEPT !.pc = p]
<1> DEFINE d == [req[r] EXCEPT !.pc = p]
<1>1. req[r] \in Calls /\ Sound(req[r], issued)
      BY DEF Types
<1>2. d \in Calls
      BY <1>1 DEF Calls
<1>3. Sound(d, issued)
      BY <1>1 DEF Sound, Calls
<1>4. req' = [req EXCEPT ![r] = d]
      BY DEF To
<1> HIDE DEF d
<1>5. Types' /\ Others(r) /\ req'[r] = d
      BY <1>2, <1>3, <1>4, Turned
<1> QED BY <1>5 DEF d

(* What leaves the tables alone keeps them well formed.                     *)
LEMMA Same ==
  ASSUME Types, UNCHANGED <<tables, issued, challenges, ghosts>>
  PROVE  Tables' /\ issued' = issued
  BY DEF Types, Tables, tables, ghosts

(* What Types says of one request, for citing.                              *)
LEMMA Now ==
  ASSUME Types, NEW r \in Reqs
  PROVE  req[r] \in Calls /\ Sound(req[r], issued) /\ req[r].pc \in PcsOf(req[r].op)
         /\ req[r].pc \in Pcs /\ req[r].op \in OpNames /\ users[req[r].who] \in Rows
         /\ req[r].user \in Rows /\ req[r].sess \in SessionRows /\ req[r].who \in Names
         /\ req[r].given \in Grants
  BY DEF Types, Sound, Calls, Tables

(* The database calls of a sign-in.                                         *)
LEMMA CodeFindTurn ==
  ASSUME Types, NEW r \in Reqs, CodeFind(r)
  PROVE  Turn(r) /\ (Left(r, "codesave") \/ req'[r] = Over)
<1>1. "codesave" \in PcsOf(req[r].op)
      BY Now, OpsAt DEF CodeFind, At, PcsOf, Coded, LoginOps, LoginPcs, Admins, AdminPcs, Racing
<1>2. Tables' /\ issued' = issued
      BY Same DEF CodeFind
<1>3. CASE To(r, "codesave") /\ req[r].code \in {"backup"} \X Made
      BY <1>1, <1>2, <1>3, GoesOn DEF Turn, Left, Pcs
<1>4. CASE Finish(r)
      BY <1>2, <1>4, Answers DEF Turn
<1>5. ASSUME NEW b \in backup, req[r].code = <<"backup", b.by>>
      PROVE  req[r].code \in {"backup"} \X Made
  <2>1. b.by \in Made
        BY DEF Types, Tables
  <2> QED BY <1>5, <2>1
<1> QED BY <1>3, <1>4, <1>5 DEF CodeFind

(* Where a checked code leads.                                              *)
LEMMA AfterPc ==
  ASSUME NEW c \in Calls, NEW row, c.pc \in PcsOf(c.op), c.op \in Coded
  PROVE  /\ After(c) \in {"session", "action"} /\ After(c) \in PcsOf(c.op) /\ After(c) \in Pcs
         /\ Upgrade(c, row) \in PcsOf(c.op) /\ Upgrade(c, row) \in Pcs
         /\ Upgrade(c, row) \in {"upgrade", After(c)} /\ "codefind" \in PcsOf(c.op)
         /\ row.enc # Plain => Upgrade(c, row) # "upgrade"
  BY DEF After, Upgrade, Coded, LoginOps, Admins, PcsOf, LoginPcs, AdminPcs, Pcs, Racing

(* Counting a use keeps the counts natural numbers.                         *)
LEMMA OnceTyped ==
  ASSUME uses \in [OneTime -> Nat], NEW r, NEW what, Once(r, what)
  PROVE  uses' \in [OneTime -> Nat]
<1>1. CASE what \in OneTime
      BY <1>1 DEF Once
<1>2. CASE what \notin OneTime
      BY <1>2 DEF Once
<1> QED BY <1>1, <1>2

(* tryConsumeBackupCode saves the match and the operation goes on.          *)
LEMMA CodeSaveTurn ==
  ASSUME Types, NEW r \in Reqs, CodeSave(r)
  PROVE  Turn(r) /\ Left(r, Upgrade(req[r], req[r].user))
<1>1. req[r].op \in Coded /\ req[r].code[2] \in Made
      BY Now, OpsAt DEF CodeSave, At, Sound
<1>2. Tables' /\ issued' = issued
  <2>1. backup' \subseteq [user : Names, by : Made, used : BOOLEAN]
    <3> DEFINE b == [user |-> req[r].who, by |-> req[r].code[2], used |-> TRUE]
    <3>1. b \in [user : Names, by : Made, used : BOOLEAN]
          BY <1>1, Now
    <3>2. backup' \subseteq backup \cup {b}
          BY DEF CodeSave
    <3> QED BY <3>1, <3>2 DEF Types, Tables
  <2>2. uses' \in [OneTime -> Nat]
        BY OnceTyped DEF CodeSave, Types, Tables
  <2> QED BY <2>1, <2>2 DEF CodeSave, Types, Tables
<1> QED BY <1>1, <1>2, Now, AfterPc, GoesOn DEF CodeSave, Turn, Left

(* maybeUpgradeTwoFactorSecret saves the row it was given.                  *)
LEMMA UpgradeSaveTurn ==
  ASSUME Types, NEW r \in Reqs, UpgradeSave(r)
  PROVE  Turn(r) /\ req'[r] = [req[r] EXCEPT !.user = [req[r].user EXCEPT !.enc = key],
                                               !.pc = After(req[r])]
<1> DEFINE row == [req[r].user EXCEPT !.enc = key]
           d == [req[r] EXCEPT !.user = row, !.pc = After(req[r])]
<1>1. req[r].op \in Coded
      BY Now, OpsAt DEF UpgradeSave, At
<1>2. row \in Rows
      BY Now DEF Types, Tables, Rows
<1>3. d \in Calls
      BY <1>1, <1>2, Now, AfterPc DEF Calls
<1>4. Sound(d, issued)
      BY <1>1, <1>2, Now, AfterPc DEF Calls, Sound
<1>5. Tables' /\ issued' = issued
      BY <1>2, Now DEF UpgradeSave, Types, Tables, ghosts
<1>6. req' = [req EXCEPT ![r] = d]
      BY DEF UpgradeSave
<1> HIDE DEF d
<1>7. Turn(r) /\ req'[r] = d
      BY <1>3, <1>4, <1>5, <1>6, Turned DEF Turn
<1> QED BY <1>7 DEF d

(* A checked code: the row is kept, and the next await depends on the code. *)
LEMMA CodeCheckedTurn ==
  ASSUME Types, NEW r \in Reqs, NEW row \in Rows, CodeChecked(r, row), req[r].op \in Coded,
         Tables', issued' = issued
  PROVE  /\ Turn(r)
         /\ \E p \in {Upgrade(req[r], row), "codefind"} :
              req'[r] = [req[r] EXCEPT !.user = row, !.pc = p]
<1> DEFINE p == IF VerifyTotp(row, req[r].code) THEN Upgrade(req[r], row) ELSE "codefind"
           d == [req[r] EXCEPT !.user = row, !.pc = p]
<1>1. p \in PcsOf(req[r].op) /\ p \in Pcs /\ p \in {"upgrade", "session", "action", "codefind"}
      BY Now, AfterPc DEF Pcs
<1>2. d \in Calls
      BY <1>1, Now DEF Calls
<1>3. Sound(d, issued)
      BY <1>1, Now DEF Calls, Sound
<1>4. req' = [req EXCEPT ![r] = d]
      BY DEF CodeChecked
<1>5. p \in {Upgrade(req[r], row), "codefind"}
      OBVIOUS
<1> HIDE DEF d, p
<1>6. Turn(r) /\ req'[r] = d
      BY <1>2, <1>3, <1>4, Turned DEF Turn
<1> QED BY <1>5, <1>6 DEF d
(* login, loginWeb and completeTwoFactorLogin once the user row is there.   *)
LEMMA LoginFindTurn ==
  ASSUME Types, NEW r \in Reqs, LoginFind(r)
  PROVE  /\ Turn(r) /\ req[r].op \in LoginOps
         /\ \/ req'[r] = Over
            \/ \E p \in {"session", "upgrade", "codefind"} :
                 /\ req'[r] = [req[r] EXCEPT !.user = users[req[r].who], !.pc = p]
                 /\ p = "upgrade" => users[req[r].who].enc = Plain
<1> DEFINE row == users[req[r].who]
<1>1. req[r].op \in LoginOps /\ req[r].op \in Coded /\ row \in Rows
      BY Now DEF LoginFind, Coded, LoginOps
<1>2. Tables' /\ issued' = issued
  <2>1. challenges' \subseteq challenges \cup {[user |-> req[r].who, key |-> key]}
        BY DEF LoginFind
  <2>2. [user |-> req[r].who, key |-> key] \in [user : Names, key : Nat]
        BY Now DEF Types, Tables
  <2> QED BY <2>1, <2>2 DEF LoginFind, Types, Tables, tables, ghosts
<1>3. CASE Finish(r)
      BY <1>1, <1>2, <1>3, Answers DEF Turn
<1>4. CASE req' = [req EXCEPT ![r] = [@ EXCEPT !.user = row, !.pc = "session"]]
  <2> DEFINE d == [req[r] EXCEPT !.user = row, !.pc = "session"]
  <2>0. "session" \in Pcs /\ "session" \in PcsOf(req[r].op)
        BY <1>1 DEF Pcs, PcsOf, LoginOps, LoginPcs, Racing
  <2>1. d \in Calls
        BY <1>1, <2>0, Now DEF Calls
  <2>2. Sound(d, issued)
        BY <1>1, <2>0, Now DEF Calls, Sound
  <2>3. req' = [req EXCEPT ![r] = d]
        BY <1>4
  <2> HIDE DEF d
  <2>4. Turn(r) /\ req'[r] = d
        BY <1>2, <2>1, <2>2, <2>3, Turned DEF Turn
  <2> QED BY <1>1, <2>4 DEF d
<1>5. CASE CodeChecked(r, row)
  <2>1. PICK p \in {Upgrade(req[r], row), "codefind"} :
          Turn(r) /\ req'[r] = [req[r] EXCEPT !.user = row, !.pc = p]
        BY <1>1, <1>2, <1>5, CodeCheckedTurn
  <2>2. p \in {"session", "upgrade", "codefind"} /\ (p = "upgrade" => row.enc = Plain)
        BY <1>1, <2>1 DEF Upgrade, After, LoginOps
  <2> QED BY <1>1, <2>1, <2>2
<1> QED BY <1>3, <1>4, <1>5 DEF LoginFind

(* issueTokens inserts a session.                                           *)
LEMMA CreateSessionTurn ==
  ASSUME Types, NEW r \in Reqs, CreateSession(r)
  PROVE  LET new == [user |-> req[r].who, jti |-> None, revoked |-> FALSE]
         IN  Turn(r) /\ req'[r] = [req[r] EXCEPT !.sess = new, !.key = key, !.pc = "jti"]
<1> DEFINE new == [user |-> req[r].who, jti |-> None, revoked |-> FALSE]
           d == [req[r] EXCEPT !.sess = new, !.key = key, !.pc = "jti"]
<1>1. /\ req[r].op \in Issues /\ new \in SessionRows /\ key \in Nat
      /\ "jti" \in Pcs /\ "jti" \in PcsOf(req[r].op)
  <2>1. req[r].op \in Issues
        BY Now, OpsAt DEF CreateSession, At
  <2> QED BY <2>1, Now DEF SessionRows, Types, Tables, Ids, Pcs, PcsOf, Issues, LoginOps,
                            LoginPcs, Racing
<1>2. d \in Calls
      BY <1>1, Now DEF Calls
<1>3. Sound(d, issued)
      BY <1>1, Now DEF Calls, Sound
<1>4. Tables' /\ issued' = issued
      BY <1>1 DEF CreateSession, Types, Tables, ghosts
<1>5. req' = [req EXCEPT ![r] = d]
      BY DEF CreateSession
<1> HIDE DEF d
<1>6. Turn(r) /\ req'[r] = d
      BY <1>2, <1>3, <1>4, <1>5, Turned DEF Turn
<1> QED BY <1>6 DEF d

(* A request's number names what it creates, and is none of the names of    *)
(* what was there.                                                          *)
LEMMA RequestIds == \A r \in Reqs : r \in Made /\ r \in Ids /\ r # Start /\ r # None
  BY AuthAssumption DEF Reqs, Made, Ids, Start, None

(* issueTokens saves the session with the id of its refresh token.          *)
LEMMA SaveJtiTurn ==
  ASSUME Types, NEW r \in Reqs, SaveJti(r)
  PROVE  Turn(r) /\ Left(r, "saveuser")
<1>1. req[r].op \in Issues /\ "saveuser" \in PcsOf(req[r].op) /\ req[r].sess.user = req[r].who
      /\ req[r].key \in Nat
      BY Now, OpsAt DEF SaveJti, At, PcsOf, Issues, LoginOps, LoginPcs, Racing, Sound
<1>2. Saved(req[r].sess, r) \in SessionRows
      BY Now, RequestIds DEF Saved, SessionRows
<1>3. Tables' /\ issued' = issued
      BY <1>2 DEF SaveJti, Types, Tables, ghosts
<1> QED BY <1>1, <1>3, GoesOn DEF SaveJti, Turn, Left, Pcs

(* users.save of a whole copy writes that row, and only the legacy token id *)
(* may differ.                                                              *)
LEMMA UserSaved ==
  ASSUME users \in [Names -> Rows], NEW who \in Names, NEW copy \in Rows,
         \/ SaveUser(who, copy) \/ SaveUserNoLegacy(who, copy)
         \/ users' = [users EXCEPT ![who] = copy]
  PROVE  /\ users' \in [Names -> Rows]
         /\ \A n \in Names : n # who => users'[n] = users[n]
         /\ users'[who].tv = copy.tv /\ users'[who].enc = copy.enc
         /\ users'[who].tfa = copy.tfa /\ users'[who].admin = copy.admin
<1>1. None \in Ids /\ users[who].legacy \in Ids
      BY DEF Ids, Rows
<1> QED BY <1>1 DEF SaveUser, SaveUserNoLegacy, Rows

(* issueTokens saves the user row and answers with a pair of tokens.        *)
LEMMA AnsweredTurn ==
  ASSUME Types, NEW r \in Reqs, Answered(r)
  PROVE  /\ Turn(r) /\ req'[r] = Over /\ req[r].op \in Issues
         /\ issued' = issued \cup {Grant(r, req[r].user, r)}
         /\ Grant(r, req[r].user, r) \in IssuedGrants
<1>1. req[r].op \in Issues
      BY Now, OpsAt DEF Answered, At
<1>2. req[r].key \in Nat
      BY Now DEF Answered, At, Sound
<1>3. Grant(r, req[r].user, r) \in IssuedGrants
      BY <1>2, Now, RequestIds DEF Grant, IssuedGrants, Rows
<1>4. users' \in [Names -> Rows]
      BY Now, UserSaved DEF Answered, Types, Tables
<1>5. Tables' /\ issued \subseteq issued'
      BY <1>3, <1>4 DEF Answered, Types, Tables, ghosts
<1> QED BY <1>1, <1>3, <1>5, Answers DEF Answered, Turn
(* Refreshes.                                                               *)
LEMMA RefreshUserTurn ==
  ASSUME Types, NEW r \in Reqs, RefreshUser(r)
  PROVE  /\ Turn(r) /\ req[r].op \in Racing \cup {"migrate"}
         /\ \/ req'[r] = Over
            \/ \E p \in {"rsession", "session", "badlegacy"} :
                 /\ req'[r] = [req[r] EXCEPT !.user = users[req[r].who], !.pc = p]
                 /\ p = "rsession" <=> req[r].op \in Racing
<1>1. req[r].op \in Racing \cup {"migrate"} /\ Tables' /\ issued' = issued
      BY Same DEF RefreshUser, Refreshing, Racing
<1>2. CASE Finish(r)
      BY <1>1, <1>2, Answers DEF Turn
<1>3. ASSUME NEW p \in {"rsession", "session", "badlegacy"},
             p = "rsession" <=> req[r].given.sid # None,
             req' = [req EXCEPT ![r] = [@ EXCEPT !.user = users[req[r].who], !.pc = p]]
      PROVE  /\ Turn(r) /\ req'[r] = [req[r] EXCEPT !.user = users[req[r].who], !.pc = p]
             /\ p = "rsession" <=> req[r].op \in Racing
  <2> DEFINE d == [req[r] EXCEPT !.user = users[req[r].who], !.pc = p]
  <2>1. p = "rsession" <=> req[r].op \in Racing
        BY <1>1, <1>3, Now DEF Sound, WithSession, Racing
  <2>2. p \in Pcs /\ p \in PcsOf(req[r].op)
        BY <1>1, <2>1 DEF Pcs, PcsOf, Racing
  <2>3. d \in Calls
        BY <2>2, Now, CallChanges
  <2>4. Sound(d, issued)
        BY <2>2, Now DEF Calls, Sound
  <2>5. req' = [req EXCEPT ![r] = d]
        BY <1>3
  <2> HIDE DEF d
  <2>6. Turn(r) /\ req'[r] = d
        BY <1>1, <2>3, <2>4, <2>5, Turned DEF Turn
  <2> QED BY <2>1, <2>6 DEF d
<1> QED BY <1>1, <1>2, <1>3 DEF RefreshUser, Finish

(* refresh once the session row is there.                                   *)
LEMMA RefreshSessionTurn ==
  ASSUME Types, NEW r \in Reqs, RefreshSession(r),
         sessions[req[r].given.sid].user = req[r].given.user
  PROVE  LET s == sessions[req[r].given.sid]
         IN  /\ Turn(r) /\ req[r].op \in Racing
             /\ \/ req'[r] = Over
                \/ \E p \in {"rotate", "revfind"} :
                     /\ req'[r] = [req[r] EXCEPT !.sess = s, !.key = key, !.pc = p]
                     /\ ~s.revoked
                     /\ p = "rotate" <=> s.jti = req[r].given.jti
<1> DEFINE s == sessions[req[r].given.sid]
<1>1. req[r].op \in Racing /\ Tables' /\ issued' = issued
      BY Now, OpsAt, Same DEF RefreshSession, At
<1>2. CASE Finish(r)
      BY <1>1, <1>2, Answers DEF Turn
<1>3. s \in SessionRows /\ s.user = req[r].who /\ key \in Nat
  <2>1. req[r].given \in issued /\ req[r].given.sid # None /\ req[r].given.user = req[r].who
        BY <1>1, Now DEF Sound, WithSession, Racing
  <2> QED BY <2>1 DEF Types, Tables, IssuedGrants
<1>4. ASSUME NEW p \in {"rotate", "revfind"},
             req' = [req EXCEPT ![r] = [@ EXCEPT !.sess = s, !.key = key, !.pc = p]]
      PROVE  Turn(r) /\ req'[r] = [req[r] EXCEPT !.sess = s, !.key = key, !.pc = p]
  <2> DEFINE d == [req[r] EXCEPT !.sess = s, !.key = key, !.pc = p]
  <2>1. p \in Pcs /\ p \in PcsOf(req[r].op)
        BY <1>1 DEF Pcs, PcsOf, Racing
  <2>2. d \in Calls
        BY <1>3, <2>1, Now, CallChanges
  <2>3. Sound(d, issued)
        BY <1>3, <2>1, Now DEF Calls, Sound
  <2>4. req' = [req EXCEPT ![r] = d]
        BY <1>4
  <2> HIDE DEF d
  <2>5. Turn(r) /\ req'[r] = d
        BY <1>1, <2>2, <2>3, <2>4, Turned DEF Turn
  <2> QED BY <2>5 DEF d
<1> QED BY <1>1, <1>2, <1>4 DEF RefreshSession, Finish, Gone

(* issueTokensForExistingSession saves the session and answers.             *)
LEMMA RotateTurn ==
  ASSUME Types, NEW r \in Reqs, Rotate(r)
  PROVE  LET g == Grant(r, req[r].user, req[r].given.sid)
         IN  /\ Turn(r) /\ req'[r] = Over /\ req[r].op \in Racing
             /\ issued' = issued \cup {g} /\ g \in IssuedGrants
             /\ req[r].given \in issued /\ req[r].given.sid \in Made
             /\ req[r].given.user = req[r].who /\ req[r].sess.user = req[r].who
<1>1. req[r].op \in Racing
      BY Now, OpsAt DEF Rotate, At
<1>2. /\ req[r].given \in issued /\ req[r].given.sid # None /\ req[r].given.user = req[r].who
      /\ req[r].key \in Nat /\ req[r].sess.user = req[r].who
      BY <1>1, Now DEF Sound, WithSession, Racing, Rotate, At
<1>3. req[r].given.sid \in Made
      BY <1>2 DEF Types, Tables, IssuedGrants
<1>4. Grant(r, req[r].user, req[r].given.sid) \in IssuedGrants
      BY <1>2, <1>3, Now, RequestIds DEF Grant, IssuedGrants, Rows
<1>5. Saved(req[r].sess, r) \in SessionRows
      BY Now, RequestIds DEF Saved, SessionRows
<1>6. Tables' /\ issued \subseteq issued'
      BY <1>4, <1>5 DEF Rotate, Types, Tables, ghosts
<1> QED BY <1>1, <1>2, <1>3, <1>4, <1>6, Answers DEF Rotate, Turn

(* The tokens a request ends are tokens handed out.                         *)
LEMMA KillTyped ==
  ASSUME Types, NEW r \in Reqs, NEW gone, gone \subseteq req[r].old, Kill(r, gone),
         issued' = issued
  PROVE  dead' \subseteq issued'
  BY Now DEF Kill, Types, Tables, Sound

LEMMA OwnedOld == ASSUME NEW r PROVE OwnedBy(r) \subseteq req[r].old
  BY DEF OwnedBy

(* Bumping the version of a row changes nothing else of it.                 *)
LEMMA BumpTyped == ASSUME NEW row \in Rows
                   PROVE  Bumped(row) \in Rows /\ Bumped(row).tfa = row.tfa
                          /\ Bumped(row).enc = row.enc /\ Bumped(row).tv = row.tv + 1
  BY DEF Bumped, Rows, None

(* A legacy refresh token that is not the user's puts the version up.       *)
LEMMA BadLegacyTurn ==
  ASSUME Types, NEW r \in Reqs, BadLegacy(r)
  PROVE  Turn(r) /\ req'[r] = Over /\ req[r].op = "migrate"
<1>1. req[r].op = "migrate"
      BY Now, OpsAt DEF BadLegacy, At
<1>2. users' \in [Names -> Rows]
      BY Now, BumpTyped, UserSaved DEF BadLegacy, Types, Tables
<1>3. dead' \subseteq issued'
      BY KillTyped, OwnedOld DEF BadLegacy
<1>4. Tables' /\ issued' = issued
      BY <1>2, <1>3 DEF BadLegacy, Types, Tables
<1> QED BY <1>1, <1>4, Answers DEF BadLegacy, Turn

(* A detected replay puts the version up.                                   *)
LEMMA ReplayTurn ==
  ASSUME Types, NEW r \in Reqs, Replay(r)
  PROVE  Turn(r) /\ req'[r] = Over /\ req[r].op \in Racing
<1>1. req[r].op \in Racing
      BY Now, OpsAt DEF Replay, At
<1>2. users' \in [Names -> Rows]
      BY Now, BumpTyped, UserSaved DEF Replay, Types, Tables
<1>3. dead' \subseteq issued'
      BY KillTyped, OwnedOld DEF Replay
<1>4. Tables' /\ issued' = issued
      BY <1>2, <1>3 DEF Replay, Types, Tables
<1> QED BY <1>1, <1>4, Answers DEF Replay, Turn
(* What follows the revocation of a user's sessions.                        *)
Onward(r) ==
  \/ req[r].op \in Racing /\ Left(r, "replay") /\ dead' = dead
  \/ req[r].op = "reset" /\ Left(r, "useReset") /\ dead' = dead
  \/ req[r].op = "confirm" /\ Left(r, "codes") /\ dead' = dead
  \/ /\ req[r].op \in {"password", "disable", "reset2fa", "resetpw", "logoutall"}
     /\ req'[r] = Over /\ dead' = dead \cup Ended(r)

(* After revokeAllSessionsForUser the caller goes on.                       *)
LEMMA AfterRevokeTurn ==
  ASSUME Types, NEW r \in Reqs, req[r].pc \in {"revfind", "revsave"}, AfterRevoke(r),
         dead' \subseteq issued => Tables', issued' = issued
  PROVE  Turn(r) /\ Onward(r)
<1>1. /\ req[r].op \in Bumps \cup Racing \cup {"logoutall"}
      /\ Refreshing(r) <=> req[r].op \in Racing
      BY Now, OpsAt DEF Refreshing, Racing, PcsOf
<1>2. CASE req[r].op \in Racing
  <2>1. To(r, "replay") /\ dead' = dead
        BY <1>1, <1>2 DEF AfterRevoke, Racing
  <2>2. "replay" \in Pcs /\ "replay" \in PcsOf(req[r].op)
        BY <1>2 DEF Pcs, PcsOf, Racing
  <2> QED BY <1>2, <2>1, <2>2, GoesOn DEF Types, Tables, Turn, Left, Onward
<1>3. CASE req[r].op = "reset"
  <2>1. To(r, "useReset") /\ dead' = dead
        BY <1>1, <1>3 DEF AfterRevoke, Racing
  <2>2. "useReset" \in Pcs /\ "useReset" \in PcsOf(req[r].op)
        BY <1>3 DEF Pcs, PcsOf, Racing
  <2> QED BY <1>3, <2>1, <2>2, GoesOn DEF Types, Tables, Turn, Left, Onward
<1>4. CASE req[r].op = "confirm"
  <2>1. To(r, "codes") /\ dead' = dead
        BY <1>1, <1>4 DEF AfterRevoke, Racing
  <2>2. "codes" \in Pcs /\ "codes" \in PcsOf(req[r].op)
        BY <1>4 DEF Pcs, PcsOf, Racing
  <2> QED BY <1>4, <2>1, <2>2, GoesOn DEF Types, Tables, Turn, Left, Onward
<1>5. CASE req[r].op \in {"password", "disable", "reset2fa", "resetpw", "logoutall"}
  <2>1. Finish(r) /\ Kill(r, Ended(r))
        BY <1>1, <1>5 DEF AfterRevoke, Racing
  <2>2. Ended(r) \subseteq req[r].old
        BY OwnedOld DEF Ended
  <2>3. dead' \subseteq issued
        BY <2>1, <2>2, KillTyped
  <2> QED BY <1>5, <2>1, <2>3, Answers DEF Turn, Onward, Kill
<1> QED BY <1>1, <1>2, <1>3, <1>4, <1>5 DEF Bumps

(* revokeAllSessionsForUser finds the sessions of the user.                 *)
LEMMA RevokeFindTurn ==
  ASSUME Types, NEW r \in Reqs, RevokeFind(r)
  PROVE  LET theirs == {s \in Made : sessions[s].user = req[r].who}
         IN  /\ Turn(r)
             /\ \/ theirs = {} /\ Onward(r)
                \/ /\ req'[r] = [req[r] EXCEPT !.found = theirs, !.pc = "revsave"]
                   /\ dead' = dead
<1> DEFINE theirs == {s \in Made : sessions[s].user = req[r].who}
           d == [req[r] EXCEPT !.found = theirs, !.pc = "revsave"]
<1>1. dead' \subseteq issued => Tables'
      BY DEF RevokeFind, Types, Tables, tables
<1>2. issued' = issued
      BY DEF RevokeFind
<1>3. CASE theirs = {}
      BY <1>1, <1>2, <1>3, AfterRevokeTurn DEF RevokeFind, At
<1>4. CASE theirs # {}
  <2>1. "revsave" \in Pcs /\ "revsave" \in PcsOf(req[r].op)
    <3>1. req[r].op \in Bumps \cup Racing \cup {"logoutall"}
          BY Now, OpsAt DEF RevokeFind, At
    <3> QED BY <3>1 DEF Pcs, PcsOf, Bumps, Racing, AdminPcs
  <2>2. d \in Calls
        BY <2>1, Now, CallChanges
  <2>3. Sound(d, issued)
        BY <2>1, Now DEF Calls, Sound
  <2>4. req' = [req EXCEPT ![r] = d] /\ dead' = dead
        BY <1>4 DEF RevokeFind
  <2>5. Tables'
        BY <1>1, <2>4 DEF Types, Tables
  <2> HIDE DEF d
  <2>6. Turn(r) /\ req'[r] = d
        BY <1>2, <2>2, <2>3, <2>4, <2>5, Turned DEF Turn
  <2> QED BY <2>4, <2>6 DEF d
<1> QED BY <1>3, <1>4

(* revokeAllSessionsForUser saves the sessions it found.                    *)
LEMMA RevokeSaveTurn ==
  ASSUME Types, NEW r \in Reqs, RevokeSave(r)
  PROVE  Turn(r) /\ Onward(r)
<1>1. sessions' \in [Made -> SessionRows]
  <2>1. \A s \in Made : Revoked(sessions[s]) \in SessionRows
        BY DEF Types, Tables, Revoked, SessionRows, Ids
  <2> QED BY <2>1 DEF RevokeSave, Types, Tables
<1>2. dead' \subseteq issued => Tables'
      BY <1>1 DEF RevokeSave, Types, Tables
<1> QED BY <1>2, AfterRevokeTurn DEF RevokeSave, At

(* logout once its rows are there.                                          *)
LEMMA LogoutFindTurn ==
  ASSUME Types, NEW r \in Reqs, LogoutFind(r),
         req[r].given.sid # None => sessions[req[r].given.sid].user = req[r].given.user
  PROVE  /\ Turn(r) /\ req[r].op \in {"logout", "logoutall"}
         /\ \/ req'[r] = Over
            \/ /\ req'[r] = [req[r] EXCEPT !.sess = sessions[req[r].given.sid], !.pc = "logout"]
               /\ req[r].given.sid # None
            \/ /\ req[r].op = "logoutall"
               /\ \E p \in {"legacyout", "revfind"} :
                    req'[r] = [req[r] EXCEPT !.user = users[req[r].who], !.pc = p]
<1>1. /\ req[r].op \in {"logout", "logoutall"} /\ Tables' /\ issued' = issued
      /\ req[r].given.sid = None <=> req[r].op = "logoutall"
      BY Same, Now DEF LogoutFind, Sound, WithSession
<1>2. CASE Finish(r)
      BY <1>1, <1>2, Answers DEF Turn
<1>3. CASE /\ req' = [req EXCEPT ![r] =
                        [@ EXCEPT !.sess = sessions[req[r].given.sid], !.pc = "logout"]]
           /\ req[r].given.sid # None
  <2> DEFINE s == sessions[req[r].given.sid]
             d == [req[r] EXCEPT !.sess = s, !.pc = "logout"]
  <2>1. req[r].given \in issued /\ req[r].given.user = req[r].who
        BY <1>1, Now DEF Sound, WithSession
  <2>2. s \in SessionRows /\ s.user = req[r].who
        BY <1>3, <2>1 DEF Types, Tables, IssuedGrants
  <2>3. "logout" \in Pcs /\ "logout" \in PcsOf(req[r].op)
        BY <1>1, <1>3 DEF Pcs, PcsOf, Racing
  <2>4. d \in Calls
        BY <2>2, <2>3, Now, CallChanges
  <2>5. Sound(d, issued)
        BY <1>3, <2>2, <2>3, Now DEF Calls, Sound
  <2>6. req' = [req EXCEPT ![r] = d]
        BY <1>3
  <2> HIDE DEF d
  <2>7. Turn(r) /\ req'[r] = d
        BY <1>1, <2>4, <2>5, <2>6, Turned DEF Turn
  <2> QED BY <1>1, <1>3, <2>7 DEF d
<1>4. ASSUME NEW p \in {"legacyout", "revfind"}, req[r].given.sid = None,
             req' = [req EXCEPT ![r] = [@ EXCEPT !.user = users[req[r].who], !.pc = p]]
      PROVE  Turn(r) /\ req'[r] = [req[r] EXCEPT !.user = users[req[r].who], !.pc = p]
  <2> DEFINE d == [req[r] EXCEPT !.user = users[req[r].who], !.pc = p]
  <2>1. p \in Pcs /\ p \in PcsOf(req[r].op)
        BY <1>1, <1>4 DEF Pcs, PcsOf, Racing
  <2>2. d \in Calls
        BY <2>1, Now, CallChanges
  <2>3. Sound(d, issued)
        BY <2>1, Now DEF Calls, Sound
  <2>4. req' = [req EXCEPT ![r] = d]
        BY <1>4
  <2> HIDE DEF d
  <2>5. Turn(r) /\ req'[r] = d
        BY <1>1, <2>2, <2>3, <2>4, Turned DEF Turn
  <2> QED BY <2>5 DEF d
<1> QED BY <1>1, <1>2, <1>3, <1>4 DEF LogoutFind, Finish

(* logout saves the session it ends.                                        *)
LEMMA LogoutSaveTurn ==
  ASSUME Types, NEW r \in Reqs, LogoutSave(r)
  PROVE  /\ Turn(r) /\ req'[r] = Over /\ req[r].op = "logout"
         /\ req[r].given \in issued /\ req[r].given.sid \in Made
         /\ req[r].given.user = req[r].who /\ req[r].sess.user = req[r].who
<1>1. req[r].op = "logout"
      BY Now, OpsAt DEF LogoutSave, At
<1>2. /\ req[r].given \in issued /\ req[r].given.sid # None /\ req[r].given.user = req[r].who
      /\ req[r].sess.user = req[r].who
      BY <1>1, Now DEF Sound, WithSession, LogoutSave, At
<1>3. Revoked(req[r].sess) \in SessionRows
      BY Now DEF Revoked, SessionRows, Ids
<1>4. dead' \subseteq issued'
      BY KillTyped DEF LogoutSave
<1>5. Tables' /\ issued' = issued
      BY <1>3, <1>4 DEF LogoutSave, Types, Tables
<1>6. req[r].given.sid \in Made
      BY <1>2 DEF Types, Tables, IssuedGrants
<1> QED BY <1>1, <1>2, <1>5, <1>6, Answers DEF LogoutSave, Turn

(* logout with a legacy token saves the user row.                           *)
LEMMA LegacyLogoutTurn ==
  ASSUME Types, NEW r \in Reqs, LegacyLogout(r)
  PROVE  Turn(r) /\ Left(r, "revfind") /\ req[r].op = "logoutall"
<1>1. req[r].op = "logoutall" /\ "revfind" \in Pcs /\ "revfind" \in PcsOf(req[r].op)
  <2>1. req[r].op = "logoutall"
        BY Now, OpsAt DEF LegacyLogout, At
  <2> QED BY <2>1 DEF Pcs, PcsOf, Racing
<1>2. users' \in [Names -> Rows]
      BY Now, UserSaved DEF LegacyLogout, Types, Tables
<1>3. Tables' /\ issued' = issued
      BY <1>2 DEF LegacyLogout, Types, Tables, ghosts
<1> QED BY <1>1, <1>3, GoesOn DEF LegacyLogout, Turn, Left
(* The operations on accounts.                                              *)
LEMMA ChangedTyped ==
  ASSUME Types, NEW r \in Reqs, NEW row \in Rows
  PROVE  /\ Changed(r, req[r], row) \in Rows
         /\ req[r].op \in Bumps => Changed(r, req[r], row).tv = row.tv + 1
         /\ req[r].op \notin Bumps => Changed(r, req[r], row).tv = row.tv
         /\ row.enc # Plain => Changed(r, req[r], row).enc # Plain
         /\ req[r].op \notin {"confirm", "disable", "reset2fa"}
              => Changed(r, req[r], row).tfa = row.tfa
         /\ req[r].op = "confirm" => Changed(r, req[r], row).tfa
<1> DEFINE q == req[r]
<1>1. r \in Ids /\ key \in Nat /\ None \in Ids
      BY RequestIds DEF Types, Tables, Ids
<1>2. CASE q.op \in {"password", "resetpw", "reset"}
  <2>1. [row EXCEPT !.pw = r] \in Rows
        BY <1>1 DEF Rows
  <2> QED BY <1>2, <2>1, BumpTyped DEF Changed, Bumps, Rows
<1>3. CASE q.op = "begin2fa"
      BY <1>1, <1>3 DEF Changed, Rows, Bumps
<1>4. CASE q.op = "confirm"
  <2> DEFINE new == [row EXCEPT !.secret = row.temp, !.enc = key, !.temp = None,
                                !.tempEnc = None, !.tfa = TRUE]
  <2>1. new \in Rows /\ new.tv = row.tv /\ new.enc = key /\ new.tfa
        BY <1>1 DEF Rows
  <2>2. Changed(r, q, row) = Bumped(new)
        BY <1>4 DEF Changed
  <2> HIDE DEF new
  <2> QED BY <1>1, <1>4, <2>1, <2>2, BumpTyped DEF Bumps, Plain
<1>5. CASE q.op \in {"disable", "reset2fa"}
  <2>1. WithoutTwoFactor(row) \in Rows /\ WithoutTwoFactor(row).tv = row.tv
        /\ WithoutTwoFactor(row).enc = None
        BY <1>1 DEF Rows, WithoutTwoFactor
  <2>2. Changed(r, q, row) = Bumped(WithoutTwoFactor(row))
        BY <1>5 DEF Changed
  <2> QED BY <1>5, <2>1, <2>2, BumpTyped DEF Bumps, Plain, None
<1>6. CASE q.op \notin {"password", "resetpw", "reset", "begin2fa", "confirm", "disable", "reset2fa"}
      BY <1>6 DEF Changed, Bumps
<1> QED BY <1>2, <1>3, <1>4, <1>5, <1>6

(* An operation on an account reads the row and changes its copy.           *)
LEMMA FindTurn ==
  ASSUME Types, NEW r \in Reqs, Find(r)
  PROVE  LET row == users[req[r].who]
         IN  /\ Turn(r) /\ req[r].op \in Bumps \cup {"profile", "begin2fa", "newcodes", "forgot"}
             /\ \/ req'[r] = Over
                \/ /\ req'[r] = [req[r] EXCEPT !.user = Changed(r, req[r], row),
                                               !.pc = Then(req[r])]
                   /\ ~Refused(req[r], row) /\ row # NoUser
<1> DEFINE row == users[req[r].who]
           d == [req[r] EXCEPT !.user = Changed(r, req[r], row), !.pc = Then(req[r])]
<1>1. req[r].op \in Bumps \cup {"profile", "begin2fa", "newcodes", "forgot"}
      BY DEF Find, ProfileOps, Bumps
<1>2. Tables' /\ issued' = issued
      BY Same DEF Find
<1>3. CASE Finish(r)
      BY <1>1, <1>2, <1>3, Answers DEF Turn
<1>4. CASE req' = [req EXCEPT ![r] = d] /\ ~(row = NoUser \/ Refused(req[r], row))
  <2>1. Then(req[r]) \in Pcs /\ Then(req[r]) \in PcsOf(req[r].op)
        /\ Then(req[r]) \in {"delcodes", "mail", "save"}
        BY <1>1 DEF Pcs, PcsOf, Racing, Then, Bumps, AdminPcs
  <2>2. d \in Calls
        BY <2>1, Now, ChangedTyped, CallChanges
  <2>3. Sound(d, issued)
        BY <2>1, Now DEF Calls, Sound
  <2> HIDE DEF d
  <2>4. Turn(r) /\ req'[r] = d
        BY <1>2, <1>4, <2>2, <2>3, Turned DEF Turn
  <2> QED BY <1>1, <1>4, <2>4 DEF d
<1>5. CASE row = NoUser \/ Refused(req[r], row)
      BY <1>3, <1>5 DEF Find, Finish
<1>6. CASE ~(row = NoUser \/ Refused(req[r], row))
  <2>1. req' = [req EXCEPT ![r] = d]
        BY <1>6 DEF Find
  <2> QED BY <1>4, <1>6, <2>1
<1> QED BY <1>5, <1>6

(* The backup codes of the user are deleted.                                *)
LEMMA DeleteCodesTurn ==
  ASSUME Types, NEW r \in Reqs, DeleteCodes(r)
  PROVE  /\ Turn(r) /\ req[r].op \in {"disable", "newcodes", "reset2fa"}
         /\ Left(r, IF req[r].op = "newcodes" THEN "codes" ELSE "save")
<1>1. req[r].op \in {"disable", "newcodes", "reset2fa"}
      BY Now, OpsAt DEF DeleteCodes, At
<1>2. Tables' /\ issued' = issued
      BY DEF DeleteCodes, Types, Tables, ghosts
<1> DEFINE p == IF req[r].op = "newcodes" THEN "codes" ELSE "save"
<1>3. p \in Pcs /\ p \in PcsOf(req[r].op) /\ p \in {"codes", "save"}
      BY <1>1 DEF Pcs, PcsOf, Racing, AdminPcs
<1>4. To(r, p)
      BY DEF DeleteCodes
<1> HIDE DEF p
<1>5. Turn(r) /\ Left(r, p)
      BY <1>2, <1>3, <1>4, GoesOn DEF Turn, Left
<1> QED BY <1>1, <1>5 DEF p

(* The changed copy is saved.                                               *)
LEMMA SaveTurn ==
  ASSUME Types, NEW r \in Reqs, Save(r)
  PROVE  /\ Turn(r)
         /\ \/ req[r].op \in {"profile", "begin2fa"} /\ req'[r] = Over
            \/ req[r].op \in Bumps /\ Left(r, "revfind")
<1>1. req[r].op \in Bumps \cup {"profile", "begin2fa"}
      BY Now, OpsAt DEF Save, At
<1>2. users' \in [Names -> Rows]
      BY Now, UserSaved DEF Save, Types, Tables
<1>3. Tables' /\ issued' = issued
  <2>1. uses' \in [OneTime -> Nat]
        BY OnceTyped DEF Save, Types, Tables
  <2> QED BY <1>2, <2>1 DEF Save, Types, Tables
<1>4. CASE req[r].op \in {"profile", "begin2fa"}
      BY <1>3, <1>4, Answers DEF Save, Turn
<1>5. CASE req[r].op \in Bumps
  <2>1. "revfind" \in Pcs /\ "revfind" \in PcsOf(req[r].op)
        BY <1>5 DEF Pcs, PcsOf, Racing, AdminPcs, Bumps
  <2>2. To(r, "revfind")
        BY <1>5 DEF Save, Bumps
  <2> QED BY <1>3, <1>5, <2>1, <2>2, GoesOn DEF Turn, Left
<1> QED BY <1>1, <1>4, <1>5

(* generateAndStoreBackupCodes stores a batch.                              *)
LEMMA StoreCodesTurn ==
  ASSUME Types, NEW r \in Reqs, StoreCodes(r)
  PROVE  Turn(r) /\ req'[r] = Over /\ req[r].op \in {"confirm", "newcodes"}
<1>1. req[r].op \in {"confirm", "newcodes"}
      BY Now, OpsAt DEF StoreCodes, At
<1>2. backup' \subseteq [user : Names, by : Made, used : BOOLEAN]
  <2> DEFINE new == [user |-> req[r].who, by |-> r, used |-> FALSE]
  <2>1. new \in [user : Names, by : Made, used : BOOLEAN]
        BY Now, RequestIds
  <2>2. backup' \subseteq backup \cup {new}
        BY DEF StoreCodes
  <2> QED BY <2>1, <2>2 DEF Types, Tables
<1>3. dead' \subseteq issued'
      BY KillTyped, OwnedOld DEF StoreCodes, Types, Tables
<1>4. Tables' /\ issued' = issued
      BY <1>2, <1>3 DEF StoreCodes, Types, Tables
<1> QED BY <1>1, <1>4, Answers DEF StoreCodes, Turn

(* requestPasswordReset stores a token.                                     *)
LEMMA MailTurn ==
  ASSUME Types, NEW r \in Reqs, Mail(r)
  PROVE  Turn(r) /\ req'[r] = Over /\ req[r].op = "forgot"
<1>1. req[r].op = "forgot"
      BY Now, OpsAt DEF Mail, At
<1>2. resets' \subseteq [id : Made, user : Names, used : BOOLEAN]
  <2> DEFINE new == [id |-> r, user |-> req[r].who, used |-> FALSE]
  <2>1. new \in [id : Made, user : Names, used : BOOLEAN]
        BY Now, RequestIds
  <2>2. resets' \subseteq resets \cup {new}
        BY DEF Mail
  <2> QED BY <2>1, <2>2 DEF Types, Tables
<1>3. Tables' /\ issued' = issued
      BY <1>2 DEF Mail, Types, Tables, ghosts
<1> QED BY <1>1, <1>3, Answers DEF Mail, Turn

(* resetPassword looks the token up.                                        *)
LEMMA FindTokenTurn ==
  ASSUME Types, NEW r \in Reqs, FindToken(r)
  PROVE  Turn(r) /\ req[r].op = "reset" /\ (Left(r, "find") \/ req'[r] = Over)
<1>1. req[r].op = "reset" /\ "find" \in Pcs /\ "find" \in PcsOf(req[r].op)
  <2>1. req[r].op = "reset"
        BY Now, OpsAt DEF FindToken, At
  <2> QED BY <2>1 DEF Pcs, PcsOf, Racing
<1>2. Tables' /\ issued' = issued
      BY Same DEF FindToken
<1>3. CASE To(r, "find")
      BY <1>1, <1>2, <1>3, GoesOn DEF Turn, Left
<1>4. CASE Finish(r)
      BY <1>1, <1>2, <1>4, Answers DEF Turn
<1> QED BY <1>3, <1>4 DEF FindToken

(* resetPassword marks the token used.                                      *)
LEMMA UseTokenTurn ==
  ASSUME Types, NEW r \in Reqs, UseToken(r)
  PROVE  Turn(r) /\ req'[r] = Over /\ req[r].op = "reset" /\ req[r].id \in Made
<1>1. req[r].op = "reset" /\ req[r].id \in Made
      BY Now, OpsAt DEF UseToken, At, Sound
<1>2. resets' \subseteq [id : Made, user : Names, used : BOOLEAN]
  <2> DEFINE new == [id |-> req[r].id, user |-> req[r].who, used |-> TRUE]
  <2>1. new \in [id : Made, user : Names, used : BOOLEAN]
        BY <1>1, Now
  <2>2. resets' \subseteq resets \cup {new}
        BY DEF UseToken
  <2> QED BY <2>1, <2>2 DEF Types, Tables
<1>4. dead' \subseteq issued'
      BY KillTyped, OwnedOld DEF UseToken, Types, Tables
<1>5. Tables' /\ issued' = issued
      BY <1>2, <1>4 DEF UseToken, Types, Tables
<1> QED BY <1>1, <1>5, Answers DEF UseToken, Turn
(* setupFirstUser, signup and createUser look for what stands in the way.   *)
LEMMA CheckNewTurn ==
  ASSUME Types, NEW r \in Reqs, CheckNew(r)
  PROVE  Turn(r) /\ req[r].op \in {"setup", "signup", "create"} /\ (Left(r, "insert") \/ req'[r] = Over)
<1>1. req[r].op \in {"setup", "signup", "create"}
      BY Now, OpsAt DEF CheckNew, At
<1>2. "insert" \in Pcs /\ "insert" \in PcsOf(req[r].op)
      BY <1>1 DEF Pcs, PcsOf, Racing
<1>3. Tables' /\ issued' = issued
      BY Same DEF CheckNew
<1>4. CASE To(r, "insert")
      BY <1>1, <1>2, <1>3, <1>4, GoesOn DEF Turn, Left
<1>5. CASE Finish(r)
      BY <1>1, <1>3, <1>5, Answers DEF Turn
<1> QED BY <1>4, <1>5 DEF CheckNew

(* A new row is a row: version 0, no two-factor.                            *)
LEMMA NewUserTyped ==
  ASSUME NEW r \in Reqs, NEW admin \in BOOLEAN
  PROVE  /\ NewUser(r, admin) \in Rows /\ NewUser(r, admin).tv = 0
         /\ NewUser(r, admin).enc = None /\ ~NewUser(r, admin).tfa
  BY RequestIds DEF NewUser, NoUser, Rows, Ids, None

(* They insert the row, or the unique name refuses it.                      *)
LEMMA InsertTurn ==
  ASSUME Types, NEW r \in Reqs, Insert(r)
  PROVE  /\ Turn(r) /\ req[r].op \in {"setup", "signup", "create"}
         /\ \/ req'[r] = Over
            \/ /\ users[req[r].who] = NoUser
               /\ \E p \in {"invite", "session"} : \E row \in Rows :
                    /\ row.tv = 0 /\ row.enc = None /\ ~row.tfa
                    /\ users'[req[r].who] = row
                    /\ req'[r] = [req[r] EXCEPT !.user = row, !.pc = p]
                    /\ p = "invite" <=> req[r].op = "signup"
         /\ \/ users' = users
            \/ /\ users[req[r].who] = NoUser
               /\ \E row \in Rows :
                    /\ row.tv = 0 /\ row.enc = None /\ ~row.tfa
                    /\ users' = [users EXCEPT ![req[r].who] = row]
<1> DEFINE row == NewUser(r, req[r].op = "setup")
           p == IF req[r].op = "signup" THEN "invite" ELSE "session"
           d == [req[r] EXCEPT !.user = row, !.pc = p]
<1>1. req[r].op \in {"setup", "signup", "create"}
      BY Now, OpsAt DEF Insert, At
<1>2. row \in Rows /\ row.tv = 0 /\ row.enc = None /\ ~row.tfa
      BY NewUserTyped
<1>3. users' \in [Names -> Rows]
      BY <1>2, Now DEF Insert, Types, Tables
<1>4. Tables' /\ issued' = issued
  <2>1. uses' \in [OneTime -> Nat]
        BY OnceTyped DEF Insert, Types, Tables
  <2> QED BY <1>3, <2>1 DEF Insert, Types, Tables
<1>5. CASE users[req[r].who] # NoUser
      BY <1>1, <1>4, <1>5, Answers DEF Insert, Turn
<1>6. CASE users[req[r].who] = NoUser /\ req[r].op = "create"
  <2>1. Finish(r) /\ users' = [users EXCEPT ![req[r].who] = row]
        BY <1>6 DEF Insert, Finish
  <2> HIDE DEF row
  <2> QED BY <1>1, <1>2, <1>4, <1>6, <2>1, Answers DEF Turn
<1>7. CASE users[req[r].who] = NoUser /\ req[r].op # "create"
  <2>1. req' = [req EXCEPT ![r] = d] /\ users' = [users EXCEPT ![req[r].who] = row]
        BY <1>7 DEF Insert
  <2>2. p \in Pcs /\ p \in PcsOf(req[r].op) /\ p \in {"invite", "session"}
        /\ (p = "invite" <=> req[r].op = "signup")
        BY <1>1, <1>7 DEF Pcs, PcsOf, Racing
  <2> HIDE DEF row, p
  <2>3. d \in Calls
        BY <1>2, <2>2, Now, CallChanges
  <2>4. Sound(d, issued)
        BY <2>2, Now DEF Calls, Sound
  <2>5. users'[req[r].who] = row
        BY <2>1, Now DEF Types, Tables
  <2> HIDE DEF d
  <2>6. Turn(r) /\ req'[r] = d
        BY <1>4, <2>1, <2>3, <2>4, Turned DEF Turn
  <2> QED BY <1>1, <1>2, <1>7, <2>1, <2>2, <2>5, <2>6 DEF d
<1> QED BY <1>5, <1>6, <1>7

(* signup looks the invite code up again.                                   *)
LEMMA FindInviteTurn ==
  ASSUME Types, NEW r \in Reqs, FindInvite(r)
  PROVE  Turn(r) /\ req[r].op = "signup" /\ (Left(r, "useInvite") \/ req'[r] = Over)
<1>1. req[r].op = "signup"
      BY Now, OpsAt DEF FindInvite, At
<1>2. "useInvite" \in Pcs /\ "useInvite" \in PcsOf(req[r].op)
      BY <1>1 DEF Pcs, PcsOf, Racing
<1>3. Tables' /\ issued' = issued
      BY Same DEF FindInvite
<1>4. CASE To(r, "useInvite")
      BY <1>1, <1>2, <1>3, <1>4, GoesOn DEF Turn, Left
<1>5. CASE Finish(r)
      BY <1>1, <1>3, <1>5, Answers DEF Turn
<1> QED BY <1>4, <1>5 DEF FindInvite

(* signup marks the invite code used.                                       *)
LEMMA UseInviteTurn ==
  ASSUME Types, NEW r \in Reqs, UseInvite(r)
  PROVE  Turn(r) /\ req[r].op = "signup" /\ Left(r, "session")
<1>1. req[r].op = "signup"
      BY Now, OpsAt DEF UseInvite, At
<1>2. "session" \in Pcs /\ "session" \in PcsOf(req[r].op)
      BY <1>1 DEF Pcs, PcsOf, Racing
<1>4. Tables' /\ issued' = issued
      BY RequestIds DEF UseInvite, Types, Tables, ghosts
<1> QED BY <1>1, <1>2, <1>4, GoesOn DEF UseInvite, Turn, Left

(* assertAdminReauth.                                                       *)
LEMMA ReauthTurn ==
  ASSUME Types, NEW r \in Reqs, Reauth(r)
  PROVE  /\ Turn(r) /\ req[r].op \in Admins
         /\ \/ req'[r] = Over
            \/ Left(r, "action")
            \/ \E p \in {"action", "upgrade", "codefind"} :
                 /\ req'[r] = [req[r] EXCEPT !.user = users[req[r].who], !.pc = p]
                 /\ p = "upgrade" => users[req[r].who].enc = Plain
<1> DEFINE row == users[req[r].who]
<1>1. req[r].op \in Admins /\ req[r].op \in Coded
      BY Now, OpsAt DEF Reauth, At, Coded
<1>2. "action" \in Pcs /\ "action" \in PcsOf(req[r].op)
      BY <1>1 DEF Pcs, PcsOf, Racing, Admins, AdminPcs
<1>3. Tables' /\ issued' = issued
      BY Same DEF Reauth
<1>4. CASE To(r, "action")
      BY <1>1, <1>2, <1>3, <1>4, GoesOn DEF Turn, Left
<1>5. CASE Finish(r)
      BY <1>1, <1>3, <1>5, Answers DEF Turn
<1>6. CASE CodeChecked(r, row)
  <2>1. PICK p \in {Upgrade(req[r], row), "codefind"} :
          Turn(r) /\ req'[r] = [req[r] EXCEPT !.user = row, !.pc = p]
        BY <1>1, <1>3, <1>6, Now, CodeCheckedTurn
  <2>2. p \in {"action", "upgrade", "codefind"} /\ (p = "upgrade" => row.enc = Plain)
        BY <1>1, <2>1 DEF Upgrade, After, Admins
  <2> QED BY <1>1, <2>1, <2>2
<1> QED BY <1>4, <1>5, <1>6 DEF Reauth

(* The operation an administrator confirmed starts.                         *)
LEMMA ActTurn ==
  ASSUME Types, NEW r \in Reqs, Act(r)
  PROVE  /\ Turn(r)
         /\ \/ /\ req[r].op = "rotate" /\ req'[r] = Over
               /\ key' = key + 1 /\ dead' = dead \cup req[r].old
            \/ /\ req[r].op \in {"reset2fa", "resetpw"} /\ UNCHANGED <<key, dead>>
               /\ req'[r] = [req[r] EXCEPT !.who = Alice, !.pc = "find"]
<1>1. req[r].op \in Admins
      BY Now, OpsAt DEF Act, At
<1>2. CASE req[r].op = "rotate"
  <2>1. dead' \subseteq issued'
        BY <1>2, KillTyped DEF Act
  <2>2. key' \in Nat
        BY <1>2 DEF Act, Types, Tables
  <2>3. Tables' /\ issued' = issued
        BY <2>1, <2>2 DEF Act, Types, Tables
  <2> QED BY <1>2, <2>3, Answers DEF Act, Turn, Kill
<1>3. CASE req[r].op \in {"reset2fa", "resetpw"}
  <2> DEFINE d == [req[r] EXCEPT !.who = Alice, !.pc = "find"]
  <2>1. req[r].id = Alice /\ Alice \in Names
        BY <1>3, Now DEF Sound, Names
  <2>2. req' = [req EXCEPT ![r] = d] /\ UNCHANGED <<key, dead>>
        BY <1>3, <2>1 DEF Act
  <2>3. Tables' /\ issued' = issued
        BY <2>2 DEF Act, Types, Tables
  <2>4. "find" \in Pcs /\ "find" \in PcsOf(req[r].op)
        BY <1>3 DEF Pcs, PcsOf, Racing, AdminPcs
  <2>5. d \in Calls
        BY <2>1, <2>4, Now, CallChanges
  <2>6. Sound(d, issued)
        BY <1>3, <2>4, Now DEF Calls, Sound, WithSession
  <2> HIDE DEF d
  <2>7. Turn(r) /\ req'[r] = d
        BY <2>2, <2>3, <2>5, <2>6, Turned DEF Turn
  <2> QED BY <1>3, <2>2, <2>7 DEF d
<1> QED BY <1>1, <1>2, <1>3 DEF Admins
(* How each request begins.                                                 *)
Opening(op) ==
  CASE op \in {"setup", "signup", "create"} -> "check"
    [] op = "reset" -> "token"
    [] op \in Admins -> "reauth"
    [] OTHER -> "find"
Opened(r, d) ==
  /\ May(r, d.op) /\ d.op # "none" /\ d.pc = Opening(d.op)
  /\ d.old = issued /\ d.user = NoUser /\ d.found = {} /\ d.key = None
  /\ d.op = "login" => users[d.who] # NoUser
  /\ d.op \in Racing => d.given.sid # None /\ d.replayed = ~Current(d.given)
  /\ d.op = "reset" => \E t \in resets : t.id = d.id /\ t.user = d.who
  /\ UNCHANGED <<tables, issued, challenges, ghosts>>

LEMMA OpeningPc ==
  ASSUME NEW op \in OpNames, op # "none"
  PROVE  /\ Opening(op) \in Pcs /\ Opening(op) \in PcsOf(op)
         /\ Opening(op) \in {"check", "token", "reauth", "find"}
  BY DEF Opening, OpNames, ProfileOps, Admins, Pcs, PcsOf, Racing, LoginPcs, AdminPcs

(* A request that begins is well formed and knows no row yet.               *)
LEMMA BeginTurn ==
  ASSUME Types, NEW r \in Reqs, NEW op \in OpNames, NEW f \in Calls,
         op # "none", Begin(r, op, Opening(op), f),
         f.user = NoUser, f.found = {}, f.key = None, op = "login" => users[f.who] # NoUser,
         op \in {"reset2fa", "resetpw"} => f.id = Alice,
         op = "reset" => \E t \in resets : t.id = f.id /\ t.user = f.who,
         op \in WithSession =>
           /\ f.given \in issued /\ f.given.user = f.who
           /\ f.given.sid = None <=> op \in {"logoutall", "migrate"},
         op \in Racing => f.replayed = ~Current(f.given)
  PROVE  Turn(r) /\ Opened(r, req'[r]) /\ req'[r].op = op
<1> DEFINE d == [f EXCEPT !.op = op, !.pc = Opening(op), !.old = issued]
<1>1. d \in Calls
  <2>1. issued \in SUBSET IssuedGrants
        BY DEF Types, Tables
  <2> QED BY <2>1, OpeningPc DEF Calls
<1>2. op = "reset" => f.id \in Made
      BY DEF Types, Tables
<1>3. Sound(d, issued)
      BY <1>2, OpeningPc DEF Sound, Calls
<1>4. req' = [req EXCEPT ![r] = d] /\ May(r, op) /\ UNCHANGED <<tables, issued, challenges, ghosts>>
      BY DEF Begin
<1>5. Tables' /\ issued' = issued
      BY <1>4, Same
<1>6. Opened(r, d) /\ d.op = op
      BY <1>4 DEF Opened, Calls, WithSession, Racing
<1> HIDE DEF d
<1>7. Turn(r) /\ req'[r] = d
      BY <1>1, <1>3, <1>4, <1>5, Turned DEF Turn
<1> QED BY <1>6, <1>7

LEMMA IdleCall ==
  /\ Idle \in Calls /\ Idle.user = NoUser /\ Idle.found = {} /\ Idle.key = None
  /\ NoCode \in {"none", "totp", "backup"} \X Ids
  BY DEF Calls, Pcs, Idle, OpNames, NoGrant, NoUser, NoSession, NoCode, Grants, Rows, SessionRows, None, Ids, Names, Made

(* The codes and passwords a request may carry.                             *)
LEMMA CodesTyped ==
  ASSUME Types
  PROVE  /\ Codes \subseteq {"none", "totp", "backup"} \X Ids
         /\ \A n \in Names : /\ Passwords(n) \subseteq Ids
                             /\ <<"totp", users[n].temp>> \in {"none", "totp", "backup"} \X Ids
<1>1. \A n \in Names : users[n].secret \in Ids /\ users[n].pw \in Ids /\ users[n].temp \in Ids
      BY DEF Types, Tables, Rows
<1>2. \A b \in backup : b.by \in Ids
      BY DEF Types, Tables, Ids
<1>3. None \in Ids
      BY DEF Ids
<1> QED BY <1>1, <1>2, <1>3, IdleCall DEF Codes, Passwords

(* Sign-in, refresh, stream and sign-out begin.                             *)
LEMMA SessionBeginTurn ==
  ASSUME Types, NEW r \in Reqs, SessionBegin(r)
  PROVE  Turn(r) /\ Opened(r, req'[r])
<1> USE DEF Calls
<1>1. CASE Login(r)
  <2>1. PICK n \in Names, c \in Codes : \E p \in Passwords(n) : users[n] # NoUser /\
               Begin(r, "login", "find", [Idle EXCEPT !.who = n, !.pw = p, !.code = c])
        BY <1>1 DEF Login
  <2>2. PICK p \in Passwords(n) : users[n] # NoUser /\
               Begin(r, "login", "find", [Idle EXCEPT !.who = n, !.pw = p, !.code = c])
        BY <2>1
  <2> DEFINE f == [Idle EXCEPT !.who = n, !.pw = p, !.code = c]
  <2>3. f \in Calls /\ f.user = NoUser /\ f.found = {} /\ f.key = None /\ f.who = n
        BY IdleCall, CodesTyped
  <2>4. Opening("login") = "find" /\ "login" \in OpNames /\ "login" \notin WithSession \cup Racing
        BY DEF Opening, Admins, OpNames, WithSession, Racing
  <2>5. Begin(r, "login", Opening("login"), f)
        BY <2>2, <2>4
  <2> HIDE DEF f, Calls
  <2> QED BY <2>2, <2>3, <2>4, <2>5, BeginTurn
<1>2. CASE LoginTwoFactor(r)
  <2>1. PICK t \in challenges, c \in Codes \ {NoCode} :
               Begin(r, "login2fa", "find", [Idle EXCEPT !.who = t.user, !.code = c])
        BY <1>2 DEF LoginTwoFactor
  <2> DEFINE f == [Idle EXCEPT !.who = t.user, !.code = c]
  <2>2. t.user \in Names
        BY DEF Types, Tables
  <2>3. f \in Calls /\ f.user = NoUser /\ f.found = {} /\ f.key = None
        BY <2>2, IdleCall, CodesTyped
  <2>4. Opening("login2fa") = "find" /\ "login2fa" \in OpNames /\ "login2fa" \notin WithSession \cup Racing
        BY DEF Opening, Admins, OpNames, WithSession, Racing
  <2>5. Begin(r, "login2fa", Opening("login2fa"), f)
        BY <2>1, <2>4
  <2> HIDE DEF f, Calls
  <2> QED BY <2>3, <2>4, <2>5, BeginTurn
<1>3. ASSUME NEW g \in issued, NEW op \in WithSession, NEW x \in BOOLEAN,
             Begin(r, op, "find", [Idle EXCEPT !.who = g.user, !.given = g, !.replayed = x]),
             (g.sid = None) <=> op \in {"logoutall", "migrate"},
             op \in Racing => x = ~Current(g)
      PROVE  Turn(r) /\ Opened(r, req'[r])
  <2> DEFINE f == [Idle EXCEPT !.who = g.user, !.given = g, !.replayed = x]
  <2>1. g \in Grants /\ g.user \in Names
        BY DEF Types, Tables, Grants, IssuedGrants, Ids
  <2>2. f \in Calls /\ f.user = NoUser /\ f.found = {} /\ f.key = None /\ f.given = g /\ f.who = g.user /\ f.replayed = x
        BY <2>1, IdleCall
  <2>3. Opening(op) = "find" /\ op \in OpNames /\ op # "none" /\ op \notin {"login", "reset", "reset2fa", "resetpw"}
        BY DEF Opening, Admins, OpNames, WithSession
  <2>4. Begin(r, op, Opening(op), f)
        BY <1>3, <2>3
  <2> HIDE DEF f, Calls
  <2> QED BY <1>3, <2>2, <2>3, <2>4, BeginTurn
<1>4. CASE Refresh(r)
  <2>1. PICK g \in issued : Begin(r, IF g.sid = None THEN "migrate" ELSE "refresh", "find",
       [Idle EXCEPT !.who = g.user, !.given = g,
          !.replayed = g.sid # None /\ ~Current(g)])
        BY <1>4 DEF Refresh
  <2> QED BY <1>3, <2>1 DEF WithSession, Racing
<1>5. CASE Stream(r)
      BY <1>3, <1>5 DEF WithSession, Racing, Stream
<1>6. CASE Logout(r)
  <2>1. PICK g \in issued :
          Begin(r, IF g.sid = None THEN "logoutall" ELSE "logout", "find",
                [Idle EXCEPT !.who = g.user, !.given = g])
        BY <1>6 DEF Logout
  <2>2. [Idle EXCEPT !.who = g.user, !.given = g]
           = [Idle EXCEPT !.who = g.user, !.given = g, !.replayed = FALSE]
    <3>1. Idle.replayed = FALSE
          BY DEF Idle
    <3> QED BY <3>1, IdleCall
  <2> QED BY <1>3, <2>1, <2>2 DEF WithSession, Racing
<1> QED BY <1>1, <1>2, <1>4, <1>5, <1>6 DEF SessionBegin

(* An operation of a signed-in user begins.                                 *)
LEMMA AsUserTurn ==
  ASSUME Types, NEW r \in Reqs, NEW op \in ProfileOps, NEW n \in Names,
         NEW p \in Ids, NEW c \in {"none", "totp", "backup"} \X Ids, AsUser(r, op, n, p, c)
  PROVE  Turn(r) /\ Opened(r, req'[r])
<1> DEFINE f == [Idle EXCEPT !.who = n, !.pw = p, !.code = c]
<1>1. f \in Calls /\ f.user = NoUser /\ f.found = {} /\ f.key = None
      BY IdleCall DEF Calls
<1>2. Opening(op) = "find" /\ op \in OpNames \ {"none", "login", "reset", "reset2fa", "resetpw"}
      /\ op \notin WithSession \cup Racing
      BY DEF Opening, Admins, OpNames, WithSession, Racing, ProfileOps
<1>3. Begin(r, op, "find", f)
      BY DEF AsUser
<1> HIDE DEF f
<1> QED BY <1>1, <1>2, <1>3, BeginTurn

(* An operation of an administrator begins.                                 *)
LEMMA AsAdminTurn ==
  ASSUME Types, NEW r \in Reqs, NEW op \in Admins, NEW target \in {Alice, None},
         op \in {"reset2fa", "resetpw"} => target = Alice, AsAdmin(r, op, target)
  PROVE  Turn(r) /\ Opened(r, req'[r])
<1>1. PICK n \in SignedIn, c \in Codes : \E p \in Passwords(n) :
        Begin(r, op, "reauth", [Idle EXCEPT !.who = n, !.pw = p, !.code = c, !.id = target])
      BY DEF AsAdmin
<1>2. PICK p \in Passwords(n) :
        Begin(r, op, "reauth", [Idle EXCEPT !.who = n, !.pw = p, !.code = c, !.id = target])
      BY <1>1
<1> DEFINE f == [Idle EXCEPT !.who = n, !.pw = p, !.code = c, !.id = target]
<1>3. n \in Names
  <2>1. (\A g \in issued : g.user \in Names) /\ \A t \in challenges : t.user \in Names
        BY DEF Types, Tables, IssuedGrants
  <2> QED BY <2>1 DEF SignedIn
<1>4. f \in Calls /\ f.user = NoUser /\ f.found = {} /\ f.key = None /\ f.id = target
      BY <1>3, IdleCall, CodesTyped DEF Calls, Names
<1>5. Opening(op) = "reauth" /\ op \in OpNames /\ op # "none" /\ op # "reset" /\ op # "login"
      /\ op \notin WithSession \cup Racing
      BY DEF Opening, Admins, OpNames, WithSession, Racing
<1>6. Begin(r, op, Opening(op), f)
      BY <1>2, <1>5
<1> HIDE DEF f
<1> QED BY <1>4, <1>5, <1>6, BeginTurn

(* Any request begins.                                                      *)
LEMMA BeginsTurn ==
  ASSUME Types, NEW r \in Reqs, Begins(r)
  PROVE  Turn(r) /\ Opened(r, req'[r])
<1> USE DEF ProfileOps, Admins
<1>0. None \in Ids /\ NoCode \in {"none", "totp", "backup"} \X Ids
      BY IdleCall DEF Ids
<1>1. CASE SessionBegin(r)
      BY <1>1, SessionBeginTurn
<1>2. CASE Profile(r) \/ BeginSetup(r)
      BY <1>0, <1>2, AsUserTurn DEF Profile, BeginSetup
<1>3. CASE Password(r)
      BY <1>0, <1>3, AsUserTurn, CodesTyped DEF Password
<1>4. CASE ConfirmSetup(r)
      BY <1>0, <1>4, AsUserTurn, CodesTyped DEF ConfirmSetup
<1>5. CASE Disable(r) \/ NewCodes(r)
      BY <1>0, <1>5, AsUserTurn, CodesTyped DEF Disable, NewCodes
<1>6. CASE ResetTwoFactor(r) \/ ResetPassword(r) \/ RotateSecrets(r)
      BY <1>6, AsAdminTurn DEF ResetTwoFactor, ResetPassword, RotateSecrets
<1>7. ASSUME NEW op \in {"setup", "signup", "create", "forgot"}, NEW n \in Names,
             Begin(r, op, Opening(op), [Idle EXCEPT !.who = n])
      PROVE  Turn(r) /\ Opened(r, req'[r])
  <2> DEFINE f == [Idle EXCEPT !.who = n]
  <2>1. f \in Calls /\ f.user = NoUser /\ f.found = {} /\ f.key = None
        BY IdleCall DEF Calls
  <2>2. op \in OpNames \ {"none", "login", "reset", "reset2fa", "resetpw"} /\ op \notin WithSession \cup Racing
        BY DEF OpNames, WithSession, Racing
  <2> HIDE DEF f
  <2> QED BY <1>7, <2>1, <2>2, BeginTurn DEF f
<1>8. Bob \in Names /\ Root \in Names /\ Alice \in Names
      BY DEF Names
<1>9. CASE Setup(r) \/ Signup(r) \/ Create(r) \/ Forgot(r)
  <2>1. CASE Setup(r)
        BY <1>7, <1>8, <2>1 DEF Setup, Opening
  <2>2. CASE Signup(r) \/ Create(r)
        BY <1>7, <1>8, <2>2 DEF Signup, Create, Opening
  <2>3. CASE Forgot(r)
        BY <1>7, <2>3 DEF Forgot, Opening
  <2> QED BY <1>9, <2>1, <2>2, <2>3
<1>10. CASE Reset(r)
  <2>1. PICK t \in resets : Begin(r, "reset", "token", [Idle EXCEPT !.who = t.user, !.id = t.id])
        BY <1>10 DEF Reset
  <2> DEFINE f == [Idle EXCEPT !.who = t.user, !.id = t.id]
  <2>2. t.user \in Names /\ t.id \in Made
        BY DEF Types, Tables
  <2>3. f \in Calls /\ f.user = NoUser /\ f.found = {} /\ f.key = None /\ f.id = t.id /\ f.who = t.user
        BY <2>2, IdleCall DEF Calls
  <2>4. Opening("reset") = "token" /\ "reset" \in OpNames /\ "reset" \notin WithSession \cup Racing
        BY DEF Opening, OpNames, WithSession, Racing
  <2>5. Begin(r, "reset", Opening("reset"), f)
        BY <2>1, <2>4
  <2> HIDE DEF f
  <2> QED BY <2>3, <2>4, <2>5, BeginTurn
<1> QED BY <1>1, <1>2, <1>3, <1>4, <1>5, <1>6, <1>9, <1>10 DEF Begins
(* Which step a request takes where it is, and what the others leave alone. *)
LEMMA StepAt ==
  ASSUME NEW r \in Reqs, Steps(r)
  PROVE  /\ At(r, "codefind") => CodeFind(r)
         /\ At(r, "codesave") => CodeSave(r)
         /\ At(r, "upgrade") => UpgradeSave(r)
         /\ At(r, "session") => CreateSession(r)
         /\ At(r, "jti") => SaveJti(r)
         /\ At(r, "saveuser") => Answered(r)
         /\ At(r, "rsession") => RefreshSession(r)
         /\ At(r, "rotate") => Rotate(r)
         /\ At(r, "badlegacy") => BadLegacy(r)
         /\ At(r, "revfind") => RevokeFind(r)
         /\ At(r, "revsave") => RevokeSave(r)
         /\ At(r, "replay") => Replay(r)
         /\ At(r, "logout") => LogoutSave(r)
         /\ At(r, "legacyout") => LegacyLogout(r)
         /\ At(r, "delcodes") => DeleteCodes(r)
         /\ At(r, "save") => Save(r)
         /\ At(r, "codes") => StoreCodes(r)
         /\ At(r, "mail") => Mail(r)
         /\ At(r, "token") => FindToken(r)
         /\ At(r, "useReset") => UseToken(r)
         /\ At(r, "check") => CheckNew(r)
         /\ At(r, "insert") => Insert(r)
         /\ At(r, "invite") => FindInvite(r)
         /\ At(r, "useInvite") => UseInvite(r)
         /\ At(r, "reauth") => Reauth(r)
         /\ At(r, "action") => Act(r)
         /\ At(r, "find") => \/ LoginFind(r) \/ RefreshUser(r) \/ LogoutFind(r) \/ Find(r)
         /\ req[r].pc \in Pcs \ {"idle", "over"}
<1> USE DEF Steps, SessionStep, At, CodeFind, CodeSave, UpgradeSave, CreateSession, SaveJti,
            Answered, RefreshSession, Rotate, BadLegacy, RevokeFind, RevokeSave, Replay,
            LogoutSave, LegacyLogout, DeleteCodes, Save, StoreCodes, Mail, FindToken, UseToken,
            CheckNew, Insert, FindInvite, UseInvite, Reauth, Act, LoginFind, RefreshUser,
            LogoutFind, Find, Pcs
<1> QED OBVIOUS

UserPcs == {"upgrade", "saveuser", "badlegacy", "replay", "legacyout", "save", "insert"}
SessionPcs == {"session", "jti", "rotate", "revsave", "logout"}
EndPcs == {"badlegacy", "replay", "revfind", "revsave", "logout", "codes", "useReset", "action"}

LEMMA Frame ==
  ASSUME NEW r \in Reqs, Steps(r)
  PROVE  /\ req[r].pc \notin UserPcs => users' = users
         /\ req[r].pc \notin SessionPcs => sessions' = sessions
         /\ req[r].pc \notin {"codesave", "delcodes", "codes"} => backup' = backup
         /\ req[r].pc \notin {"mail", "useReset"} => resets' = resets
         /\ req[r].pc # "useInvite" => invite' = invite
         /\ req[r].pc # "action" => key' = key
         /\ req[r].pc \notin {"saveuser", "rotate"} => issued' = issued
         /\ req[r].pc # "find" => challenges' = challenges
         /\ req[r].pc \notin EndPcs => dead' = dead
         /\ req[r].pc \notin {"codesave", "save", "insert"} => uses' = uses
         /\ cut' = cut
<1> USE DEF UserPcs, SessionPcs, EndPcs, tables, ghosts
<1>1. CASE SessionStep(r)
      BY <1>1 DEF SessionStep, At, CodeFind, CodeSave, UpgradeSave, CreateSession, SaveJti,
            Answered, RefreshSession, Rotate, BadLegacy, RevokeFind, RevokeSave, Replay,
            LogoutSave, LegacyLogout, LoginFind, RefreshUser, LogoutFind
<1>2. CASE ~SessionStep(r)
      BY <1>2 DEF Steps, At, DeleteCodes, Save, StoreCodes, Mail, FindToken, UseToken,
            CheckNew, Insert, FindInvite, UseInvite, Reauth, Act, Find
<1> QED BY <1>1, <1>2

(* A session belongs to whoever it was made for, and tokens name only those *)
(* that a finished request made.                                            *)
Started == \A r \in Reqs : At(r, "saveuser") => sessions[r].user = req[r].who
Base == Types /\ Apart /\ Named /\ Started

(* The session a request's token names is a finished request's, and the     *)
(* same user's.                                                             *)
LEMMA GivenNamed ==
  ASSUME Base, NEW r \in Reqs, req[r].op \in WithSession, req[r].given.sid # None
  PROVE  /\ sessions[req[r].given.sid].user = req[r].given.user
         /\ Done(req[r].given.sid) /\ req[r].given.sid \in Made
         /\ req[r].given \in issued /\ req[r].given.user = req[r].who
  BY Now DEF Base, Named, Sound, Types, Tables, IssuedGrants

(* Every step keeps the tables and the requests well formed.                *)
LEMMA StepTurn ==
  ASSUME Base, NEW r \in Reqs, Steps(r)
  PROVE  Turn(r)
<1>1. Types
      BY DEF Base
<1>2. CASE RefreshSession(r)
  <2>1. req[r].op \in WithSession
        BY <1>2 DEF RefreshSession, Refreshing, WithSession
  <2>2. req[r].op \in Racing
        BY <1>1, <1>2, Now, OpsAt DEF RefreshSession, At
  <2>3. req[r].given.sid # None
        BY <1>1, <2>2, Now DEF Sound, Racing, WithSession
  <2> QED BY <1>1, <1>2, <2>1, <2>3, GivenNamed, RefreshSessionTurn
<1>3. CASE LogoutFind(r)
  <2>1. req[r].op \in WithSession
        BY <1>3 DEF LogoutFind, WithSession
  <2> QED BY <1>1, <1>3, <2>1, GivenNamed, LogoutFindTurn
<1>4. CASE SessionStep(r) /\ ~RefreshSession(r) /\ ~LogoutFind(r)
      BY <1>1, <1>4, CodeFindTurn, CodeSaveTurn, UpgradeSaveTurn, LoginFindTurn,
         CreateSessionTurn, SaveJtiTurn, AnsweredTurn, RefreshUserTurn, RotateTurn,
         BadLegacyTurn, ReplayTurn, RevokeFindTurn, RevokeSaveTurn, LogoutSaveTurn,
         LegacyLogoutTurn DEF SessionStep
<1>5. CASE ~SessionStep(r)
      BY <1>1, <1>5, FindTurn, DeleteCodesTurn, SaveTurn, StoreCodesTurn, MailTurn,
         FindTokenTurn, UseTokenTurn, CheckNewTurn, InsertTurn, FindInviteTurn,
         UseInviteTurn, ReauthTurn, ActTurn DEF Steps
<1> QED BY <1>2, <1>3, <1>4, <1>5

(* A restart loses the requests under way and at most promotes one user.    *)
LEMMA RestartTyped ==
  ASSUME Types, Restart
  PROVE  /\ Types'
         /\ \A r \in Reqs : req'[r] = Over \/ (At(r, "idle") /\ req'[r] = Idle)
         /\ \A r \in Reqs : ~Busy(r)'
         /\ UNCHANGED <<sessions, backup, resets, invite, key, issued, challenges, dead, uses>>
         /\ \A n \in Names : \/ users'[n] = users[n]
                             \/ users[n] # NoUser /\ users'[n] = [users[n] EXCEPT !.admin = TRUE]
<1>1. /\ UNCHANGED <<sessions, backup, resets, invite, key, issued, challenges, dead, uses>>
      /\ req' = [r \in Reqs |-> IF At(r, "idle") THEN Idle ELSE Over]
      BY DEF Restart
<1>2. /\ users' \in [Names -> Rows]
      /\ \A n \in Names : \/ users'[n] = users[n]
                          \/ users[n] # NoUser /\ users'[n] = [users[n] EXCEPT !.admin = TRUE]
  <2>1. CASE users' = users
        BY <2>1 DEF Types, Tables
  <2>2. ASSUME NEW n \in Existing, users' = [users EXCEPT ![n].admin = TRUE]
        PROVE  <1>2!1 /\ <1>2!2
    <3>1. n \in Names /\ users[n] # NoUser /\ users \in [Names -> Rows]
          BY DEF Existing, Types, Tables
    <3>2. [users[n] EXCEPT !.admin = TRUE] \in Rows
          BY <3>1 DEF Rows
    <3> QED BY <2>2, <3>1, <3>2
  <2> QED BY <2>1, <2>2 DEF Restart
<1>3. \A r \in Reqs : /\ req'[r] = Over \/ (At(r, "idle") /\ req'[r] = Idle)
                      /\ req'[r] \in Calls /\ Sound(req'[r], issued')
  <2>1. Idle \in Calls /\ Sound(Idle, issued)
    <3>1. Idle.pc \in PcsOf(Idle.op)
          BY DEF Idle, PcsOf, Racing
    <3> QED BY <3>1, IdleCall DEF Sound, Idle, WithSession
  <2> QED BY <1>1, <2>1, OverSound
<1>4. \A r \in Reqs : ~Busy(r)'
      BY <1>3 DEF Busy, Over, Idle
<1>5. Tables'
  <2>1. cut' \in [OneTime -> Nat]
        BY DEF Restart, Types, Tables
  <2> QED BY <1>1, <1>2, <2>1 DEF Types, Tables
<1>6. req' \in [Reqs -> Calls]
      BY <1>1, <1>3
<1> QED BY <1>1, <1>2, <1>3, <1>4, <1>5, <1>6 DEF Types
(* No step gives a session to another user.                                 *)
LEMMA SessionOwners ==
  ASSUME Base, NEW r \in Reqs, Steps(r), NEW s \in Made
  PROVE  \/ sessions'[s].user = sessions[s].user
         \/ /\ s = r /\ req[r].pc \in {"session", "jti"} /\ sessions'[s].user = req[r].who
<1>0. Types /\ sessions \in [Made -> SessionRows]
      BY DEF Base, Types, Tables
<1>1. CASE req[r].pc = "session"
  <2>1. CreateSession(r)
        BY <1>1, StepAt DEF At
  <2> QED BY <1>0, <1>1, <2>1 DEF CreateSession
<1>2. CASE req[r].pc = "jti"
  <2>1. SaveJti(r) /\ req[r].sess.user = req[r].who /\ req[r].sess \in SessionRows
        BY <1>0, <1>2, StepAt, Now DEF At, Sound
  <2> QED BY <1>0, <1>2, <2>1 DEF SaveJti, Saved, SessionRows
<1>3. CASE req[r].pc = "rotate"
  <2>1. Rotate(r)
        BY <1>3, StepAt DEF At
  <2>2. req[r].op \in WithSession /\ req[r].given.sid # None /\ req[r].sess.user = req[r].who
        /\ req[r].sess \in SessionRows
        BY <1>0, <1>3, Now, OpsAt DEF Sound, WithSession, Racing
  <2>3. sessions[req[r].given.sid].user = req[r].who
        BY <2>2, GivenNamed
  <2> QED BY <1>0, <2>1, <2>2, <2>3 DEF Rotate, Saved, SessionRows
<1>4. CASE req[r].pc = "logout"
  <2>1. LogoutSave(r)
        BY <1>4, StepAt DEF At
  <2>2. req[r].op \in WithSession /\ req[r].given.sid # None /\ req[r].sess.user = req[r].who
        /\ req[r].sess \in SessionRows
        BY <1>0, <1>4, Now, OpsAt DEF Sound, WithSession
  <2>3. sessions[req[r].given.sid].user = req[r].who
        BY <2>2, GivenNamed
  <2> QED BY <1>0, <2>1, <2>2, <2>3 DEF LogoutSave, Revoked, SessionRows
<1>5. CASE req[r].pc = "revsave"
  <2>1. RevokeSave(r)
        BY <1>5, StepAt DEF At
  <2> QED BY <1>0, <2>1 DEF RevokeSave, Revoked, SessionRows
<1>6. CASE req[r].pc \notin SessionPcs
      BY <1>6, Frame
<1> QED BY <1>1, <1>2, <1>3, <1>4, <1>5, <1>6 DEF SessionPcs

(* Tokens are handed out at two awaits, with the version of the row the     *)
(* request holds.                                                           *)
LEMMA NewGrants ==
  ASSUME Base, NEW r \in Reqs, Steps(r), NEW g \in issued', g \notin issued
  PROVE  /\ req'[r] = Over /\ g \in IssuedGrants
         /\ \/ At(r, "saveuser") /\ g = Grant(r, req[r].user, r)
            \/ At(r, "rotate") /\ g = Grant(r, req[r].user, req[r].given.sid)
<1>0. Types
      BY DEF Base
<1>1. CASE At(r, "saveuser")
  <2>1. Answered(r)
        BY <1>1, StepAt
  <2> QED BY <1>0, <1>1, <2>1, AnsweredTurn
<1>2. CASE At(r, "rotate")
  <2>1. Rotate(r)
        BY <1>2, StepAt
  <2> QED BY <1>0, <1>2, <2>1, RotateTurn
<1>3. CASE req[r].pc \notin {"saveuser", "rotate"}
      BY <1>3, Frame
<1> QED BY <1>1, <1>2, <1>3 DEF At

(* No token handed out is forgotten, and no request that has ended is taken *)
(* up again.                                                                *)
LEMMA IssuedGrows == ASSUME NEW r \in Reqs, Steps(r) PROVE issued \subseteq issued'
<1>1. CASE At(r, "saveuser")
      BY <1>1, StepAt DEF Answered
<1>2. CASE At(r, "rotate")
      BY <1>2, StepAt DEF Rotate
<1> QED BY <1>1, <1>2, Frame DEF At

LEMMA DoneStays ==
  ASSUME NEW r \in Reqs, Steps(r), Others(r), NEW s, Done(s)
  PROVE  Done(s)' /\ s # r
<1>1. ~At(r, "over") /\ r # Start
      BY StepAt, RequestIds DEF At
<1> QED BY <1>1 DEF Done, Others, At

(* Where each await leads to.  A step moves a request on within its         *)
(* operation, or ends it; an administrator's then concerns the other user.  *)
Nexts(pc) ==
  CASE pc = "find" -> {"session", "codefind", "upgrade", "rsession", "badlegacy", "logout",
                       "legacyout", "revfind", "delcodes", "mail", "save"}
    [] pc = "codefind" -> {"codesave"}
    [] pc = "codesave" -> {"upgrade", "session", "action"}
    [] pc = "upgrade" -> {"session", "action"}
    [] pc = "session" -> {"jti"}
    [] pc = "jti" -> {"saveuser"}
    [] pc = "rsession" -> {"rotate", "revfind"}
    [] pc \in {"revfind", "revsave"} -> {"revsave", "replay", "useReset", "codes"}
    [] pc \in {"legacyout", "save"} -> {"revfind"}
    [] pc = "delcodes" -> {"codes", "save"}
    [] pc \in {"token", "action"} -> {"find"}
    [] pc = "check" -> {"insert"}
    [] pc = "insert" -> {"session", "invite"}
    [] pc = "invite" -> {"useInvite"}
    [] pc = "useInvite" -> {"session"}
    [] pc = "reauth" -> {"action", "upgrade", "codefind"}
    [] OTHER -> {}
Goes(c, d) ==
  \/ d = Over
  \/ /\ d.pc \in Nexts(c.pc)
     /\ d.op = c.op /\ d.old = c.old /\ d.given = c.given /\ d.id = c.id
     /\ d.code = c.code /\ d.replayed = c.replayed /\ d.key \in {c.key, key}
     /\ d.who = IF c.pc = "action" THEN Alice ELSE c.who

LEMMA StepGoes ==
  ASSUME Base, NEW r \in Reqs, Steps(r)
  PROVE  Goes(req[r], req'[r])
<1>0. Types /\ req[r] \in Calls
      BY Now DEF Base
<1>a. CASE req'[r] = Over
      BY <1>a DEF Goes
<1>b. ASSUME NEW p \in Nexts(req[r].pc), req[r].pc # "action",
             \/ Left(r, p)
             \/ \E u \in Rows : req'[r] = [req[r] EXCEPT !.user = u, !.pc = p]
      PROVE  Goes(req[r], req'[r])
  <2>1. CASE Left(r, p)
        BY <1>0, <1>b, <2>1 DEF Left, Goes, Calls
  <2>2. ASSUME NEW u \in Rows, req'[r] = [req[r] EXCEPT !.user = u, !.pc = p]
        PROVE  Goes(req[r], req'[r])
        BY <1>0, <1>b, <2>2 DEF Goes, Calls
  <2> QED BY <1>b, <2>1, <2>2
<1>c. ASSUME NEW p \in Nexts(req[r].pc), req[r].pc # "action", NEW s,
             \/ req'[r] = [req[r] EXCEPT !.sess = s, !.pc = p]
             \/ req'[r] = [req[r] EXCEPT !.sess = s, !.key = key, !.pc = p]
             \/ req'[r] = [req[r] EXCEPT !.found = s, !.pc = p]
      PROVE  Goes(req[r], req'[r])
      BY <1>0, <1>c DEF Goes, Calls
<1>1. CASE req[r].pc = "codefind"
  <2>1. CodeFind(r) /\ "codesave" \in Nexts(req[r].pc)
        BY <1>1, StepAt DEF At, Nexts
  <2> QED BY <1>0, <1>a, <1>b, <1>1, <2>1, CodeFindTurn
<1>2. CASE req[r].pc = "saveuser"
      BY <1>0, <1>a, <1>2, StepAt, AnsweredTurn DEF At
<1>3. CASE req[r].pc = "rotate"
      BY <1>0, <1>a, <1>3, StepAt, RotateTurn DEF At
<1>4. CASE req[r].pc = "badlegacy"
      BY <1>0, <1>a, <1>4, StepAt, BadLegacyTurn DEF At
<1>5. CASE req[r].pc = "revsave"
  <2>1. RevokeSave(r) /\ "replay" \in Nexts(req[r].pc) /\ "useReset" \in Nexts(req[r].pc) /\ "codes" \in Nexts(req[r].pc)
        BY <1>5, StepAt DEF At, Nexts
  <2> QED BY <1>0, <1>a, <1>b, <1>5, <2>1, RevokeSaveTurn DEF Onward
<1>6. CASE req[r].pc = "replay"
      BY <1>0, <1>a, <1>6, StepAt, ReplayTurn DEF At
<1>7. CASE req[r].pc = "logout"
      BY <1>0, <1>a, <1>7, StepAt, LogoutSaveTurn DEF At
<1>8. CASE req[r].pc = "codes"
      BY <1>0, <1>a, <1>8, StepAt, StoreCodesTurn DEF At
<1>9. CASE req[r].pc = "mail"
      BY <1>0, <1>a, <1>9, StepAt, MailTurn DEF At
<1>10. CASE req[r].pc = "token"
  <2>1. FindToken(r) /\ "find" \in Nexts(req[r].pc)
        BY <1>10, StepAt DEF At, Nexts
  <2> QED BY <1>0, <1>a, <1>b, <1>10, <2>1, FindTokenTurn
<1>11. CASE req[r].pc = "useReset"
      BY <1>0, <1>a, <1>11, StepAt, UseTokenTurn DEF At
<1>12. CASE req[r].pc = "check"
  <2>1. CheckNew(r) /\ "insert" \in Nexts(req[r].pc)
        BY <1>12, StepAt DEF At, Nexts
  <2> QED BY <1>0, <1>a, <1>b, <1>12, <2>1, CheckNewTurn
<1>13. CASE req[r].pc = "invite"
  <2>1. FindInvite(r) /\ "useInvite" \in Nexts(req[r].pc)
        BY <1>13, StepAt DEF At, Nexts
  <2> QED BY <1>0, <1>a, <1>b, <1>13, <2>1, FindInviteTurn
<1>14. CASE req[r].pc = "jti"
  <2>1. SaveJti(r) /\ "saveuser" \in Nexts(req[r].pc)
        BY <1>14, StepAt DEF At, Nexts
  <2> QED BY <1>0, <1>a, <1>b, <1>14, <2>1, SaveJtiTurn
<1>15. CASE req[r].pc = "legacyout"
  <2>1. LegacyLogout(r) /\ "revfind" \in Nexts(req[r].pc)
        BY <1>15, StepAt DEF At, Nexts
  <2> QED BY <1>0, <1>a, <1>b, <1>15, <2>1, LegacyLogoutTurn
<1>16. CASE req[r].pc = "useInvite"
  <2>1. UseInvite(r) /\ "session" \in Nexts(req[r].pc)
        BY <1>16, StepAt DEF At, Nexts
  <2> QED BY <1>0, <1>a, <1>b, <1>16, <2>1, UseInviteTurn
<1>17. CASE req[r].pc = "save"
  <2>1. Save(r) /\ "revfind" \in Nexts(req[r].pc)
        BY <1>17, StepAt DEF At, Nexts
  <2> QED BY <1>0, <1>a, <1>b, <1>17, <2>1, SaveTurn
<1>18. CASE req[r].pc = "codesave"
  <2>1. CodeSave(r) /\ {"upgrade", "session", "action"} \subseteq Nexts(req[r].pc)
        BY <1>18, StepAt DEF At, Nexts
  <2>2. Upgrade(req[r], req[r].user) \in {"upgrade", "session", "action"}
        BY DEF Upgrade, After
  <2>3. Left(r, Upgrade(req[r], req[r].user))
        BY <1>0, <2>1, CodeSaveTurn
  <2> QED BY <1>0, <1>b, <1>18, <2>1, <2>2, <2>3
<1>19. CASE req[r].pc = "upgrade"
  <2>1. UpgradeSave(r) /\ {"session", "action"} \subseteq Nexts(req[r].pc)
        BY <1>19, StepAt DEF At, Nexts
  <2>2. After(req[r]) \in {"session", "action"}
        BY DEF After
  <2> DEFINE row == [req[r].user EXCEPT !.enc = key]
  <2>3. row \in Rows /\ req'[r] = [req[r] EXCEPT !.user = row, !.pc = After(req[r])]
        BY <1>0, <2>1, UpgradeSaveTurn, Now DEF Types, Tables, Rows
  <2> HIDE DEF row
  <2> QED BY <1>b, <1>19, <2>1, <2>2, <2>3
<1>20. CASE req[r].pc = "session"
  <2>1. CreateSession(r) /\ "jti" \in Nexts(req[r].pc)
        BY <1>20, StepAt DEF At, Nexts
  <2> DEFINE new == [user |-> req[r].who, jti |-> None, revoked |-> FALSE]
  <2>2. req'[r] = [req[r] EXCEPT !.sess = new, !.key = key, !.pc = "jti"]
        BY <1>0, <2>1, CreateSessionTurn
  <2> HIDE DEF new
  <2> QED BY <1>c, <1>20, <2>1, <2>2
<1>21. CASE req[r].pc = "revfind"
  <2>1. /\ RevokeFind(r) /\ "revsave" \in Nexts(req[r].pc) /\ "replay" \in Nexts(req[r].pc)
        /\ "useReset" \in Nexts(req[r].pc) /\ "codes" \in Nexts(req[r].pc)
        BY <1>21, StepAt DEF At, Nexts
  <2> DEFINE theirs == {s \in Made : sessions[s].user = req[r].who}
  <2>2. Onward(r) \/ req'[r] = [req[r] EXCEPT !.found = theirs, !.pc = "revsave"]
        BY <1>0, <2>1, RevokeFindTurn
  <2> HIDE DEF theirs
  <2> QED BY <1>a, <1>b, <1>c, <1>21, <2>1, <2>2 DEF Onward
<1>22. CASE req[r].pc = "delcodes"
  <2>1. DeleteCodes(r) /\ "codes" \in Nexts(req[r].pc) /\ "save" \in Nexts(req[r].pc)
        BY <1>22, StepAt DEF At, Nexts
  <2>2. Left(r, "codes") \/ Left(r, "save")
        BY <1>0, <2>1, DeleteCodesTurn
  <2> QED BY <1>b, <1>22, <2>1, <2>2
<1>23. CASE req[r].pc = "insert"
  <2>1. Insert(r) /\ {"session", "invite"} \subseteq Nexts(req[r].pc)
        BY <1>23, StepAt DEF At, Nexts
  <2> DEFINE row == NewUser(r, req[r].op = "setup")
             p == IF req[r].op = "signup" THEN "invite" ELSE "session"
  <2>2. /\ row \in Rows /\ p \in {"invite", "session"}
        /\ req'[r] = Over \/ req'[r] = [req[r] EXCEPT !.user = row, !.pc = p]
        BY <1>0, <2>1, NewUserTyped DEF Insert, Finish, Types
  <2> HIDE DEF row, p
  <2> QED BY <1>a, <1>b, <1>23, <2>1, <2>2
<1>24. CASE req[r].pc = "reauth"
  <2>1. Reauth(r) /\ {"action", "upgrade", "codefind"} \subseteq Nexts(req[r].pc)
        BY <1>24, StepAt DEF At, Nexts
  <2>2. \/ req'[r] = Over \/ Left(r, "action")
        \/ \E p \in {"action", "upgrade", "codefind"} :
                 req'[r] = [req[r] EXCEPT !.user = users[req[r].who], !.pc = p]
        BY <1>0, <2>1, ReauthTurn
  <2>3. users[req[r].who] \in Rows
        BY <1>0, Now
  <2> QED BY <1>a, <1>b, <1>24, <2>1, <2>2, <2>3
<1>25. CASE req[r].pc = "action"
  <2>1. Act(r) /\ "find" \in Nexts(req[r].pc)
        BY <1>25, StepAt DEF At, Nexts
  <2>2. req'[r] = Over \/ req'[r] = [req[r] EXCEPT !.who = Alice, !.pc = "find"]
        BY <1>0, <2>1, ActTurn
  <2>3. CASE req'[r] = [req[r] EXCEPT !.who = Alice, !.pc = "find"]
        BY <1>0, <1>25, <2>1, <2>3 DEF Goes, Calls
  <2> QED BY <1>a, <2>2, <2>3
<1>26. CASE req[r].pc = "rsession"
  <2>1. RefreshSession(r) /\ "rotate" \in Nexts(req[r].pc) /\ "revfind" \in Nexts(req[r].pc)
        BY <1>26, StepAt DEF At, Nexts
  <2>2. req[r].op \in WithSession /\ req[r].given.sid # None
        BY <1>0, <1>26, OpsAt, Now DEF WithSession, Racing, Sound
  <2> DEFINE s == sessions[req[r].given.sid]
  <2>3. \/ req'[r] = Over
        \/ \E p \in {"rotate", "revfind"} :
              req'[r] = [req[r] EXCEPT !.sess = s, !.key = key, !.pc = p]
        BY <1>0, <2>1, <2>2, GivenNamed, RefreshSessionTurn
  <2> HIDE DEF s
  <2> QED BY <1>a, <1>c, <1>26, <2>1, <2>3
<1>27. CASE req[r].pc = "find"
  <2>0. {"session", "codefind", "upgrade", "rsession", "badlegacy", "logout",
         "legacyout", "revfind", "delcodes", "mail", "save"} \subseteq Nexts(req[r].pc)
        BY <1>27 DEF Nexts
  <2>u. users[req[r].who] \in Rows
        BY <1>0, Now
  <2>1. CASE LoginFind(r)
    <3>1. \/ req'[r] = Over
          \/ \E p \in {"session", "upgrade", "codefind"} :
               req'[r] = [req[r] EXCEPT !.user = users[req[r].who], !.pc = p]
          BY <1>0, <2>1, LoginFindTurn
    <3> QED BY <1>a, <1>b, <1>27, <2>0, <2>u, <3>1
  <2>2. CASE RefreshUser(r)
    <3>1. \/ req'[r] = Over
          \/ \E p \in {"rsession", "session", "badlegacy"} :
               req'[r] = [req[r] EXCEPT !.user = users[req[r].who], !.pc = p]
          BY <1>0, <2>2, RefreshUserTurn
    <3> QED BY <1>a, <1>b, <1>27, <2>0, <2>u, <3>1
  <2>3. CASE LogoutFind(r)
    <3>1. req[r].op \in WithSession
          BY <2>3 DEF LogoutFind, WithSession
    <3> DEFINE s == sessions[req[r].given.sid]
    <3>2. \/ req'[r] = Over
          \/ req'[r] = [req[r] EXCEPT !.sess = s, !.pc = "logout"]
          \/ \E p \in {"legacyout", "revfind"} :
                 req'[r] = [req[r] EXCEPT !.user = users[req[r].who], !.pc = p]
          BY <1>0, <2>3, <3>1, GivenNamed, LogoutFindTurn
    <3> HIDE DEF s
    <3> QED BY <1>a, <1>b, <1>c, <1>27, <2>0, <2>u, <3>2
  <2>4. CASE Find(r)
    <3> DEFINE u == Changed(r, req[r], users[req[r].who])
    <3>1. Then(req[r]) \in {"delcodes", "mail", "save"} /\ u \in Rows
          BY <1>0, <2>u, ChangedTyped DEF Then
    <3>2. \/ req'[r] = Over
          \/ req'[r] = [req[r] EXCEPT !.user = u, !.pc = Then(req[r])]
          BY <1>0, <2>4, FindTurn
    <3> HIDE DEF u
    <3> QED BY <1>a, <1>b, <1>27, <2>0, <3>1, <3>2
  <2> QED BY <1>27, <2>1, <2>2, <2>3, <2>4, StepAt DEF At
<1> QED BY StepAt, <1>1, <1>2, <1>3, <1>4, <1>5, <1>6, <1>7, <1>8, <1>9, <1>10, <1>11, <1>12, <1>13, <1>14, <1>15, <1>16, <1>17, <1>18, <1>19, <1>20, <1>21, <1>22, <1>23, <1>24, <1>25, <1>26, <1>27 DEF Pcs

(* Requests overlap as the operations allow.                                *)
LEMMA StaysApart ==
  ASSUME Base, NEW r \in Reqs, Steps(r)
  PROVE  req'[r] = Over \/ req'[r].op = req[r].op
  BY StepGoes DEF Goes

(* Steps, beginnings, restarts and stuttering keep Base, and it holds at    *)
(* the start.                                                               *)
LEMMA BaseStep ==
  ASSUME Base, NEW r \in Reqs, Steps(r)
  PROVE  Base'
<1>0. Types /\ Turn(r) /\ Types' /\ Others(r)
      BY StepTurn DEF Base, Turn
<1>1. Apart'
  <2> SUFFICES ASSUME NEW p \in Reqs, NEW q \in Reqs, p # q, Busy(p)', Busy(q)'
               PROVE  {req'[p].op, req'[q].op} \in Overlaps
      BY DEF Apart
  <2>1. \A x \in {p, q} : req'[x].op = req[x].op /\ Busy(x)
        BY <1>0, StaysApart, StepAt DEF Others, Busy, Over, Idle
  <2> QED BY <2>1 DEF Base, Apart
<1>2. Named'
  <2> SUFFICES ASSUME NEW g \in issued', g.sid # None
               PROVE  Done(g.sid)' /\ sessions'[g.sid].user = g.user
      BY DEF Named
  <2> DEFINE EndedForGood(s) == s = Start \/ (s \in Reqs /\ req'[s].pc = "over")
  <2>0. \A s : Done(s)' <=> EndedForGood(s)
        BY DEF Done, At
  <2>1. ASSUME NEW h \in issued, h.sid # None
        PROVE  EndedForGood(h.sid) /\ sessions'[h.sid].user = h.user
    <3>1. Done(h.sid) /\ sessions[h.sid].user = h.user /\ h.sid \in Made
          BY <2>1 DEF Base, Named, Types, Tables, IssuedGrants
    <3>2. EndedForGood(h.sid) /\ h.sid # r
          BY <1>0, <2>0, <3>1, DoneStays
    <3> QED BY <3>1, <3>2, SessionOwners
  <2>2. CASE At(r, "saveuser") /\ g = Grant(r, req[r].user, r) /\ req'[r] = Over
    <3>1. sessions'[r].user = req[r].who
          BY <2>2, Frame DEF Base, Started, SessionPcs, At
    <3>2. g.sid = r /\ g.user = req[r].who /\ req'[r].pc = "over"
          BY <2>2 DEF Grant, Over, Idle
    <3> QED BY <2>0, <3>1, <3>2
  <2>3. CASE At(r, "rotate") /\ g = Grant(r, req[r].user, req[r].given.sid)
    <3>1. req[r].op \in WithSession /\ req[r].given.sid # None
          BY <1>0, <2>3, Now, OpsAt DEF Sound, WithSession, Racing, At
    <3>2. req[r].given \in issued /\ req[r].given.user = req[r].who
          BY <3>1, GivenNamed
    <3>3. g.sid = req[r].given.sid /\ g.user = req[r].given.user
          BY <2>3, <3>2 DEF Grant
    <3>4. EndedForGood(g.sid) /\ sessions'[g.sid].user = g.user
          BY <2>1, <3>1, <3>2, <3>3
    <3> QED BY <2>0, <3>4
  <2> QED BY <2>0, <2>1, <2>2, <2>3, NewGrants
<1>3. Started'
  <2> SUFFICES ASSUME NEW q \in Reqs, At(q, "saveuser")'
               PROVE  sessions'[q].user = req'[q].who
      BY DEF Started
  <2>1. CASE q # r
    <3>1. req'[q] = req[q] /\ q \in Made
          BY <1>0, <2>1, RequestIds DEF Others
    <3>2. sessions[q].user = req[q].who
          BY <2>1, <3>1 DEF Base, Started, At
    <3> QED BY <2>1, <3>1, <3>2, SessionOwners
  <2>2. CASE q = r
    <3>1. At(r, "jti")
      <4>1. Goes(req[r], req'[r]) /\ req'[r] # Over /\ req'[r].pc = "saveuser"
            BY <2>2, StepGoes DEF At, Over, Idle
      <4> QED BY <4>1 DEF At, Goes, Nexts
    <3>2. SaveJti(r) /\ req[r].sess.user = req[r].who /\ Left(r, "saveuser")
          BY <1>0, <3>1, StepAt, SaveJtiTurn, Now DEF At, Sound
    <3>3. sessions'[r].user = req[r].who
          BY <1>0, <3>2, Now, RequestIds DEF SaveJti, Saved, SessionRows, Types, Tables
    <3> QED BY <1>0, <2>2, <3>2, <3>3, Now DEF Left, Calls
  <2> QED BY <2>1, <2>2
<1> QED BY <1>0, <1>1, <1>2, <1>3 DEF Base
LEMMA MayAlone ==
  ASSUME NEW r \in Reqs, NEW op, May(r, op), NEW q \in Reqs, q # r, Busy(q)
  PROVE  {op, req[q].op} \in Overlaps
  BY DEF May, Busy, At

LEMMA BaseBegin ==
  ASSUME Base, NEW r \in Reqs, At(r, "idle"), Begins(r)
  PROVE  Base'
<1>0. Types /\ Turn(r) /\ Types' /\ Others(r) /\ Opened(r, req'[r])
      BY BeginsTurn DEF Base, Turn
<1>t. sessions' = sessions /\ issued' = issued
      BY <1>0 DEF Opened, tables
<1>1. Apart'
  <2> SUFFICES ASSUME NEW p \in Reqs, NEW q \in Reqs, p # q, Busy(p)', Busy(q)'
               PROVE  {req'[p].op, req'[q].op} \in Overlaps
      BY DEF Apart
  <2>1. CASE p # r /\ q # r
        BY <1>0, <2>1 DEF Others, Busy, Base, Apart
  <2>2. CASE p = r
    <3>1. May(r, req'[r].op) /\ Busy(q) /\ req'[q] = req[q]
          BY <1>0, <2>2 DEF Opened, Others, Busy
    <3> QED BY <2>2, <3>1, MayAlone
  <2>3. CASE q = r
    <3>1. May(r, req'[r].op) /\ Busy(p) /\ req'[p] = req[p]
          BY <1>0, <2>3 DEF Opened, Others, Busy
    <3>2. {req'[r].op, req[p].op} = {req[p].op, req'[r].op}
          OBVIOUS
    <3> QED BY <2>3, <3>1, <3>2, MayAlone
  <2> QED BY <2>1, <2>2, <2>3
<1>2. Named'
  <2>1. \A s : Done(s) => Done(s)'
        BY <1>0 DEF Done, At, Others
  <2> QED BY <1>t, <2>1 DEF Base, Named, Done, At
<1>3. Started'
  <2>1. req'[r].pc # "saveuser"
    <3>1. req'[r] \in Calls /\ req'[r].pc = Opening(req'[r].op) /\ req'[r].op # "none"
          BY <1>0 DEF Opened, Types
    <3>2. req'[r].op \in OpNames
          BY <3>1 DEF Calls
    <3> QED BY <3>1, <3>2, OpeningPc
  <2> QED BY <1>0, <1>t, <2>1 DEF Base, Started, At, Others
<1> QED BY <1>0, <1>1, <1>2, <1>3 DEF Base

LEMMA BaseRestart ==
  ASSUME Base, Restart
  PROVE  Base'
<1>1. /\ Types' /\ sessions' = sessions /\ issued' = issued
      /\ \A r \in Reqs : req'[r] = Over \/ (At(r, "idle") /\ req'[r] = Idle)
      /\ \A r \in Reqs : ~Busy(r)'
      BY RestartTyped DEF Base
<1>2. Apart'
      BY <1>1 DEF Apart
<1>3. Named'
  <2>1. \A s : Done(s) => (s = Start \/ (s \in Reqs /\ req'[s].pc = "over"))
        BY <1>1 DEF Done, At, Over, Idle
  <2> QED BY <1>1, <2>1 DEF Base, Named, Done, At
<1>4. Started'
      BY <1>1 DEF Started, At, Over, Idle
<1> QED BY <1>1, <1>2, <1>3, <1>4 DEF Base

LEMMA BaseSame ==
  ASSUME Base, UNCHANGED vars
  PROVE  Base'
<1>1. Types' /\ Apart' /\ Named' /\ Started'
      BY DEF Base, Types, Tables, Apart, Named, Started, Busy, Done, At, vars
<1> QED BY <1>1 DEF Base

LEMMA InitIdle ==
  ASSUME Init, NEW r \in Reqs
  PROVE  req[r] = Idle /\ ~Busy(r) /\ Idle.op = "none" /\ Idle.pc = "idle"
  BY DEF Init, Idle, Busy

LEMMA InitTables ==
  ASSUME Init
  PROVE  Tables
<1>0. /\ invite = None /\ key = 0 /\ challenges = {} /\ dead = {}
      /\ uses = [o \in OneTime |-> 0] /\ cut = [o \in OneTime |-> 0]
      BY DEF Init
<1>1. /\ invite \in Ids /\ key \in Nat /\ challenges = {} /\ dead = {}
      /\ uses \in [OneTime -> Nat] /\ cut \in [OneTime -> Nat]
      BY <1>0 DEF Ids
<1>2. NoUser \in Rows /\ NoSession \in SessionRows
      BY DEF NoUser, NoSession, Rows, SessionRows, Ids
<1>n. Root \in Names /\ Alice \in Names /\ Start \in Made /\ Old \in Ids /\ None \in Ids
      /\ Start \in Ids
      BY DEF Names, Made, Ids
<1>3. ASSUME NEW enc \in Stored, NEW owner \in {Root, Alice}, Populated(enc, owner)
      PROVE  Tables
  <2>1. \A admin \in BOOLEAN : Account(admin, enc) \in Rows
    <3>1. enc \in Nat \cup {None, Plain}
          BY StoredAssumption DEF Start
    <3> QED BY <1>n, <3>1 DEF Account, NoUser, Rows
  <2>2. users \in [Names -> Rows]
        BY <1>3, <1>2, <2>1 DEF Populated
  <2>3. sessions \in [Made -> SessionRows]
    <3>1. [user |-> owner, jti |-> Start, revoked |-> FALSE] \in SessionRows
          BY <1>n DEF SessionRows
    <3> QED BY <1>3, <1>2, <3>1 DEF Populated
  <2>4. backup \subseteq [user : Names, by : Made, used : BOOLEAN]
    <3>1. backup \subseteq {[user |-> Alice, by |-> Start, used |-> FALSE]}
          BY <1>3 DEF Populated
    <3>2. [user |-> Alice, by |-> Start, used |-> FALSE] \in [user : Names, by : Made, used : BOOLEAN]
          BY <1>n
    <3> QED BY <3>1, <3>2
  <2>5. resets \subseteq [id : Made, user : Names, used : BOOLEAN]
        BY <1>3, <1>n DEF Populated
  <2>6. issued \subseteq IssuedGrants
    <3>1. \A u \in {Root, Alice}, s \in {Start, None}, j \in {Start, Old}, v \in {0, None} :
             Grant0(u, s, j, v) \in IssuedGrants
          BY <1>n DEF Grant0, IssuedGrants
    <3>2. issued = {Grant0(owner, Start, Start, 0), Grant0(owner, Start, Old, 0),
               Grant0(Alice, None, Start, None), Grant0(Root, None, Old, 0)}
          BY <1>3 DEF Populated
    <3> QED BY <3>1, <3>2
  <2> QED BY <1>1, <2>2, <2>3, <2>4, <2>5, <2>6 DEF Tables
<1>4. ASSUME Empty PROVE Tables
      BY <1>1, <1>2, <1>4 DEF Empty, Tables
<1> QED BY <1>3, <1>4 DEF Init

LEMMA InitBase ==
  ASSUME Init
  PROVE  Base
<1>1. Tables
      BY InitTables
<1>2. req \in [Reqs -> Calls]
      BY IdleCall DEF Init
<1>3. \A r \in Reqs : Sound(req[r], issued)
  <2>1. Idle.pc \in PcsOf(Idle.op)
        BY DEF Idle, PcsOf, Racing
  <2>2. \A I : Sound(Idle, I)
        BY <2>1 DEF Sound, Idle, WithSession
  <2> QED BY <2>2, InitIdle
<1>4. Apart
      BY InitIdle DEF Apart
<1>5. Started
      BY InitIdle DEF Started, At
<1>6. Named
  <2>1. ASSUME NEW enc \in Stored, NEW owner \in {Root, Alice}, Populated(enc, owner)
        PROVE  Named
    <3>1. sessions[Start].user = owner
          BY <2>1 DEF Populated, Made
    <3> QED BY <2>1, <3>1 DEF Populated, Named, Grant0, Done, Start, None
  <2>2. CASE Empty
        BY <2>2 DEF Empty, Named
  <2> QED BY <2>1, <2>2 DEF Init
<1> QED BY <1>1, <1>2, <1>3, <1>4, <1>5, <1>6 DEF Base, Types

(* What holds of the requests, the sessions and the tokens whatever overlaps. *)
LEMMA BaseAlways == Spec => []Base
<1>1. ASSUME Base, [Next]_vars
      PROVE  Base'
      BY <1>1, BaseBegin, BaseStep, BaseRestart, BaseSame DEF Next
<1> QED BY <1>1, InitBase, PTL DEF Spec

(* Types is stronger than the type invariant of Accounts.                   *)
LEMMA TypesOK == ASSUME Types PROVE TypeOK
<1>1. \A r \in Reqs : req[r].user \in Rows /\ req[r].found \in SUBSET Made
      BY DEF Types, Calls
<1>2. \A g \in IssuedGrants : g \in Grants
      BY DEF IssuedGrants, Grants, Ids
<1> QED BY <1>1, <1>2 DEF Types, Tables, TypeOK

(* Every table and every request under way holds values its columns and     *)
(* variables may hold, for any number of requests, whatever overlaps and    *)
(* however the first accounts' secrets are stored (the entities in          *)
(* src/src/entities, auth.service.ts).                                      *)
THEOREM TypesAlways == Spec => []TypeOK
<1>1. Base => TypeOK
      BY TypesOK DEF Base
<1> QED BY <1>1, BaseAlways, PTL
-----------------------------------------------------------------------------
(* What a step does to a session that some token names.                     *)
LEMMA SessionChange ==
  ASSUME Base, NEW r \in Reqs, Steps(r), NEW s \in Made, Done(s)
  PROVE  \/ sessions'[s] = sessions[s]
         \/ sessions'[s].revoked
         \/ At(r, "rotate") /\ s = req[r].given.sid
<1>0. Types /\ sessions \in [Made -> SessionRows] /\ s # r
      BY StepTurn, DoneStays DEF Base, Types, Tables, Turn
<1>1. CASE At(r, "session")
  <2>1. CreateSession(r)
        BY <1>1, StepAt
  <2> QED BY <1>0, <2>1 DEF CreateSession
<1>2. CASE At(r, "jti")
  <2>1. SaveJti(r)
        BY <1>2, StepAt
  <2> QED BY <1>0, <2>1 DEF SaveJti
<1>3. CASE At(r, "rotate")
  <2>1. Rotate(r)
        BY <1>3, StepAt
  <2> QED BY <1>0, <1>3, <2>1 DEF Rotate
<1>4. CASE At(r, "revsave")
  <2>1. RevokeSave(r)
        BY <1>4, StepAt
  <2> QED BY <1>0, <2>1 DEF RevokeSave, Revoked, SessionRows
<1>5. CASE At(r, "logout")
  <2>1. LogoutSave(r) /\ req[r].sess \in SessionRows
        BY <1>0, <1>5, StepAt, Now
  <2> QED BY <1>0, <2>1 DEF LogoutSave, Revoked, SessionRows
<1> QED BY <1>1, <1>2, <1>3, <1>4, <1>5, Frame DEF SessionPcs, At

(* A refresh reads the user, then the session; it exchanges the token or    *)
(* ends the sessions of the user.                                           *)
Theirs(r) == {s \in Made : sessions[s].user = req[r].who}
LEMMA RacingStep ==
  ASSUME Base, NEW r \in Reqs, Steps(r), req[r].op \in Racing, req'[r] # Over
  PROVE  LET c == req[r] d == req'[r] s == sessions[c.given.sid] IN
         /\ d.op = c.op /\ d.given = c.given /\ d.who = c.who /\ d.replayed = c.replayed
         /\ d.old = c.old
         /\ \/ /\ c.pc = "find" /\ d.pc = "rsession" /\ d.user = users[c.who]
               /\ d.key = c.key
            \/ /\ c.pc = "rsession" /\ d.pc \in {"rotate", "revfind"} /\ d.user = c.user
               /\ d.sess = s /\ d.key = key /\ ~s.revoked
               /\ d.pc = "rotate" <=> s.jti = c.given.jti
            \/ /\ c.pc = "revfind" /\ d.pc = "revsave" /\ d.user = c.user
               /\ d.found = Theirs(r) /\ d.key = c.key
            \/ /\ c.pc = "revfind" /\ Theirs(r) = {} /\ d.pc = "replay" /\ d.user = c.user
               /\ d.key = c.key
            \/ /\ c.pc = "revsave" /\ d.pc = "replay" /\ d.user = c.user /\ d.key = c.key
<1>0. Types /\ Goes(req[r], req'[r]) /\ req[r] \in Calls /\ req[r].pc \in PcsOf(req[r].op)
      BY StepGoes, Now DEF Base
<1>1. req[r].pc \in {"find", "rsession", "rotate", "revfind", "revsave", "replay"}
      BY <1>0 DEF PcsOf, Racing
<1>2. LET c == req[r] d == req'[r] IN
        /\ d.op = c.op /\ d.given = c.given /\ d.who = c.who /\ d.replayed = c.replayed
        /\ d.old = c.old
      BY <1>0, <1>1 DEF Goes
<1>3. CASE req[r].pc = "find"
  <2>1. RefreshUser(r)
        BY <1>3, StepAt DEF At, LoginFind, LogoutFind, Find, Racing, ProfileOps
  <2>2. PICK p \in {"rsession", "session", "badlegacy"} :
          /\ req'[r] = [req[r] EXCEPT !.user = users[req[r].who], !.pc = p]
          /\ p = "rsession"
        BY <1>0, <2>1, RefreshUserTurn
  <2>3. req'[r].pc = "rsession" /\ req'[r].user = users[req[r].who] /\ req'[r].key = req[r].key
        BY <1>0, <2>2 DEF Calls
  <2> QED BY <1>2, <1>3, <2>3
<1>4. CASE req[r].pc = "rsession"
  <2>1. RefreshSession(r) /\ req[r].op \in WithSession /\ req[r].given.sid # None
        BY <1>0, <1>4, StepAt, Now DEF At, WithSession, Racing, Sound
  <2> DEFINE s == sessions[req[r].given.sid]
  <2>2. PICK p \in {"rotate", "revfind"} :
          /\ req'[r] = [req[r] EXCEPT !.sess = s, !.key = key, !.pc = p]
          /\ ~s.revoked
          /\ p = "rotate" <=> s.jti = req[r].given.jti
        BY <1>0, <2>1, GivenNamed, RefreshSessionTurn
  <2>3. /\ req'[r].pc = p /\ req'[r].user = req[r].user /\ req'[r].sess = s
        /\ req'[r].key = key
        BY <1>0, <2>2 DEF Calls
  <2> QED BY <1>2, <1>4, <2>2, <2>3
<1>5. ASSUME Left(r, "replay")
      PROVE  req'[r].pc = "replay" /\ req'[r].user = req[r].user /\ req'[r].key = req[r].key
      BY <1>0, <1>5 DEF Left, Calls
<1>6. CASE req[r].pc = "revfind"
  <2>1. \/ Theirs(r) = {} /\ Onward(r)
        \/ req'[r] = [req[r] EXCEPT !.found = Theirs(r), !.pc = "revsave"]
        BY <1>0, <1>6, StepAt, RevokeFindTurn DEF At, Theirs
  <2>2. CASE Theirs(r) = {} /\ Onward(r)
        BY <1>2, <1>5, <1>6, <2>2 DEF Onward, Racing
  <2>3. CASE req'[r] = [req[r] EXCEPT !.found = Theirs(r), !.pc = "revsave"]
    <3>1. /\ req'[r].pc = "revsave" /\ req'[r].user = req[r].user /\ req'[r].found = Theirs(r)
          /\ req'[r].key = req[r].key
          BY <1>0, <2>3 DEF Calls
    <3> QED BY <1>2, <1>6, <3>1
  <2> QED BY <2>1, <2>2, <2>3
<1>7. CASE req[r].pc = "revsave"
  <2>1. Onward(r)
        BY <1>0, <1>7, StepAt, RevokeSaveTurn DEF At
  <2> QED BY <1>2, <1>5, <1>7, <2>1 DEF Onward, Racing
<1>8. CASE req[r].pc = "rotate"
      BY <1>0, <1>8, StepAt, RotateTurn DEF At
<1>9. CASE req[r].pc = "replay"
      BY <1>0, <1>9, StepAt, ReplayTurn DEF At
<1> QED BY <1>1, <1>3, <1>4, <1>6, <1>7, <1>8, <1>9

(* A request that came in with the present token of its session meets that  *)
(* token again, or a session that has been revoked.                         *)
RacingApart == \A a, b \in Racing : {a, b} \notin Overlaps
Asked(c) == c.op \in Racing /\ c.pc \in {"find", "rsession"} /\ ~c.replayed
Called(c) == c.op \in Racing /\ c.pc \in {"revfind", "revsave", "replay"}
Fair(r) ==
  /\ Asked(req[r]) => \/ sessions[req[r].given.sid].revoked
                      \/ sessions[req[r].given.sid].jti = req[r].given.jti
  /\ Called(req[r]) => req[r].replayed
ReplayInv == Base /\ \A r \in Reqs : Fair(r)

(* Steps and beginnings keep it.                                            *)
LEMMA FairStep ==
  ASSUME RacingApart, ReplayInv, NEW r \in Reqs, Steps(r), NEW q \in Reqs
  PROVE  Fair(q)'
<1>0. Base /\ Types /\ Turn(r) /\ Types' /\ Others(r) /\ Goes(req[r], req'[r]) /\ Fair(q)
      BY StepTurn, StepGoes DEF ReplayInv, Base, Turn
<1>1. CASE q # r
  <2>1. req'[q] = req[q]
        BY <1>0, <1>1 DEF Others
  <2>2. ASSUME Asked(req[q])
        PROVE  \/ sessions'[req[q].given.sid].revoked
               \/ sessions'[req[q].given.sid].jti = req[q].given.jti
    <3>1. req[q].op \in WithSession /\ req[q].given.sid # None /\ Busy(q)
          BY <1>0, <2>2, Now DEF Asked, Sound, WithSession, Racing, Busy
    <3>2. req[q].given.sid \in Made /\ Done(req[q].given.sid)
          BY <1>0, <3>1, GivenNamed
    <3>3. ~At(r, "rotate")
      <4>1. ASSUME At(r, "rotate") PROVE FALSE
        <5>1. req[r].op \in Racing /\ Busy(r)
              BY <1>0, <4>1, Now, OpsAt DEF At, Busy
        <5>2. {req[q].op, req[r].op} \in Overlaps
              BY <1>0, <1>1, <3>1, <5>1 DEF Base, Apart
        <5> QED BY <2>2, <5>1, <5>2 DEF RacingApart, Asked
      <4> QED BY <4>1
    <3> QED BY <1>0, <2>2, <3>2, <3>3, SessionChange DEF Fair
  <2> QED BY <1>0, <2>1, <2>2 DEF Fair
<1>2. CASE q = r
  <2>1. CASE req'[r] = Over
        BY <1>2, <2>1 DEF Fair, Asked, Called, Over, Idle, Racing
  <2>2. CASE req'[r] # Over
    <3>1. CASE req[r].op \in Racing
      <4>1. Asked(req'[r]) => Asked(req[r]) /\ sessions' = sessions
        <5>1. Asked(req'[r]) => req[r].pc = "find" /\ ~req[r].replayed
              BY <1>0, <2>2, <3>1, RacingStep DEF Asked, ReplayInv
        <5>2. req[r].pc = "find" => sessions' = sessions
              BY Frame DEF SessionPcs
        <5> QED BY <3>1, <5>1, <5>2 DEF Asked
      <4>2. Called(req'[r]) => Called(req[r]) \/ req[r].replayed
            BY <1>0, <1>2, <2>2, <3>1, RacingStep DEF Called, Asked, Fair
      <4> QED BY <1>0, <1>2, <2>2, <3>1, <4>1, <4>2, RacingStep DEF Fair
    <3>2. CASE req[r].op \notin Racing
          BY <1>0, <1>2, <2>2, <3>2 DEF Goes, Fair, Asked, Called
    <3> QED BY <3>1, <3>2
  <2> QED BY <2>1, <2>2
<1> QED BY <1>1, <1>2

LEMMA FairBegin ==
  ASSUME ReplayInv, NEW r \in Reqs, At(r, "idle"), Begins(r), NEW q \in Reqs
  PROVE  Fair(q)'
<1>0. Types /\ Turn(r) /\ Types' /\ Others(r) /\ Opened(r, req'[r]) /\ Fair(q)
      BY BeginsTurn DEF ReplayInv, Base, Turn
<1>1. sessions' = sessions
      BY <1>0 DEF Opened, tables
<1>2. CASE q # r
      BY <1>0, <1>1, <1>2 DEF Others, Fair
<1>3. CASE q = r
  <2>1. ~Called(req'[r])
        BY <1>0 DEF Opened, Opening, Called, Racing, Admins
  <2>2. Asked(req'[r]) => sessions[req'[r].given.sid].jti = req'[r].given.jti
        BY <1>0 DEF Opened, Asked, Current
  <2> QED BY <1>1, <1>3, <2>1, <2>2 DEF Fair
<1> QED BY <1>2, <1>3

(* No refresh ends a user's sessions as a replay unless its token had been  *)
(* exchanged before it came in, however it meets other operations, as long  *)
(* as two refreshes do not overlap (refresh in auth.service.ts).            *)
THEOREM ReplaysAreReal ==
  ASSUME RacingApart
  PROVE  Spec => []NoFalseReplay
<1>1. Init => ReplayInv
      BY InitBase, InitIdle DEF ReplayInv, Fair, Asked, Called, Racing
<1>2. ASSUME ReplayInv, [Next]_vars
      PROVE  ReplayInv'
  <2>1. Base'
        BY <1>2, BaseBegin, BaseStep, BaseRestart, BaseSame DEF Next, ReplayInv
  <2>2. ASSUME NEW q \in Reqs PROVE Fair(q)'
    <3>1. CASE Restart
      <4>1. req'[q].op = "none"
            BY <1>2, <3>1, RestartTyped DEF ReplayInv, Base, Over, Idle
      <4> QED BY <4>1 DEF Fair, Asked, Called, Racing
    <3>2. CASE UNCHANGED vars
          BY <1>2, <3>2 DEF ReplayInv, Fair, vars
    <3> QED BY <1>2, <3>1, <3>2, FairStep, FairBegin DEF Next
  <2> QED BY <2>1, <2>2 DEF ReplayInv
<1>3. ReplayInv => NoFalseReplay
      BY DEF ReplayInv, Fair, Called, Racing, NoFalseReplay
<1> QED BY <1>1, <1>2, <1>3, PTL DEF Spec
-----------------------------------------------------------------------------
(* Why nothing that was ended is accepted again.  A token is outdated when  *)
(* the secrets were rotated or the user's version went past its own.        *)
RacesOnly == Overlaps \subseteq Races
Version(g) == IF g.tv = None THEN 0 ELSE g.tv
Outdated(g) == g.key < key \/ Version(g) < users[g.user].tv

(* A request that holds a row of the user it is going to save, or to issue  *)
(* tokens from.                                                             *)
HoldsRow(c) ==
  \/ c.pc \in {"codefind", "codesave", "upgrade", "session", "jti", "saveuser", "badlegacy",
              "invite", "useInvite", "legacyout"}
  \/ c.pc = "save" /\ c.op \in {"profile", "begin2fa"}
Pending(c) == c.op \in Bumps /\ c.pc \in {"save", "delcodes"}
Passed(c) == c.op \in Bumps /\ c.pc \in {"revfind", "revsave", "useReset", "codes"}
Looked(c) == c.op \in Racing /\ c.pc # "find"

Owned(c) == {g \in issued : g.user = c.who}
AllRevoked(n) == \A s \in Made : sessions[s].user = n => sessions[s].revoked
Spent(n) ==
  /\ AllRevoked(n)
  /\ \A q \in Reqs : req[q].op \in Racing /\ req[q].who = n => req[q].pc \in {"find", "rsession"}

NoPlain(r) == Plain \notin Stored => req[r].user.enc # Plain /\ ~At(r, "upgrade")
Living(r) ==
  /\ HoldsRow(req[r]) \/ Pending(req[r]) \/ Looked(req[r]) => req[r].user.tv \in Nat
  /\ req[r].op = "login" => users[req[r].who].tv \in Nat
  /\ req[r].key <= key
Rightly(r) ==
  /\ HoldsRow(req[r]) /\ req[r].op \notin Enders => req[r].user.tv = users[req[r].who].tv
  /\ Looked(req[r]) =>
       /\ \A g \in Owned(req[r]) : Version(g) <= req[r].user.tv
       /\ req[r].user.tv <= users[req[r].who].tv
  /\ Pending(req[r]) =>
       /\ \A g \in Owned(req[r]) : Version(g) < req[r].user.tv
       /\ users[req[r].who].tv <= req[r].user.tv
       /\ users[req[r].who].tv < req[r].user.tv \/ Spent(req[r].who)
       /\ \A q \in Reqs : Looked(req[q]) /\ req[q].who = req[r].who
            => req[q].user.tv < req[r].user.tv \/ Spent(req[r].who)
  /\ Passed(req[r]) => \A g \in req[r].old : g.user = req[r].who => Version(g) < users[g.user].tv
  /\ At(r, "revsave") => \A s \in Made : sessions[s].user = req[r].who => s \in req[r].found
  /\ At(r, "replay") => AllRevoked(req[r].who)
  /\ At(r, "rotate") => \A g \in dead : g.sid = req[r].given.sid => Outdated(g)

UsersKnown ==
  /\ \A n \in Names : users[n].tv = None => users[n] = NoUser
  /\ Plain \notin Stored => \A n \in Names : users[n].enc # Plain
NotAhead == \A g \in issued : /\ Version(g) <= users[g.user].tv /\ g.key <= key
                              /\ g.sid # None => g.tv # None
EndedForGood == \A g \in dead : Outdated(g) \/ (g.sid # None /\ sessions[g.sid].revoked)
RInv ==
  /\ Base /\ UsersKnown /\ NotAhead /\ EndedForGood
  /\ \A r \in Reqs : NoPlain(r) /\ Living(r) /\ Rightly(r)
(* Where the row a request holds comes from.                               *)
Reads(r) ==      \* it was read just now
  LET c == req[r] d == req'[r] IN
  /\ d.user = users[c.who] /\ users' = users /\ c.pc \in {"find", "reauth"}
  /\ c.op \in {"login"} \cup WithSession \/ users[c.who].tfa
  /\ c.op \in Coded \cup WithSession
  /\ d.pc \in {"session", "codefind", "upgrade", "action", "rsession", "badlegacy", "legacyout",
               "revfind"}
  /\ d.pc = "upgrade" => d.user.enc = Plain
Keeps(r) ==      \* it is the one held before
  LET c == req[r] d == req'[r] IN
  /\ d.user = c.user /\ c.pc \notin {"insert", "upgrade"}
  /\ c.pc \in {"find", "reauth"} => d.pc \in {"logout", "action"}
  /\ d.pc = "upgrade" => c.user.enc = Plain
Upgrades(r) ==
  LET c == req[r] d == req'[r] IN
  /\ c.pc = "upgrade" /\ d.user = [c.user EXCEPT !.enc = key] /\ users'[c.who] = d.user
  /\ d.pc \in {"session", "action"}
Adds(r) ==
  LET c == req[r] d == req'[r] IN
  /\ c.pc = "insert" /\ users[c.who] = NoUser /\ users'[c.who] = d.user
  /\ d.user.tv = 0 /\ d.user.enc = None /\ ~d.user.tfa /\ d.pc \in {"session", "invite"}
Finds(r) ==
  LET c == req[r] d == req'[r] row == users[c.who] IN
  /\ Find(r) /\ d.user = Changed(r, c, row) /\ d.pc = Then(c) /\ users' = users
  /\ row # NoUser /\ ~Refused(c, row)

(* Every step that goes on got its row in one of these ways.                *)
LEMMA RowHeld ==
  ASSUME Base, NEW r \in Reqs, Steps(r), req'[r] # Over
  PROVE  Reads(r) \/ Keeps(r) \/ Upgrades(r) \/ Adds(r) \/ Finds(r)
<1>0. Types /\ Goes(req[r], req'[r]) /\ req[r] \in Calls /\ req[r].pc \in PcsOf(req[r].op)
      /\ req[r].pc \in Pcs
      BY StepGoes, Now DEF Base
<1>u. users[req[r].who] \in Rows
      BY <1>0, Now
<1>1. ASSUME NEW p, req'[r] = [req[r] EXCEPT !.user = users[req[r].who], !.pc = p]
      PROVE  req'[r].user = users[req[r].who] /\ req'[r].pc = p
      BY <1>0, <1>1 DEF Calls
<1>2. ASSUME NEW p, Left(r, p) PROVE req'[r].user = req[r].user /\ req'[r].pc = p
      BY <1>0, <1>2 DEF Calls, Left
<1>3. CASE req[r].pc = "find"
  <2>0. users' = users
        BY <1>3, Frame DEF UserPcs
  <2>1. CASE LoginFind(r)
    <3>1. PICK p \in {"session", "upgrade", "codefind"} :
                 /\ req'[r] = [req[r] EXCEPT !.user = users[req[r].who], !.pc = p]
                 /\ p = "upgrade" => users[req[r].who].enc = Plain
          BY <1>0, <2>1, LoginFindTurn
    <3>2. /\ req[r].op \in Coded
          /\ req[r].op = "login" \/ users[req[r].who].tfa
      <4>1. req[r].op = "login2fa" /\ ~users[req[r].who].tfa => Finish(r)
            BY <2>1 DEF LoginFind
      <4>2. ~Finish(r)
            BY <1>0 DEF Finish, Types
      <4> QED BY <2>1, <4>1, <4>2 DEF LoginFind, Coded, LoginOps
    <3> QED BY <1>1, <1>3, <2>0, <3>1, <3>2 DEF Reads
  <2>2. CASE RefreshUser(r)
    <3>1. PICK p \in {"rsession", "session", "badlegacy"} :
                 req'[r] = [req[r] EXCEPT !.user = users[req[r].who], !.pc = p]
          BY <1>0, <2>2, RefreshUserTurn
    <3>2. req[r].op \in WithSession
          BY <2>2 DEF RefreshUser, Refreshing, WithSession
    <3> QED BY <1>1, <1>3, <2>0, <3>1, <3>2 DEF Reads
  <2>3. CASE LogoutFind(r)
    <3>1. req[r].op \in WithSession
          BY <2>3 DEF LogoutFind, WithSession
    <3> DEFINE s == sessions[req[r].given.sid]
    <3>2. \/ req'[r] = [req[r] EXCEPT !.sess = s, !.pc = "logout"]
          \/ \E p \in {"legacyout", "revfind"} :
                 req'[r] = [req[r] EXCEPT !.user = users[req[r].who], !.pc = p]
          BY <1>0, <2>3, <3>1, GivenNamed, LogoutFindTurn
    <3> HIDE DEF s
    <3>3. CASE req'[r] = [req[r] EXCEPT !.sess = s, !.pc = "logout"]
      <4>1. req'[r].user = req[r].user /\ req'[r].pc = "logout"
            BY <1>0, <3>3 DEF Calls
      <4> QED BY <1>3, <4>1 DEF Keeps
    <3>4. ASSUME NEW p \in {"legacyout", "revfind"},
                 req'[r] = [req[r] EXCEPT !.user = users[req[r].who], !.pc = p]
          PROVE  Reads(r)
          BY <1>1, <1>3, <2>0, <3>1, <3>4 DEF Reads
    <3> QED BY <3>2, <3>3, <3>4
  <2>4. CASE Find(r)
    <3> DEFINE u == Changed(r, req[r], users[req[r].who])
    <3>1. /\ req'[r] = [req[r] EXCEPT !.user = u, !.pc = Then(req[r])]
          /\ ~Refused(req[r], users[req[r].who]) /\ users[req[r].who] # NoUser
          BY <1>0, <2>4, FindTurn
    <3> HIDE DEF u
    <3>2. req'[r].user = u /\ req'[r].pc = Then(req[r])
          BY <1>0, <3>1 DEF Calls
    <3> QED BY <2>0, <2>4, <3>1, <3>2 DEF Finds, u
  <2> QED BY <1>3, <2>1, <2>2, <2>3, <2>4, StepAt DEF At
<1>4. CASE req[r].pc = "reauth"
  <2>1. Reauth(r) /\ users' = users /\ req[r].op \in Coded
        BY <1>0, <1>4, StepAt, Frame, OpsAt DEF At, UserPcs, Coded
  <2>2. CASE To(r, "action")
    <3>1. Left(r, "action")
          BY <1>0, <2>2 DEF To, Left, Types
    <3> QED BY <1>2, <1>4, <3>1 DEF Keeps
  <2>3. CASE users[req[r].who].tfa /\ CodeChecked(r, users[req[r].who])
    <3>1. Tables' /\ issued' = issued
          BY <1>0, <2>1, Same DEF Reauth
    <3>2. PICK p \in {Upgrade(req[r], users[req[r].who]), "codefind"} :
            req'[r] = [req[r] EXCEPT !.user = users[req[r].who], !.pc = p]
          BY <1>0, <1>u, <2>1, <2>3, <3>1, CodeCheckedTurn
    <3>3. p \in {"action", "session", "upgrade", "codefind"}
          /\ (p = "upgrade" => users[req[r].who].enc = Plain)
          BY <3>2 DEF Upgrade, After
    <3> QED BY <1>1, <1>4, <2>1, <2>3, <3>2, <3>3 DEF Reads
  <2>4. ~Finish(r)
        BY <1>0 DEF Finish, Types
  <2> QED BY <2>1, <2>2, <2>3, <2>4 DEF Reauth
<1>5. CASE req[r].pc = "upgrade"
  <2> DEFINE row == [req[r].user EXCEPT !.enc = key]
  <2>1. UpgradeSave(r)
        BY <1>5, StepAt DEF At
  <2>2. req'[r] = [req[r] EXCEPT !.user = row, !.pc = After(req[r])] /\ users'[req[r].who] = row
        BY <1>0, <2>1, UpgradeSaveTurn, Now DEF UpgradeSave, Types, Tables
  <2>3. After(req[r]) \in {"session", "action"}
        BY DEF After
  <2> HIDE DEF row
  <2>4. req'[r].user = row /\ req'[r].pc = After(req[r])
        BY <1>0, <2>2 DEF Calls
  <2> QED BY <1>5, <2>2, <2>3, <2>4 DEF Upgrades, row
<1>6. CASE req[r].pc = "insert"
  <2>1. Insert(r)
        BY <1>6, StepAt DEF At
  <2> DEFINE row == NewUser(r, req[r].op = "setup")
             p == IF req[r].op = "signup" THEN "invite" ELSE "session"
  <2>2. /\ row \in Rows /\ row.tv = 0 /\ row.enc = None /\ ~row.tfa /\ p \in {"invite", "session"}
        /\ users[req[r].who] = NoUser /\ users'[req[r].who] = row
        /\ req'[r] = [req[r] EXCEPT !.user = row, !.pc = p]
    <3>1. /\ row \in Rows /\ row.tv = 0 /\ row.enc = None /\ ~row.tfa
          BY NewUserTyped
    <3>2. ~Finish(r)
          BY <1>0 DEF Finish, Types
    <3> HIDE DEF row
    <3>3. /\ users[req[r].who] = NoUser /\ users' = [users EXCEPT ![req[r].who] = row]
          /\ req' = [req EXCEPT ![r] = IF req[r].op = "create" THEN Over
                             ELSE [req[r] EXCEPT !.user = row, !.pc = p]]
          BY <2>1, <3>2 DEF Insert, row
    <3> QED BY <1>0, <3>1, <3>3, Now DEF Types, Tables
  <2> HIDE DEF row, p
  <2>3. req'[r].user = row /\ req'[r].pc = p
        BY <1>0, <2>2 DEF Calls
  <2> QED BY <1>6, <2>2, <2>3 DEF Adds
<1>7. CASE req[r].pc \in {"codefind", "jti", "legacyout", "save", "token", "check", "invite",
                          "useInvite", "revsave"}
  <2>1. \E p \in {"codesave", "saveuser", "revfind", "find", "insert", "useInvite", "session",
                  "replay", "useReset", "codes"} : Left(r, p)
        BY <1>0, <1>7, StepAt, CodeFindTurn, SaveJtiTurn, LegacyLogoutTurn, SaveTurn, FindTokenTurn,
           CheckNewTurn, FindInviteTurn, UseInviteTurn, RevokeSaveTurn DEF At, Onward
  <2> QED BY <1>2, <1>7, <2>1 DEF Keeps
<1>8. CASE req[r].pc = "codesave"
  <2>1. Left(r, Upgrade(req[r], req[r].user))
        BY <1>0, <1>8, StepAt, CodeSaveTurn DEF At
  <2>2. Upgrade(req[r], req[r].user) = "upgrade" => req[r].user.enc = Plain
        BY DEF Upgrade, After
  <2> QED BY <1>2, <1>8, <2>1, <2>2 DEF Keeps
<1>9. CASE req[r].pc = "delcodes"
  <2>1. Left(r, "codes") \/ Left(r, "save")
        BY <1>0, <1>9, StepAt, DeleteCodesTurn DEF At
  <2> QED BY <1>2, <1>9, <2>1 DEF Keeps
<1>10. CASE req[r].pc = "session"
  <2> DEFINE new == [user |-> req[r].who, jti |-> None, revoked |-> FALSE]
  <2>1. req'[r] = [req[r] EXCEPT !.sess = new, !.key = key, !.pc = "jti"]
        BY <1>0, <1>10, StepAt, CreateSessionTurn DEF At
  <2> HIDE DEF new
  <2>2. req'[r].user = req[r].user /\ req'[r].pc = "jti"
        BY <1>0, <2>1 DEF Calls
  <2> QED BY <1>10, <2>2 DEF Keeps
<1>11. CASE req[r].pc \in {"revfind", "rsession"}
  <2>1. req[r].op \in Racing =>
          req'[r].user = req[r].user /\ req'[r].pc \in {"rotate", "revfind", "revsave", "replay"}
        BY <1>11, RacingStep
  <2>2. CASE req[r].op \notin Racing
    <3>1. req[r].pc = "revfind" /\ RevokeFind(r)
          BY <1>0, <1>11, <2>2, StepAt, OpsAt DEF At
    <3>2. Onward(r) \/ req'[r] = [req[r] EXCEPT !.found = Theirs(r), !.pc = "revsave"]
          BY <1>0, <3>1, RevokeFindTurn DEF Theirs
    <3>3. CASE Onward(r)
          BY <1>2, <3>1, <3>3 DEF Onward, Keeps
    <3>4. CASE req'[r] = [req[r] EXCEPT !.found = Theirs(r), !.pc = "revsave"]
      <4>1. req'[r].user = req[r].user /\ req'[r].pc = "revsave"
            BY <1>0, <3>4 DEF Calls
      <4> QED BY <3>1, <4>1 DEF Keeps
    <3> QED BY <3>2, <3>3, <3>4
  <2> QED BY <1>11, <2>1, <2>2 DEF Keeps
<1>12. CASE req[r].pc = "action"
  <2>1. req'[r] = [req[r] EXCEPT !.who = Alice, !.pc = "find"]
        BY <1>0, <1>12, StepAt, ActTurn DEF At
  <2>2. req'[r].user = req[r].user /\ req'[r].pc = "find"
        BY <1>0, <2>1 DEF Calls
  <2> QED BY <1>12, <2>2 DEF Keeps
<1>13. CASE req[r].pc \in {"saveuser", "rotate", "badlegacy", "replay", "logout", "codes", "mail", "useReset"}
       BY <1>0, <1>13, StepAt, AnsweredTurn, RotateTurn, BadLegacyTurn, ReplayTurn, LogoutSaveTurn,
          StoreCodesTurn, MailTurn, UseTokenTurn DEF At
<1> QED BY StepAt, <1>3, <1>4, <1>5, <1>6, <1>7, <1>8, <1>9, <1>10, <1>11, <1>12, <1>13 DEF Pcs
(* What a step writes to the table of users: one row.                      *)
Writes(r) ==
  LET c == req[r] new == users'[c.who] IN
  \/ /\ c.pc \in {"upgrade", "saveuser", "legacyout", "save"}
     /\ new.tv = c.user.tv /\ new.tfa = c.user.tfa /\ new.enc \in {c.user.enc, key}
  \/ /\ c.pc \in {"badlegacy", "replay"}
     /\ new.tv = c.user.tv + 1 /\ new.tfa = c.user.tfa /\ new.enc = c.user.enc
  \/ /\ c.pc = "insert" /\ users[c.who] = NoUser
     /\ new.tv = 0 /\ ~new.tfa /\ new.enc = None

LEMMA UserWrites ==
  ASSUME Base, NEW r \in Reqs, Steps(r)
  PROVE  /\ \A n \in Names : n # req[r].who => users'[n] = users[n]
         /\ users' = users \/ Writes(r)
<1>0. Types /\ req[r] \in Calls /\ req[r].user \in Rows /\ req[r].who \in Names
      /\ users \in [Names -> Rows]
      BY Now DEF Base, Types, Tables
<1>1. CASE req[r].pc = "upgrade"
  <2> DEFINE row == [req[r].user EXCEPT !.enc = key]
  <2>1. users' = [users EXCEPT ![req[r].who] = row]
        BY <1>1, StepAt DEF At, UpgradeSave
  <2>2. row.tv = req[r].user.tv /\ row.tfa = req[r].user.tfa /\ row.enc = key
        BY <1>0 DEF Rows
  <2> HIDE DEF row
  <2> QED BY <1>0, <1>1, <2>1, <2>2 DEF Writes
<1>2. CASE req[r].pc \in {"saveuser", "legacyout", "save"}
  <2>1. \/ SaveUser(req[r].who, req[r].user) \/ SaveUserNoLegacy(req[r].who, req[r].user)
        \/ users' = [users EXCEPT ![req[r].who] = req[r].user]
        BY <1>2, StepAt DEF At, Answered, LegacyLogout, Save
  <2> QED BY <1>0, <1>2, <2>1, UserSaved DEF Writes
<1>3. CASE req[r].pc \in {"badlegacy", "replay"}
  <2>1. SaveUser(req[r].who, Bumped(req[r].user))
        BY <1>3, StepAt DEF At, BadLegacy, Replay
  <2>2. Bumped(req[r].user) \in Rows
        BY <1>0, BumpTyped
  <2> QED BY <1>0, <1>3, <2>1, <2>2, BumpTyped, UserSaved DEF Writes
<1>4. CASE req[r].pc = "insert"
  <2> DEFINE row == NewUser(r, req[r].op = "setup")
  <2>1. \/ users' = users
        \/ users[req[r].who] = NoUser /\ users' = [users EXCEPT ![req[r].who] = row]
        BY <1>4, StepAt DEF At, Insert
  <2>2. row.tv = 0 /\ row.enc = None /\ ~row.tfa
        BY NewUserTyped
  <2> HIDE DEF row
  <2> QED BY <1>0, <1>4, <2>1, <2>2 DEF Writes
<1>5. CASE req[r].pc \notin UserPcs
      BY <1>5, Frame
<1> QED BY <1>1, <1>2, <1>3, <1>4, <1>5 DEF UserPcs

(* Two requests under way at once are a refresh and what ends its tokens.   *)
LEMMA Overlapping ==
  ASSUME RacesOnly, Base, NEW q \in Reqs, NEW r \in Reqs, q # r, Busy(q), Busy(r)
  PROVE  \/ req[q].op \in Racing /\ req[r].op \in Enders
         \/ req[q].op \in Enders /\ req[r].op \in Racing
<1>1. {req[q].op, req[r].op} \in Races
      BY DEF RacesOnly, Base, Apart
<1>2. PICK a \in Racing, b \in Enders : {req[q].op, req[r].op} = {a, b}
      BY <1>1 DEF Races
<1>3. a # b
      BY DEF Racing, Enders, Admins
<1> QED BY <1>2, <1>3

(* Enders are neither refreshes nor sign-ins.                               *)
LEMMA EndersAre ==
  /\ Enders \subseteq Bumps \cup {"rotate", "logout"}
  /\ Enders \cap (Racing \cup LoginOps \cup Issues \cup {"logoutall", "migrate", "profile", "begin2fa",
                   "newcodes", "forgot", "create", "none"}) = {}
  /\ Plain \in Stored => Enders \cap Admins = {}
  /\ Plain \notin Stored => Admins \subseteq Enders
  BY DEF Enders, Bumps, Admins, Racing, LoginOps, Issues

(* The rows held and the rows stored are rows of accounts.                  *)
LEMMA Kinds ==
  ASSUME Base, NEW r \in Reqs
  PROVE  LET c == req[r] IN
         /\ HoldsRow(c) \/ Pending(c) \/ Looked(c) \/ Passed(c) => Busy(r)
         /\ HoldsRow(c) /\ c.op \in Enders => c.pc \in {"codefind", "codesave", "upgrade"} /\ c.op \in Admins
         /\ c.pc \in {"upgrade", "saveuser", "legacyout", "badlegacy"} => HoldsRow(c)
         /\ c.pc = "save" => HoldsRow(c) \/ Pending(c)
         /\ c.pc = "replay" => Looked(c)
         /\ c.op \in Racing => ~HoldsRow(c) /\ ~Pending(c) /\ ~Passed(c)
         /\ Looked(c) \/ Passed(c) \/ Pending(c) => ~HoldsRow(c)
<1>1. req[r].op \in OpNames /\ req[r].pc \in PcsOf(req[r].op) /\ req[r] \in Calls
      BY Now DEF Base
<1>2. LET c == req[r] IN
      /\ c.pc \in {"codefind", "codesave", "upgrade"} => c.op \in LoginOps \cup Admins
      /\ c.pc \in {"session", "jti", "saveuser"} => c.op \in Issues
      /\ c.pc = "badlegacy" => c.op = "migrate"
      /\ c.pc = "legacyout" => c.op = "logoutall"
      /\ c.pc \in {"invite", "useInvite"} => c.op = "signup"
      /\ c.pc = "save" => c.op \in Bumps \cup {"profile", "begin2fa"}
      /\ c.pc = "replay" => c.op \in Racing
      /\ c.pc \in {"idle", "over"} <=> c.op = "none"
      BY <1>1, OpsAt DEF Coded
<1>3. Racing \cap (LoginOps \cup Admins \cup Issues \cup {"migrate", "logoutall", "profile", "begin2fa"} \cup Bumps) = {}
      /\ "signup" \in Issues /\ "none" \notin Racing \cup Bumps
      BY DEF Racing, LoginOps, Admins, Issues, Bumps
<1>4. Bumps \cap {"profile", "begin2fa", "migrate", "logoutall", "signup", "login", "login2fa"} = {}
      /\ Bumps \cap Issues = {}
      BY DEF Bumps, Issues, LoginOps
<1> QED BY <1>2, <1>3, <1>4, EndersAre DEF HoldsRow, Pending, Looked, Passed, Busy

(* Whoever writes writes the row of an account.                             *)
LEMMA WriterLives ==
  ASSUME RInv, NEW r \in Reqs, Steps(r), Writes(r)
  PROVE  users'[req[r].who].tv \in Nat
<1>1. Base /\ Living(r)
      BY DEF RInv
<1>2. HoldsRow(req[r]) \/ Pending(req[r]) \/ Looked(req[r]) => req[r].user.tv \in Nat
      BY <1>1 DEF Living
<1>3. CASE req[r].pc \in {"upgrade", "saveuser", "legacyout", "save", "badlegacy", "replay"}
  <2>1. req[r].user.tv \in Nat
        BY <1>1, <1>2, <1>3, Kinds
  <2> QED BY <1>3, <2>1 DEF Writes
<1> QED BY <1>3 DEF Writes

(* An account is never deleted.                                             *)
LEMMA UsersStep ==
  ASSUME RInv, NEW r \in Reqs, Steps(r)
  PROVE  /\ UsersKnown'
         /\ \A n \in Names : users[n].tv \in Nat => users'[n].tv \in Nat
<1>0. Base /\ UsersKnown /\ NoPlain(r) /\ Base' /\ users' \in [Names -> Rows] /\ key \in Nat
      /\ req[r].who \in Names
      BY BaseStep, Now DEF RInv, Base, Types, Tables
<1>1. CASE users' = users
      BY <1>0, <1>1 DEF UsersKnown
<1>2. CASE Writes(r)
  <2>1. users'[req[r].who].tv \in Nat
        BY <1>2, WriterLives
  <2>2. Plain \notin Stored => users'[req[r].who].enc # Plain
        BY <1>0, <1>2 DEF Writes, NoPlain, Plain, None
  <2>3. \A n \in Names : n # req[r].who => users'[n] = users[n]
        BY <1>0, UserWrites
  <2> QED BY <1>0, <2>1, <2>2, <2>3 DEF UsersKnown, None
<1> QED BY <1>0, <1>1, <1>2, UserWrites
(* The generation of the secrets only goes up.                              *)
LEMMA KeyRises == ASSUME Base, NEW r \in Reqs, Steps(r) PROVE key <= key' /\ key \in Nat
<1>1. key \in Nat
      BY DEF Base, Types, Tables
<1>2. At(r, "action") => key' = key \/ key' = key + 1
      BY StepAt DEF Act
<1> QED BY <1>1, <1>2, Frame DEF At

(* The user of a token handed out exists, and so does the user of a row     *)
(* that was read.                                                           *)
LEMMA GivenLives ==
  ASSUME RInv, NEW r \in Reqs, req[r].op \in WithSession
  PROVE  users[req[r].who].tv \in Nat
<1>1. /\ req[r].given \in issued /\ req[r].given.user = req[r].who
      /\ users[req[r].who].tv \in Nat \cup {None} /\ req[r].given.tv \in Nat \cup {None}
      BY Now DEF RInv, Base, Sound, Rows, Types, Tables, IssuedGrants
<1>2. Version(req[r].given) <= users[req[r].who].tv
      BY <1>1 DEF RInv, NotAhead
<1> QED BY <1>1, <1>2 DEF Version, None

LEMMA ReadLives ==
  ASSUME RInv, NEW r \in Reqs,
         req[r].op \in {"login"} \cup WithSession \/ users[req[r].who].tfa \/ users[req[r].who] # NoUser
  PROVE  users[req[r].who].tv \in Nat
<1>1. /\ req[r].who \in Names /\ users[req[r].who].tv \in Nat \cup {None}
      /\ users[req[r].who].tv = None => users[req[r].who] = NoUser
      BY Now DEF RInv, Base, UsersKnown, Rows
<1>2. ~NoUser.tfa
      BY DEF NoUser
<1> QED BY <1>1, <1>2, GivenLives DEF RInv, Living

(* A row that is kept was held before.                                     *)
LEMMA KeptHeld ==
  ASSUME Base, NEW r \in Reqs, Steps(r), req'[r] # Over, Keeps(r)
  PROVE  /\ HoldsRow(req'[r]) => HoldsRow(req[r])
         /\ Pending(req'[r]) => Pending(req[r])
         /\ Looked(req'[r]) => Looked(req[r])
<1>1. /\ req'[r].op = req[r].op /\ req'[r].pc \in Nexts(req[r].pc)
      /\ req[r].pc \in PcsOf(req[r].op) /\ req[r].pc \in Pcs /\ req[r] \in Calls
      BY StepGoes, Now DEF Goes, Base
<1>2. /\ req[r].pc \in {"find", "reauth"} => req'[r].pc \in {"logout", "action"}
      /\ req[r].pc \notin {"insert", "upgrade"}
      BY DEF Keeps
<1>3. /\ req[r].pc = "token" => req[r].op = "reset"
      /\ req[r].pc \in {"check", "insert"} => req[r].op \in {"setup", "signup", "create"}
      /\ req[r].pc \in {"revfind", "revsave"} => req[r].op \in Bumps \cup Racing \cup {"logoutall"}
      /\ req[r].pc = "legacyout" => req[r].op = "logoutall"
      /\ req[r].pc = "logout" => req[r].op = "logout"
      /\ req[r].pc = "action" => req[r].op \in Admins
      /\ req[r].pc = "delcodes" => req[r].op \in {"disable", "newcodes", "reset2fa"}
      BY <1>1, OpsAt
<1>n. \A x : x \in Nexts(req[r].pc) =>
        /\ x \in {"codesave", "upgrade", "session", "jti", "saveuser", "useInvite"} =>
             req[r].pc \in {"codefind", "codesave", "upgrade", "session", "jti", "insert",
                           "invite", "useInvite", "find", "reauth"}
        /\ x \in {"codefind", "badlegacy", "legacyout", "invite"} => req[r].pc \in {"find", "reauth", "insert"}
        /\ x = "save" => req[r].pc \in {"find", "delcodes"}
        /\ x = "delcodes" => req[r].pc = "find"
      BY <1>1 DEF Nexts, Pcs
<1>4. ASSUME HoldsRow(req'[r])
      PROVE  HoldsRow(req[r])
  <2>1. req'[r].pc # "save" \/ req[r].pc = "delcodes"
        BY <1>1, <1>2, <1>n
  <2>2. req[r].pc = "delcodes" => req[r].op \notin {"profile", "begin2fa"}
        BY <1>3
  <2> QED BY <1>1, <1>2, <1>4, <1>n, <2>1, <2>2 DEF HoldsRow
<1>5. ASSUME Pending(req'[r])
      PROVE  Pending(req[r])
      BY <1>1, <1>2, <1>5, <1>n DEF Pending
<1>6. ASSUME Looked(req'[r])
      PROVE  Looked(req[r])
  <2>1. req[r].op \in Racing
        BY <1>1, <1>6 DEF Looked
  <2>2. req[r].pc # "find"
        BY <1>2, <2>1, RacingStep
  <2> QED BY <2>1, <2>2 DEF Looked
<1> QED BY <1>4, <1>5, <1>6

(* A request that has ended holds no row.                                   *)
LEMMA OverHolds ==
  /\ ~HoldsRow(Over) /\ ~Pending(Over) /\ ~Looked(Over) /\ ~Passed(Over)
  /\ Over.op = "none" /\ Over.pc = "over" /\ Over.key = None /\ Over.user.enc = None
  BY DEF HoldsRow, Pending, Looked, Passed, Over, Idle, Bumps, Racing, NoUser

(* What a request holds after a step is the row of an account.              *)
LEMMA LivingStep ==
  ASSUME RInv, NEW r \in Reqs, Steps(r), NEW q \in Reqs
  PROVE  NoPlain(q)' /\ Living(q)'
<1>0. /\ Base /\ Types /\ Turn(r) /\ Types' /\ Others(r) /\ Goes(req[r], req'[r])
      /\ NoPlain(q) /\ Living(q) /\ key <= key' /\ key \in Nat /\ key' \in Nat
      /\ \A n \in Names : users[n].tv \in Nat => users'[n].tv \in Nat
      /\ req[q].who \in Names /\ req[q].key \in Nat \cup {None} /\ req[r].user \in Rows
      BY StepTurn, StepGoes, KeyRises, UsersStep, Now DEF RInv, Base, Turn, Types, Tables, Calls
<1>1. CASE q # r
  <2>1. req'[q] = req[q]
        BY <1>0, <1>1 DEF Others
  <2>2. req[q].key <= key'
        BY <1>0 DEF Living, None
  <2> QED BY <1>0, <2>1, <2>2 DEF NoPlain, Living, At
<1>2. CASE q = r /\ req'[r] = Over
  <2>1. None <= key' /\ None # Plain
        BY <1>0 DEF None, Plain
  <2> QED BY <1>2, <2>1, OverHolds DEF NoPlain, Living, At
<1>3. CASE q = r /\ req'[r] # Over
  <2>1. req'[r].key <= key'
        BY <1>0, <1>3 DEF Goes, Living, None
  <2>2. req'[r].op = "login" => users'[req'[r].who].tv \in Nat
    <3>1. ASSUME req'[r].op = "login"
          PROVE  req[r].op = "login" /\ req'[r].who = req[r].who
      <4>1. req[r].op = "login" /\ req[r].pc \in PcsOf(req[r].op)
            BY <1>0, <1>3, <3>1, Now DEF Goes
      <4>2. req[r].pc # "action"
            BY <4>1 DEF PcsOf, LoginPcs, Racing
      <4> QED BY <1>0, <1>3, <4>1, <4>2 DEF Goes
    <3> QED BY <1>0, <1>3, <3>1 DEF Living
  <2>3. ASSUME HoldsRow(req'[r]) \/ Pending(req'[r]) \/ Looked(req'[r])
        PROVE  req'[r].user.tv \in Nat
    <3>1. CASE Reads(r)
          BY <3>1, ReadLives DEF Reads
    <3>2. CASE Keeps(r)
          BY <1>0, <1>3, <2>3, <3>2, KeptHeld DEF Keeps, Living
    <3>3. CASE Upgrades(r)
      <4>1. req[r].user.tv \in Nat
            BY <1>0, <1>3, <3>3, Kinds DEF Upgrades, Living
      <4> QED BY <1>0, <3>3, <4>1 DEF Upgrades, Rows
    <3>4. CASE Adds(r)
          BY <3>4 DEF Adds
    <3>5. CASE Finds(r)
      <4>1. users[req[r].who].tv \in Nat /\ users[req[r].who] \in Rows
            BY <1>0, <3>5, ReadLives, Now DEF Finds
      <4>2. LET new == Changed(r, req[r], users[req[r].who]) IN
              new.tv = users[req[r].who].tv + 1 \/ new.tv = users[req[r].who].tv
            BY <1>0, <4>1, ChangedTyped
      <4>3. req'[r].user = Changed(r, req[r], users[req[r].who])
            BY <3>5 DEF Finds
      <4> QED BY <4>1, <4>2, <4>3
    <3> QED BY <1>0, <1>3, <3>1, <3>2, <3>3, <3>4, <3>5, RowHeld
  <2>4. NoPlain(r)'
    <3>0. /\ Plain \notin Stored => users[req[r].who].enc # Plain
          /\ Plain \notin Stored => req[r].user.enc # Plain
          BY <1>0, <1>3, Now DEF RInv, UsersKnown, NoPlain
    <3>1. CASE Reads(r)
          BY <3>0, <3>1 DEF Reads, NoPlain, At
    <3>2. CASE Keeps(r)
          BY <3>0, <3>2 DEF Keeps, NoPlain, At
    <3>3. CASE Upgrades(r)
          BY <1>0, <3>3 DEF Upgrades, NoPlain, At, Rows, Plain
    <3>4. CASE Adds(r)
          BY <3>4 DEF Adds, NoPlain, At, None, Plain
    <3>5. CASE Finds(r)
      <4>1. users[req[r].who] \in Rows /\ Then(req[r]) # "upgrade"
            BY <1>0, Now DEF Then
      <4> QED BY <1>0, <3>0, <3>5, <4>1, ChangedTyped DEF Finds, NoPlain, At
    <3> QED BY <1>0, <1>3, <3>1, <3>2, <3>3, <3>4, <3>5, RowHeld
  <2> QED BY <1>3, <2>1, <2>2, <2>3, <2>4 DEF Living
<1> QED BY <1>1, <1>2, <1>3
(* No write makes a token handed out before good again: what is saved is    *)
(* the version that was there, or one past every token of the user.         *)
LEMMA WriteSorts ==
  ASSUME RInv, NEW r \in Reqs, Steps(r), Writes(r)
  PROVE  LET c == req[r] old == users[c.who] new == users'[c.who] IN
         \/ HoldsRow(c) /\ c.op \notin Enders /\ new.tv \in {old.tv, old.tv + 1}
         \/ Pending(c) /\ c.pc = "save" /\ new.tv = c.user.tv
         \/ Looked(c) /\ c.pc = "replay" /\ new.tv = c.user.tv + 1
         \/ c.pc = "insert" /\ old = NoUser /\ new.tv = 0
<1>0. Base /\ Rightly(r) /\ NoPlain(r)
      BY DEF RInv
<1>1. CASE HoldsRow(req[r]) /\ req[r].pc # "insert"
  <2>1. CASE req[r].op \notin Enders
    <3>1. req[r].user.tv = users[req[r].who].tv
          BY <1>0, <1>1, <2>1 DEF Rightly
    <3> QED BY <1>1, <2>1, <3>1 DEF Writes
  <2>2. CASE req[r].op \in Enders
    <3>1. req[r].pc \in {"codefind", "codesave", "upgrade"} /\ req[r].op \in Admins
          BY <1>0, <1>1, <2>2, Kinds
    <3>2. req[r].pc # "upgrade"
          BY <1>0, <2>2, <3>1, EndersAre DEF NoPlain, At
    <3> QED BY <3>1, <3>2 DEF Writes
  <2> QED BY <2>1, <2>2
<1>2. CASE Pending(req[r])
      BY <1>2 DEF Pending, Writes
<1>3. CASE req[r].pc = "replay"
      BY <1>0, <1>3, Kinds DEF Writes
<1>4. CASE req[r].pc = "insert"
      BY <1>4 DEF Writes
<1> QED BY <1>0, <1>1, <1>2, <1>3, <1>4, Kinds DEF Writes

(* What RInv says of one token.                                             *)
LEMMA GrantFacts ==
  ASSUME RInv, NEW g \in issued
  PROVE  /\ g.user \in Names /\ Version(g) \in Nat /\ g.key \in Nat /\ key \in Nat
         /\ Version(g) <= users[g.user].tv /\ g.key <= key
         /\ users[g.user].tv \in Nat /\ users[g.user] # NoUser
<1>1. g.user \in Names /\ Version(g) \in Nat /\ g.key \in Nat /\ key \in Nat
      BY DEF RInv, Base, Types, Tables, IssuedGrants, Version
<1>2. Version(g) <= users[g.user].tv /\ g.key <= key
      BY DEF RInv, NotAhead
<1>3. users[g.user].tv \in Nat \cup {None}
      BY <1>1 DEF RInv, Base, Types, Tables, Rows
<1> QED BY <1>1, <1>2, <1>3 DEF None, NoUser

(* A step puts no user behind his tokens, and makes no outdated token       *)
(* current.                                                                 *)
LEMMA VersionsKept ==
  ASSUME RInv, NEW r \in Reqs, Steps(r), NEW g \in issued
  PROVE  /\ Version(g) <= users'[g.user].tv /\ g.key <= key'
         /\ Outdated(g) => g.key < key' \/ Version(g) < users'[g.user].tv
<1>0. /\ Base /\ Rightly(r) /\ key <= key' /\ key \in Nat /\ key' \in Nat
      /\ users'[g.user].tv \in Nat
      BY KeyRises, BaseStep, UsersStep, GrantFacts DEF RInv, Base, Types, Tables
<1>k. g.key <= key' /\ (g.key < key => g.key < key')
      BY <1>0, GrantFacts
<1>1. CASE users'[g.user].tv = users[g.user].tv \/ users'[g.user].tv = users[g.user].tv + 1
      BY <1>k, <1>1, GrantFacts DEF Outdated
<1>2. CASE Version(g) < users'[g.user].tv
      BY <1>0, <1>k, <1>2, GrantFacts
<1>3. ASSUME g.user = req[r].who, Writes(r)
      PROVE  \/ users'[g.user].tv = users[g.user].tv \/ users'[g.user].tv = users[g.user].tv + 1
             \/ Version(g) < users'[g.user].tv
  <2>1. g \in Owned(req[r])
        BY <1>3 DEF Owned
  <2>2. CASE Pending(req[r]) /\ users'[g.user].tv = req[r].user.tv
        BY <1>0, <2>1, <2>2 DEF Rightly
  <2>3. CASE Looked(req[r]) /\ users'[g.user].tv = req[r].user.tv + 1
    <3>1. Version(g) <= req[r].user.tv /\ req[r].user.tv \in Nat
          BY <1>0, <2>1, <2>3 DEF Rightly, RInv, Living
    <3> QED BY <2>3, <3>1, GrantFacts
  <2> QED BY <1>3, <2>2, <2>3, WriteSorts, GrantFacts
<1> QED BY <1>0, <1>1, <1>2, <1>3, UserWrites, GrantFacts

(* What a request ends is outdated when it answers, or its session is over. *)
LEMMA NewDead ==
  ASSUME RInv, NEW r \in Reqs, Steps(r), NEW g \in dead', g \notin dead
  PROVE  /\ g \in issued
         /\ \/ g.key < key' \/ Version(g) < users'[g.user].tv
            \/ /\ req[r].op = "logoutall" \/ (req[r].op = "logout" /\ ~Undone(g.sid))
               /\ g.sid # None /\ sessions'[g.sid].revoked
<1>0. /\ Base /\ Types /\ Rightly(r) /\ req[r].old \subseteq issued /\ req[r].pc \in PcsOf(req[r].op)
      /\ req[r] \in Calls /\ key \in Nat
      BY Now DEF RInv, Base, Sound, Types, Tables
<1>1. ASSUME g \in OwnedBy(r)
      PROVE  g \in issued /\ g.user = req[r].who /\ g \in req[r].old /\ g \in Owned(req[r])
      BY <1>0, <1>1 DEF OwnedBy, Owned
<1>2. CASE req[r].pc \in {"badlegacy", "replay"}
  <2>1. dead' = dead \cup OwnedBy(r) /\ SaveUser(req[r].who, Bumped(req[r].user))
        BY <1>2, StepAt DEF At, BadLegacy, Replay, Kill
  <2>2. g \in OwnedBy(r) /\ g \in issued /\ g.user = req[r].who /\ g \in Owned(req[r])
        BY <1>1, <2>1
  <2>3. users'[g.user].tv = req[r].user.tv + 1
    <3>1. req[r].who \in Names /\ req[r].user \in Rows /\ Bumped(req[r].user) \in Rows
          /\ users \in [Names -> Rows]
          BY <1>0, Now, BumpTyped DEF Types, Tables
    <3> QED BY <2>1, <2>2, <3>1, UserSaved, BumpTyped
  <2>4. Version(g) <= req[r].user.tv /\ req[r].user.tv \in Nat
    <3>1. CASE req[r].pc = "replay"
          BY <1>0, <2>2, <3>1, Kinds DEF Rightly, RInv, Living
    <3>2. CASE req[r].pc = "badlegacy"
      <4>1. req[r].op = "migrate" /\ HoldsRow(req[r])
            BY <1>0, <3>2, OpsAt, Kinds
      <4>2. req[r].op \notin Enders
            BY <4>1, EndersAre
      <4> QED BY <1>0, <2>2, <4>1, <4>2, GrantFacts DEF Rightly, RInv, Living
    <3> QED BY <1>2, <3>1, <3>2
  <2> QED BY <2>2, <2>3, <2>4, GrantFacts
<1>3. ASSUME Passed(req[r]), g \in OwnedBy(r), users' = users
      PROVE  g \in issued /\ Version(g) < users'[g.user].tv
      BY <1>0, <1>1, <1>3 DEF Rightly
<1>4. CASE req[r].pc \in {"revfind", "revsave"}
  <2>1. /\ users' = users
        /\ Onward(r) \/ dead' = dead
        /\ req[r].pc = "revfind" /\ dead' # dead => Theirs(r) = {}
    <3>1. users' = users
          BY <1>4, Frame DEF UserPcs
    <3>2. CASE req[r].pc = "revfind"
          BY <1>0, <3>1, <3>2, StepAt, RevokeFindTurn DEF At, Theirs
    <3>3. CASE req[r].pc = "revsave"
          BY <1>0, <3>1, <3>3, StepAt, RevokeSaveTurn DEF At
    <3> QED BY <1>4, <3>1, <3>2, <3>3
  <2>2. /\ req[r].op \in {"password", "disable", "reset2fa", "resetpw", "logoutall"}
        /\ dead' = dead \cup Ended(r) /\ g \in Ended(r)
        BY <2>1 DEF Onward
  <2>3. CASE req[r].op # "logoutall"
    <3>1. Passed(req[r]) /\ g \in OwnedBy(r)
          BY <1>4, <2>2, <2>3 DEF Passed, Bumps, Ended
    <3> QED BY <1>3, <2>1, <3>1
  <2>4. CASE req[r].op = "logoutall"
    <3>1. g \in OwnedBy(r) /\ g.sid # None
          BY <2>2, <2>4 DEF Ended
    <3>2. g \in issued /\ g.sid \in Made /\ sessions[g.sid].user = req[r].who
          BY <1>0, <1>1, <3>1 DEF Base, Named, Types, Tables, IssuedGrants
    <3>3. g.sid \in Theirs(r) /\ req[r].pc # "revfind"
          BY <2>1, <2>2, <3>2 DEF Theirs
    <3>4. RevokeSave(r) /\ g.sid \in req[r].found
          BY <1>0, <1>4, <3>2, <3>3, StepAt DEF At, Rightly
    <3>5. sessions'[g.sid].revoked
          BY <1>0, <3>2, <3>4 DEF RevokeSave, Revoked, Types, Tables, SessionRows
    <3> QED BY <2>4, <3>1, <3>2, <3>5
  <2> QED BY <2>3, <2>4
<1>5. CASE req[r].pc \in {"codes", "useReset"}
  <2>1. CASE req[r].pc = "codes"
    <3>1. StoreCodes(r) /\ users' = users
          BY <2>1, StepAt, Frame DEF At, UserPcs
    <3>2. req[r].op = "confirm" /\ g \in OwnedBy(r)
          BY <3>1 DEF StoreCodes, Kill
    <3> QED BY <1>3, <2>1, <3>1, <3>2 DEF Passed, Bumps
  <2>2. CASE req[r].pc = "useReset"
    <3>1. UseToken(r) /\ users' = users /\ req[r].op = "reset"
          BY <1>0, <2>2, StepAt, Frame, OpsAt DEF At, UserPcs
    <3>2. g \in OwnedBy(r)
          BY <3>1 DEF UseToken, Kill
    <3> QED BY <1>3, <2>2, <3>1, <3>2 DEF Passed, Bumps
  <2> QED BY <1>5, <2>1, <2>2
<1>6. CASE req[r].pc = "logout"
  <2>1. LogoutSave(r) /\ req[r].op = "logout" /\ req[r].given.sid # None /\ req[r].given.sid \in Made
        BY <1>0, <1>6, StepAt, LogoutSaveTurn, Now DEF At, Sound
  <2>2. g \in req[r].old /\ g.sid = req[r].given.sid /\ ~Undone(g.sid)
        BY <2>1 DEF LogoutSave, Kill
  <2>3. sessions'[g.sid].revoked
    <3>1. req[r].sess \in SessionRows /\ sessions \in [Made -> SessionRows]
          BY <1>0, Now DEF Types, Tables
    <3> QED BY <2>1, <2>2, <3>1 DEF LogoutSave, Revoked, SessionRows
  <2> QED BY <1>0, <2>1, <2>2, <2>3
<1>7. CASE req[r].pc = "action"
  <2>1. key' = key + 1 /\ dead' = dead \cup req[r].old
        BY <1>0, <1>7, StepAt, ActTurn DEF At
  <2>2. g \in issued
        BY <1>0, <2>1
  <2> QED BY <2>1, <2>2, GrantFacts
<1> QED BY <1>2, <1>4, <1>5, <1>6, <1>7, Frame DEF EndPcs
(* What was ended stays ended.                                              *)
LEMMA EndedStep == ASSUME RInv, NEW r \in Reqs, Steps(r) PROVE EndedForGood'
<1>0. Base /\ EndedForGood /\ Rightly(r) /\ Types /\ Named
      BY DEF RInv, Base
<1> SUFFICES ASSUME NEW g \in dead'
             PROVE  \/ g.key < key' \/ Version(g) < users'[g.user].tv
                    \/ g.sid # None /\ sessions'[g.sid].revoked
    BY DEF EndedForGood, Outdated
<1>1. CASE g \notin dead
      BY <1>1, NewDead
<1>2. CASE g \in dead /\ Outdated(g)
      BY <1>0, <1>2, VersionsKept DEF Types, Tables
<1>3. CASE g \in dead /\ ~Outdated(g)
  <2>1. g \in issued /\ g.sid # None /\ sessions[g.sid].revoked
        BY <1>0, <1>3 DEF Types, Tables, EndedForGood
  <2>2. g.sid \in Made /\ Done(g.sid)
        BY <1>0, <2>1 DEF Types, Tables, IssuedGrants, Named
  <2>3. ~(At(r, "rotate") /\ g.sid = req[r].given.sid)
        BY <1>0, <1>3 DEF Rightly
  <2> QED BY <1>0, <2>1, <2>2, <2>3, SessionChange
<1> QED BY <1>1, <1>2, <1>3

(* No token is ahead of its user, or of the secrets.                        *)
LEMMA NotAheadStep == ASSUME RInv, NEW r \in Reqs, Steps(r) PROVE NotAhead'
<1>0. /\ Base /\ Rightly(r) /\ Living(r) /\ Types /\ key \in Nat
      /\ req[r] \in Calls /\ req[r].pc \in PcsOf(req[r].op)
      BY Now DEF RInv, Base, Types, Tables
<1> SUFFICES ASSUME NEW g \in issued'
             PROVE  /\ Version(g) <= users'[g.user].tv /\ g.key <= key'
                    /\ g.sid # None => g.tv # None
    BY DEF NotAhead
<1>1. CASE g \in issued
      BY <1>1, VersionsKept DEF RInv, NotAhead
<1>2. CASE g \notin issued /\ At(r, "saveuser")
  <2>1. /\ g.user = req[r].who /\ g.tv = req[r].user.tv /\ g.key = req[r].key
        BY <1>0, <1>2, NewGrants DEF Grant, At
  <2>2. HoldsRow(req[r]) /\ req[r].op \notin Enders
    <3>1. req[r].op \in Issues
          BY <1>0, <1>2, OpsAt DEF At
    <3> QED BY <1>2, <3>1, EndersAre DEF At, HoldsRow
  <2>3. req[r].user.tv = users[req[r].who].tv /\ req[r].user.tv \in Nat /\ req[r].key <= key
        BY <1>0, <2>2 DEF Rightly, Living
  <2>4. key' = key /\ users'[req[r].who].tv = req[r].user.tv
        BY <1>0, <1>2, <2>3, Frame, UserWrites DEF At, Writes
  <2>5. Version(g) = req[r].user.tv /\ g.tv # None
        BY <2>1, <2>3 DEF Version, None
  <2> QED BY <2>1, <2>3, <2>4, <2>5
<1>3. CASE g \notin issued /\ At(r, "rotate")
  <2>1. /\ g.user = req[r].who /\ g.tv = req[r].user.tv /\ g.key = req[r].key
        BY <1>0, <1>3, NewGrants DEF Grant, At
  <2>2. Looked(req[r])
    <3>1. req[r].op \in Racing
          BY <1>0, <1>3, OpsAt DEF At
    <3> QED BY <1>3, <3>1 DEF At, Looked
  <2>3. req[r].user.tv <= users[req[r].who].tv /\ req[r].user.tv \in Nat /\ req[r].key <= key
        BY <1>0, <2>2 DEF Rightly, Living
  <2>4. key' = key /\ users' = users
        BY <1>3, Frame DEF At, UserPcs
  <2>5. Version(g) = req[r].user.tv /\ g.tv # None
        BY <2>1, <2>3 DEF Version, None
  <2> QED BY <2>1, <2>3, <2>4, <2>5
<1> QED BY <1>0, <1>1, <1>2, <1>3, NewGrants
(* What a refresh and what an ender of tokens can do to the tables.         *)
LEMMA RacingFrame ==
  ASSUME RInv, NEW r \in Reqs, Steps(r), req[r].op \in Racing
  PROVE  /\ req[r].pc \in {"find", "rsession", "rotate", "revfind", "revsave", "replay"}
         /\ req[r].pc # "replay" => users' = users
         /\ req[r].pc \notin {"rotate", "revsave"} => sessions' = sessions
         /\ req[r].pc # "rotate" => issued' = issued
         /\ key' = key
         /\ \A s \in Made : sessions'[s].user = sessions[s].user
<1>1. Base /\ req[r].pc \in PcsOf(req[r].op)
      BY Now DEF RInv, Base
<1>2. req[r].pc \in {"find", "rsession", "rotate", "revfind", "revsave", "replay"}
      BY <1>1 DEF PcsOf, Racing
<1> QED BY <1>1, <1>2, Frame, SessionOwners DEF UserPcs, SessionPcs

LEMMA EnderFrame ==
  ASSUME RInv, NEW r \in Reqs, Steps(r), req[r].op \in Enders
  PROVE  /\ issued' = issued
         /\ \A s \in Made : /\ sessions'[s].user = sessions[s].user
                            /\ sessions[s].revoked => sessions'[s].revoked
         /\ users' # users => Pending(req[r]) /\ users'[req[r].who].tv = req[r].user.tv
<1>1. Base /\ req[r].pc \in PcsOf(req[r].op) /\ req[r].op \in OpNames
      /\ sessions \in [Made -> SessionRows]
      BY Now DEF RInv, Base, Types, Tables
<1>2. req[r].pc \notin {"session", "jti", "saveuser", "rotate", "insert"}
      BY <1>1, OpsAt, EndersAre, Now DEF Issues, RInv, Base
<1>3. issued' = issued
      BY <1>2, Frame
<1>4. ASSUME NEW s \in Made
      PROVE  /\ sessions'[s].user = sessions[s].user
             /\ sessions[s].revoked => sessions'[s].revoked
  <2>1. CASE req[r].pc = "revsave"
    <3>1. RevokeSave(r)
          BY <2>1, StepAt DEF At
    <3> QED BY <1>1, <3>1 DEF RevokeSave, Revoked, SessionRows
  <2>2. CASE req[r].pc = "logout"
    <3>1. LogoutSave(r) /\ req[r].sess \in SessionRows
          BY <1>1, <2>2, StepAt, Now DEF At, Base
    <3>2. sessions[s].revoked => sessions'[s].revoked
          BY <1>1, <3>1 DEF LogoutSave, Revoked, SessionRows
    <3> QED BY <1>1, <2>2, <3>2, SessionOwners
  <2> QED BY <1>2, <2>1, <2>2, Frame DEF SessionPcs
<1>5. users' # users => Pending(req[r]) /\ users'[req[r].who].tv = req[r].user.tv
  <2>1. ASSUME users' # users PROVE Writes(r)
        BY <1>1, <2>1, UserWrites
  <2>2. ~Looked(req[r])
        BY EndersAre DEF Looked
  <2> QED BY <1>2, <2>1, <2>2, WriteSorts
<1> QED BY <1>3, <1>4, <1>5

(* Once every session of a user is revoked, a refresh finds it so.          *)
LEMMA SpentKept ==
  ASSUME RInv, NEW r \in Reqs, Steps(r), req[r].op \in Racing, NEW n \in Names, Spent(n)
  PROVE  Spent(n)'
<1>0. Base /\ Others(r) /\ sessions \in [Made -> SessionRows] /\ AllRevoked(n) /\ Types
      BY StepTurn DEF RInv, Base, Turn, Types, Tables, Spent
<1>w. req[r].op \in WithSession /\ req[r].given.sid # None
      BY <1>0, Now DEF Racing, WithSession, Sound
<1>g. req[r].given.sid \in Made /\ sessions[req[r].given.sid].user = req[r].who
      BY <1>0, <1>w, GivenNamed
<1>1. AllRevoked(n)'
  <2> SUFFICES ASSUME NEW s \in Made, sessions'[s].user = n PROVE sessions'[s].revoked
      BY DEF AllRevoked
  <2>1. sessions[s].user = n /\ sessions[s].revoked
        BY <1>0, RacingFrame DEF AllRevoked
  <2>2. CASE req[r].pc = "revsave"
    <3>1. RevokeSave(r)
          BY <2>2, StepAt DEF At
    <3> QED BY <1>0, <2>1, <3>1 DEF RevokeSave, Revoked, SessionRows
  <2>3. CASE req[r].pc = "rotate"
    <3>1. Rotate(r) /\ req[r].who # n
          BY <2>3, StepAt DEF At, Spent
    <3>2. s # req[r].given.sid
          BY <1>g, <2>1, <3>1
    <3> QED BY <1>0, <2>1, <3>1, <3>2 DEF Rotate
  <2> QED BY <2>1, <2>2, <2>3, RacingFrame
<1>2. ASSUME NEW q \in Reqs, req'[q].op \in Racing, req'[q].who = n
      PROVE  req'[q].pc \in {"find", "rsession"}
  <2>1. CASE q # r
        BY <1>0, <1>2, <2>1 DEF Others, Spent
  <2>2. CASE q = r
    <3>1. req'[r] # Over
          BY <1>2, <2>2, OverHolds DEF Racing
    <3>2. req[r].who = n /\ req[r].pc \in {"find", "rsession"}
          BY <1>0, <1>2, <2>2, <3>1, RacingStep DEF Spent
    <3>3. sessions[req[r].given.sid].revoked
          BY <1>0, <1>g, <3>2 DEF AllRevoked
    <3> QED BY <1>0, <2>2, <3>1, <3>2, <3>3, RacingStep
  <2> QED BY <2>1, <2>2
<1> QED BY <1>1, <1>2 DEF Spent

(* A refresh under way while a step ends tokens.                            *)
LEMMA RefreshWhileEnding ==
  ASSUME RInv, NEW q \in Reqs, NEW r \in Reqs, Steps(r), q # r,
         req[q].op \in Racing, req[r].op \in Enders
  PROVE  Rightly(q)'
<1>0. Base /\ Rightly(q) /\ Living(q) /\ req'[q] = req[q] /\ req[q].who \in Names /\ Types
      BY StepTurn, Now DEF RInv, Base, Turn, Others
<1>1. ~HoldsRow(req[q]) /\ ~Pending(req[q]) /\ ~Passed(req[q])
      BY <1>0, Kinds
<1>2. ASSUME Looked(req[q])
      PROVE  /\ \A g \in issued : g.user = req[q].who => Version(g) <= req[q].user.tv
             /\ req[q].user.tv <= users'[req[q].who].tv
  <2>1. /\ \A g \in Owned(req[q]) : Version(g) <= req[q].user.tv
        /\ req[q].user.tv <= users[req[q].who].tv /\ req[q].user.tv \in Nat
        BY <1>0, <1>2 DEF Rightly, Living
  <2>2. \/ users'[req[q].who] = users[req[q].who]
        \/ /\ Pending(req[r]) /\ req[r].who = req[q].who
           /\ users'[req[q].who].tv = req[r].user.tv
        BY <1>0, EnderFrame, UserWrites
  <2>3. Pending(req[r]) => users[req[r].who].tv <= req[r].user.tv /\ req[r].user.tv \in Nat
        BY DEF RInv, Rightly, Living
  <2>4. users[req[q].who].tv \in Nat
    <3>1. users[req[q].who].tv \in Nat
          BY <1>0, GivenLives DEF Racing, WithSession
    <3> QED BY <3>1
  <2> QED BY <2>1, <2>2, <2>3, <2>4 DEF Owned
<1>3. ASSUME At(q, "revsave"), NEW s \in Made, sessions'[s].user = req[q].who
      PROVE  s \in req[q].found
      BY <1>0, <1>3, EnderFrame DEF Rightly
<1>4. ASSUME At(q, "replay"), NEW s \in Made, sessions'[s].user = req[q].who
      PROVE  sessions'[s].revoked
      BY <1>0, <1>4, EnderFrame DEF Rightly, AllRevoked
<1>5. ASSUME At(q, "rotate"), NEW g \in dead', g.sid = req[q].given.sid
      PROVE  g.key < key' \/ Version(g) < users'[g.user].tv
  <2>1. CASE g \in dead
        BY <1>0, <1>5, <2>1, VersionsKept DEF Rightly, Types, Tables
  <2>2. CASE g \notin dead
    <3>1. req[r].op # "logoutall"
          BY EndersAre
    <3>2. Undone(g.sid)
          BY <1>5 DEF Undone
    <3> QED BY <2>2, <3>1, <3>2, NewDead
  <2> QED BY <2>1, <2>2
<1> QED BY <1>0, <1>1, <1>2, <1>3, <1>4, <1>5, EnderFrame DEF Rightly, Owned, At, AllRevoked, Outdated
(* What ends tokens, under way while a refresh takes a step.                *)
LEMMA EndingWhileRefresh ==
  ASSUME RInv, RacesOnly, NEW q \in Reqs, NEW r \in Reqs, Steps(r), q # r, Busy(q), Busy(r),
         req[q].op \in Enders, req[r].op \in Racing
  PROVE  Rightly(q)'
<1>0. /\ Base /\ Rightly(q) /\ Rightly(r) /\ Living(q) /\ Living(r) /\ req'[q] = req[q] /\ Others(r)
      /\ req[q].who \in Names /\ Types /\ req[q].pc \in PcsOf(req[q].op) /\ req[q] \in Calls
      /\ req[q].old \subseteq issued
      BY StepTurn, Now DEF RInv, Base, Turn, Others, Sound
<1>1. req[q].op \notin Racing /\ ~Looked(req[q]) /\ req[q].pc \notin {"replay", "rotate"}
      BY <1>0, OpsAt, EndersAre DEF Looked
<1>2. /\ HoldsRow(req[r]) = FALSE
      /\ req[r].pc # "find" => Looked(req[r])
      BY <1>0, Kinds DEF Looked
<1>w. \/ users'[req[q].who] = users[req[q].who]
      \/ /\ req[r].pc = "replay" /\ req[r].who = req[q].who
         /\ users'[req[q].who].tv = req[r].user.tv + 1
  <2>1. ASSUME users' # users
        PROVE  req[r].pc = "replay" /\ users'[req[r].who].tv = req[r].user.tv + 1
        BY <1>0, <2>1, RacingFrame, UserWrites DEF Writes
  <2> QED BY <1>0, <2>1, UserWrites
<1>l. Looked(req[r]) => /\ \A g \in Owned(req[r]) : Version(g) <= req[r].user.tv
                        /\ req[r].user.tv \in Nat
      BY <1>0 DEF Rightly, Living
<1>3. ASSUME Passed(req[q]), NEW g \in req[q].old, g.user = req[q].who
      PROVE  Version(g) < users'[g.user].tv
  <2>1. g \in issued /\ Version(g) < users[g.user].tv
        BY <1>0, <1>3 DEF Rightly
  <2>2. CASE req[r].pc = "replay" /\ req[r].who = req[q].who
    <3>1. Version(g) <= req[r].user.tv /\ req[r].user.tv \in Nat /\ Version(g) \in Nat
          BY <1>2, <1>3, <1>l, <2>1, <2>2, GrantFacts DEF Owned
    <3> QED BY <1>3, <1>w, <2>1, <3>1
  <2> QED BY <1>3, <1>w, <2>1, <2>2
<1>4. ASSUME Pending(req[q])
      PROVE  /\ \A g \in issued' : g.user = req[q].who => Version(g) < req[q].user.tv
             /\ users'[req[q].who].tv <= req[q].user.tv
             /\ users'[req[q].who].tv < req[q].user.tv \/ Spent(req[q].who)'
             /\ \A p \in Reqs : Looked(req'[p]) /\ req'[p].who = req[q].who
                  => req'[p].user.tv < req[q].user.tv \/ Spent(req[q].who)'
  <2>0. /\ \A g \in Owned(req[q]) : Version(g) < req[q].user.tv
        /\ users[req[q].who].tv <= req[q].user.tv
        /\ users[req[q].who].tv < req[q].user.tv \/ Spent(req[q].who)
        /\ \A p \in Reqs : Looked(req[p]) /\ req[p].who = req[q].who
             => req[p].user.tv < req[q].user.tv \/ Spent(req[q].who)
        /\ req[q].user.tv \in Nat
        BY <1>0, <1>4 DEF Rightly, Living
  <2>k. Spent(req[q].who) => Spent(req[q].who)'
        BY <1>0, SpentKept
  <2>h. req[r].who = req[q].who /\ req[r].pc \notin {"find", "rsession"} => ~Spent(req[q].who)
        BY DEF Spent
  <2>1. ASSUME NEW g \in issued', g.user = req[q].who PROVE Version(g) < req[q].user.tv
    <3>1. CASE g \in issued
          BY <2>0, <2>1, <3>1 DEF Owned
    <3>2. CASE g \notin issued
      <4>1. req[r].pc = "rotate" /\ g.user = req[r].who /\ g.tv = req[r].user.tv
            BY <1>0, <3>2, RacingFrame, NewGrants DEF At, Grant
      <4>2. Version(g) = req[r].user.tv
            BY <1>2, <1>l, <4>1 DEF Version, None
      <4> QED BY <1>2, <2>0, <2>1, <2>h, <4>1, <4>2
    <3> QED BY <3>1, <3>2
  <2>2. CASE req[r].pc = "replay" /\ req[r].who = req[q].who
    <3>1. req[r].user.tv < req[q].user.tv /\ req[r].user.tv \in Nat
          BY <1>2, <1>l, <2>0, <2>2, <2>h
    <3>2. AllRevoked(req[q].who)
          BY <1>0, <2>2 DEF Rightly, At
    <3>3. sessions' = sessions
          BY <2>2, RacingFrame
    <3>4. ASSUME NEW p \in Reqs, req'[p].op \in Racing, req'[p].who = req[q].who
          PROVE  FALSE
      <4>1. req'[r] = Over
            BY <1>0, <2>2, StepAt, ReplayTurn DEF At
      <4>2. p # r /\ p # q
            BY <1>0, <1>1, <3>4, <4>1, OverHolds DEF Racing
      <4>3. req[p].op \in Racing
            BY <1>0, <3>4, <4>2 DEF Others
      <4>4. Busy(p)
            BY <1>0, <4>3, Now DEF Busy, PcsOf, Racing
      <4>5. req[p].op \in Enders \/ req[r].op \in Enders
            BY <1>0, <4>2, <4>4, Overlapping
      <4> QED BY <4>3, <4>5, EndersAre
    <3>5. Spent(req[q].who)'
          BY <1>0, <3>2, <3>3, <3>4 DEF Spent, AllRevoked
    <3> QED BY <1>w, <2>0, <2>1, <3>1, <3>5
  <2>3. CASE ~(req[r].pc = "replay" /\ req[r].who = req[q].who)
    <3>1. users'[req[q].who] = users[req[q].who]
          BY <1>w, <2>3
    <3>2. ASSUME NEW p \in Reqs, Looked(req'[p]), req'[p].who = req[q].who
          PROVE  req'[p].user.tv < req[q].user.tv \/ Spent(req[q].who)
      <4>1. CASE p # r
            BY <1>0, <2>0, <3>2, <4>1 DEF Others
      <4>2. CASE p = r
        <5>1. req'[r] # Over
              BY <3>2, <4>2, OverHolds
        <5>2. CASE req[r].pc = "find"
          <6>1. req'[r].user = users[req[r].who] /\ req'[r].who = req[r].who
                BY <1>0, <5>1, <5>2, RacingStep
          <6> QED BY <2>0, <3>2, <4>2, <6>1
        <5>3. CASE req[r].pc # "find"
          <6>1. req'[r].user = req[r].user /\ req'[r].who = req[r].who
                BY <1>0, <5>1, <5>3, RacingStep
          <6> QED BY <1>2, <2>0, <3>2, <4>2, <5>3, <6>1
        <5> QED BY <5>2, <5>3
      <4> QED BY <4>1, <4>2
    <3> QED BY <2>0, <2>1, <2>k, <3>1, <3>2
  <2> QED BY <2>2, <2>3
<1>5. ASSUME At(q, "revsave"), NEW s \in Made, sessions'[s].user = req[q].who
      PROVE  s \in req[q].found
      BY <1>0, <1>5, RacingFrame DEF Rightly
<1>6. ~(HoldsRow(req[q]) /\ req[q].op \notin Enders)
      OBVIOUS
<1>7. req'[q] = req[q]
      BY <1>0
<1> QED BY <1>1, <1>3, <1>4, <1>5, <1>7 DEF Rightly, Owned, At
(* What a request knows after its own step.                                 *)
LEMMA HoldsAfter ==
  ASSUME RInv, NEW r \in Reqs, Steps(r), req'[r] # Over, HoldsRow(req'[r]), req'[r].op \notin Enders
  PROVE  req'[r].user.tv = users'[req'[r].who].tv
<1>0. /\ Base /\ Rightly(r) /\ req'[r].op = req[r].op /\ req'[r].pc \in Nexts(req[r].pc)
      /\ req[r].pc \in Pcs /\ req[r] \in Calls /\ users[req[r].who] \in Rows /\ req[r].user \in Rows
      /\ Types
      BY StepGoes, Now DEF Goes, RInv, Base, Calls
<1>1. req'[r].who = req[r].who
      BY StepGoes, <1>0 DEF Goes, Nexts, HoldsRow
<1>2. CASE Keeps(r)
  <2>1. HoldsRow(req[r])
        BY <1>0, <1>2, KeptHeld
  <2>2. req[r].pc \notin {"saveuser", "badlegacy", "legacyout", "save", "replay"}
        BY <1>0 DEF Nexts, HoldsRow
  <2>3. users' = users
        BY <1>2, <2>2, Frame DEF UserPcs, Keeps
  <2> QED BY <1>0, <1>1, <1>2, <2>1, <2>3 DEF Keeps, Rightly
<1>3. CASE Finds(r)
  <2>1. req[r].op \in {"profile", "begin2fa"}
        BY <1>0, <1>3 DEF Finds, HoldsRow, Then
  <2>2. req'[r].user.tv = users[req[r].who].tv
        BY <1>0, <1>3, <2>1, ChangedTyped DEF Finds, Bumps
  <2> QED BY <1>1, <1>3, <2>2 DEF Finds
<1> QED BY <1>0, <1>1, <1>2, <1>3, RowHeld DEF Reads, Upgrades, Adds

LEMMA LookedAfter ==
  ASSUME RInv, NEW r \in Reqs, Steps(r), req'[r] # Over, Looked(req'[r])
  PROVE  /\ \A g \in issued' : g.user = req'[r].who => Version(g) <= req'[r].user.tv
         /\ req'[r].user.tv <= users'[req'[r].who].tv
<1>0. Base /\ Rightly(r) /\ Types /\ users[req[r].who].tv \in Nat \cup {None}
      BY Now DEF RInv, Base, Rows
<1>1. req[r].op \in Racing
      BY <1>0, StepGoes DEF Goes, Looked
<1>2. req[r].pc \notin {"replay", "rotate"} /\ req'[r].who = req[r].who
      BY <1>0, <1>1, RacingStep
<1>3. users' = users /\ issued' = issued
      BY <1>1, <1>2, RacingFrame
<1>4. CASE req[r].pc = "find"
  <2>1. req'[r].user = users[req[r].who]
        BY <1>0, <1>1, <1>4, RacingStep
  <2>2. users[req[r].who].tv \in Nat
        BY <1>1, GivenLives DEF Racing, WithSession
  <2> QED BY <1>2, <1>3, <2>1, <2>2, GrantFacts
<1>5. CASE req[r].pc # "find"
  <2>1. Looked(req[r]) /\ req'[r].user = req[r].user
        BY <1>0, <1>1, <1>5, RacingStep DEF Looked
  <2> QED BY <1>0, <1>2, <1>3, <2>1 DEF Rightly, Owned
<1> QED BY <1>4, <1>5

LEMMA PendingAfter ==
  ASSUME RInv, NEW r \in Reqs, Steps(r), req'[r] # Over, Pending(req'[r])
  PROVE  LET d == req'[r] IN
         /\ \A g \in issued' : g.user = d.who => Version(g) < d.user.tv
         /\ users'[d.who].tv <= d.user.tv
         /\ users'[d.who].tv < d.user.tv \/ Spent(req[r].who)'
         /\ \A q \in Reqs : Looked(req'[q]) /\ req'[q].who = d.who
              => req'[q].user.tv < d.user.tv \/ Spent(req[r].who)'
<1>0. /\ Base /\ Rightly(r) /\ req'[r].op = req[r].op /\ req'[r].pc \in Nexts(req[r].pc)
      /\ req[r].pc \in Pcs /\ req[r] \in Calls /\ users[req[r].who] \in Rows /\ Types /\ Others(r)
      BY StepTurn, StepGoes, Now DEF Goes, RInv, Base, Turn
<1>1. req'[r].who = req[r].who
      BY StepGoes, <1>0 DEF Goes, Nexts, Pending
<1>2. req[r].op \in Bumps /\ req[r].op \notin Racing
      BY <1>0 DEF Pending, Bumps, Racing
<1>3. req[r].pc \in {"find", "delcodes"} /\ (req[r].pc = "find" => Finds(r))
                                         /\ (req[r].pc = "delcodes" => Keeps(r))
  <2>1. ~Reads(r) /\ ~Upgrades(r) /\ ~Adds(r)
        BY DEF Reads, Upgrades, Adds, Pending
  <2>2. req[r].pc \in {"find", "delcodes", "codes"}
        BY <1>0 DEF Nexts, Pending, Pcs
  <2>3. req[r].pc # "codes"
        BY <1>0 DEF Nexts
  <2> QED BY <1>0, <2>1, <2>2, <2>3, RowHeld DEF Keeps, Finds, Find, At, Pending
<1>4. users' = users /\ sessions' = sessions /\ issued' = issued
      BY <1>3, Frame DEF UserPcs, SessionPcs
<1>5. CASE req[r].pc = "find"
  <2>1. req'[r].user.tv = users[req[r].who].tv + 1 /\ users[req[r].who].tv \in Nat
        BY <1>0, <1>2, <1>3, <1>5, ChangedTyped, ReadLives DEF Finds
  <2>2. ASSUME NEW q \in Reqs, Looked(req'[q]), req'[q].who = req'[r].who
        PROVE  req'[q].user.tv < req'[r].user.tv
    <3>1. q # r
          BY <1>0, <1>2, <2>2 DEF Looked
    <3>2. Looked(req[q]) /\ req'[q] = req[q] /\ req[q].who = req[r].who
          BY <1>0, <1>1, <2>2, <3>1 DEF Others
    <3>3. req[q].user.tv <= users[req[q].who].tv /\ req[q].user.tv \in Nat
          BY <3>2 DEF RInv, Rightly, Living
    <3> QED BY <2>1, <3>2, <3>3
  <2> QED BY <1>1, <1>4, <2>1, <2>2, GrantFacts
<1>6. CASE req[r].pc = "delcodes"
  <2>1. Pending(req[r]) /\ req'[r].user = req[r].user
        BY <1>0, <1>3, <1>6, KeptHeld DEF Keeps
  <2>2. Spent(req[r].who) => Spent(req[r].who)'
    <3>1. \A q \in Reqs : req'[q].op \in Racing => req'[q] = req[q]
          BY <1>0, <1>2 DEF Others
    <3> QED BY <1>1, <1>4, <3>1 DEF Spent, AllRevoked
  <2>3. \A q \in Reqs : Looked(req'[q]) => req'[q] = req[q]
        BY <1>0, <1>2 DEF Others, Looked
  <2> QED BY <1>0, <1>1, <1>4, <2>1, <2>2, <2>3 DEF Rightly, Owned
<1> QED BY <1>3, <1>5, <1>6

LEMMA PassedAfter ==
  ASSUME RInv, NEW r \in Reqs, Steps(r), req'[r] # Over, Passed(req'[r]),
         NEW g \in req'[r].old, g.user = req'[r].who
  PROVE  Version(g) < users'[g.user].tv
<1>0. /\ Base /\ Rightly(r) /\ req'[r].op = req[r].op /\ req'[r].pc \in Nexts(req[r].pc)
      /\ req[r].pc \in Pcs /\ req[r] \in Calls /\ Types /\ req[r].pc \in PcsOf(req[r].op)
      /\ req'[r].old = req[r].old /\ req[r].old \subseteq issued
      /\ users \in [Names -> Rows] /\ req[r].who \in Names /\ req[r].user \in Rows
      BY StepGoes, Now DEF Goes, RInv, Base, Sound, Types, Tables
<1>1. req'[r].who = req[r].who
      BY StepGoes, <1>0 DEF Goes, Nexts, Passed
<1>2. req[r].op \in Bumps
      BY <1>0 DEF Passed
<1>3. req[r].pc # "find"
  <2>1. ASSUME req[r].pc = "find" PROVE FALSE
    <3>1. Find(r)
          BY <1>2, <2>1, StepAt DEF At, Bumps, LoginFind, RefreshUser, Refreshing, LogoutFind
    <3>2. req'[r].pc = Then(req[r])
      <4> DEFINE u == Changed(r, req[r], users[req[r].who])
      <4>1. req'[r] = [req[r] EXCEPT !.user = u, !.pc = Then(req[r])]
            BY <1>0, <3>1, FindTurn
      <4> HIDE DEF u
      <4> QED BY <1>0, <4>1 DEF Calls
    <3> QED BY <3>2 DEF Then, Passed
  <2> QED BY <2>1
<1>4. req[r].pc # "delcodes"
  <2>1. ASSUME req[r].pc = "delcodes" PROVE FALSE
    <3>1. DeleteCodes(r)
          BY <2>1, StepAt DEF At
    <3>2. req'[r] = [req[r] EXCEPT !.pc = "save"]
          BY <1>0, <1>2, <3>1 DEF DeleteCodes, To, Types, Bumps
    <3>3. req'[r].pc = "save"
          BY <1>0, <3>2 DEF Calls
    <3> QED BY <3>3 DEF Passed
  <2> QED BY <2>1
<1>5. req[r].pc \in {"save", "revfind", "revsave"}
  <2>1. req[r].pc \notin {"legacyout", "rsession"}
        BY <1>0, <1>2, OpsAt DEF Bumps, Racing
  <2> QED BY <1>0, <1>3, <1>4, <2>1 DEF Nexts, Passed, Pcs
<1>6. CASE req[r].pc = "save"
  <2>1. SaveUser(req[r].who, req[r].user)
        BY <1>2, <1>6, StepAt DEF At, Save, Bumps
  <2>2. users'[req[r].who].tv = req[r].user.tv
        BY <1>0, <2>1, UserSaved
  <2>3. g \in Owned(req[r]) /\ Pending(req[r])
        BY <1>0, <1>1, <1>2, <1>6 DEF Owned, Pending
  <2> QED BY <1>0, <1>1, <2>2, <2>3 DEF Rightly
<1>7. CASE req[r].pc # "save"
  <2>1. users' = users /\ Passed(req[r])
        BY <1>2, <1>5, <1>7, Frame DEF UserPcs, Passed
  <2> QED BY <1>0, <1>1, <2>1 DEF Rightly
<1> QED BY <1>6, <1>7
LEMMA SessionsAfter ==
  ASSUME RInv, NEW r \in Reqs, Steps(r), req'[r] # Over
  PROVE  /\ req'[r].pc = "revsave" =>
              \A s \in Made : sessions'[s].user = req'[r].who => s \in req'[r].found
         /\ req'[r].pc = "replay" =>
              \A s \in Made : sessions'[s].user = req'[r].who => sessions'[s].revoked
         /\ req'[r].pc = "rotate" =>
              \A g \in dead' : g.sid = req'[r].given.sid
                 => g.key < key' \/ Version(g) < users'[g.user].tv
<1>0. /\ Base /\ Rightly(r) /\ req'[r].op = req[r].op /\ req'[r].pc \in Nexts(req[r].pc)
      /\ req[r].pc \in Pcs /\ req[r] \in Calls /\ Types /\ Types' /\ req[r].pc \in PcsOf(req[r].op)
      /\ sessions \in [Made -> SessionRows]
      BY StepTurn, StepGoes, Now DEF Goes, RInv, Base, Turn, Types, Tables
<1>1. ASSUME req'[r].pc \in {"revsave", "replay", "rotate"}
      PROVE  req'[r].who = req[r].who
      BY StepGoes, <1>0, <1>1 DEF Goes, Nexts
<1>p. req'[r] \in Calls /\ req'[r].pc \in PcsOf(req'[r].op)
      BY <1>0 DEF Types, Sound
<1>2. ASSUME req'[r].pc = "revsave", NEW s \in Made, sessions'[s].user = req'[r].who
      PROVE  s \in req'[r].found
  <2>1. req[r].pc \in {"revfind", "revsave"}
        BY <1>0, <1>2 DEF Nexts
  <2>2. CASE Onward(r)
    <3>1. \E p \in {"replay", "useReset", "codes"} : Left(r, p)
          BY <2>2 DEF Onward
    <3>2. ASSUME NEW p, Left(r, p) PROVE req'[r].pc = p
          BY <1>0, <3>2 DEF Left, Calls
    <3> QED BY <1>2, <3>1, <3>2
  <2>3. CASE req[r].pc = "revfind" /\ req'[r] = [req[r] EXCEPT !.found = Theirs(r), !.pc = "revsave"]
    <3> DEFINE t == Theirs(r)
    <3>1. req'[r] = [req[r] EXCEPT !.found = t, !.pc = "revsave"]
          BY <2>3
    <3>2. sessions' = sessions
          BY <2>3, Frame DEF SessionPcs
    <3>3. s \in t
          BY <1>1, <1>2, <3>2 DEF Theirs
    <3> HIDE DEF t
    <3>4. req'[r].found = t
          BY <1>0, <3>1 DEF Calls
    <3> QED BY <3>3, <3>4
  <2> QED BY <1>0, <2>1, <2>2, <2>3, StepAt, RevokeFindTurn, RevokeSaveTurn DEF At, Theirs
<1>3. ASSUME req'[r].pc = "replay", NEW s \in Made, sessions'[s].user = req'[r].who
      PROVE  sessions'[s].revoked
  <2>1. req[r].op \in Racing
        BY <1>0, <1>3, <1>p, OpsAt
  <2>2. CASE req[r].pc = "revfind"
    <3>1. sessions' = sessions /\ Theirs(r) = {}
          BY <1>0, <1>3, <2>1, <2>2, Frame, RacingStep DEF SessionPcs
    <3> QED BY <1>1, <1>3, <3>1 DEF Theirs
  <2>3. CASE req[r].pc = "revsave"
    <3>1. RevokeSave(r) /\ sessions[s].user = req[r].who
          BY <1>1, <1>3, <2>1, <2>3, StepAt, RacingFrame DEF At
    <3>2. s \in req[r].found
          BY <1>0, <2>3, <3>1 DEF Rightly, At
    <3> QED BY <1>0, <3>1, <3>2 DEF RevokeSave, Revoked, SessionRows
  <2> QED BY <1>0, <1>3, <2>1, <2>2, <2>3, RacingStep
<1>4. ASSUME req'[r].pc = "rotate", NEW g \in dead', g.sid = req'[r].given.sid
      PROVE  g.key < key' \/ Version(g) < users'[g.user].tv
  <2>1. req[r].op \in Racing
        BY <1>0, <1>4, <1>p, OpsAt
  <2>2. req[r].pc = "rsession" /\ ~sessions[g.sid].revoked
        BY <1>0, <1>4, <2>1, RacingStep
  <2>3. dead' = dead /\ users' = users /\ key' = key
        BY <2>2, Frame DEF EndPcs, UserPcs
  <2> QED BY <1>4, <2>2, <2>3 DEF RInv, EndedForGood, Outdated
<1> QED BY <1>2, <1>3, <1>4

(* What every request knows stays true, whoever takes a step.               *)
LEMMA RightlyStep ==
  ASSUME RInv, RacesOnly, NEW r \in Reqs, Steps(r), NEW q \in Reqs
  PROVE  Rightly(q)'
<1>0. Base /\ Others(r) /\ Busy(r) /\ Types /\ Types'
      BY StepTurn, StepAt DEF RInv, Base, Turn, Busy
<1>1. ASSUME NEW c, req'[q] = c, ~HoldsRow(c), ~Looked(c), ~Pending(c), ~Passed(c),
             c.pc \notin {"revsave", "replay", "rotate"}
      PROVE  Rightly(q)'
      BY <1>1 DEF Rightly, At
<1>2. CASE q # r /\ ~Busy(q)
  <2>1. req'[q] = req[q] /\ req[q].pc \in {"idle", "over"}
        BY <1>0, <1>2 DEF Others, Busy
  <2> QED BY <1>0, <1>1, <1>2, <2>1, Kinds
<1>3. CASE q # r /\ Busy(q)
      BY <1>0, <1>3, Overlapping, RefreshWhileEnding, EndingWhileRefresh
<1>4. CASE q = r /\ req'[r] = Over
      BY <1>1, <1>4, OverHolds
<1>5. CASE q = r /\ req'[r] # Over
  <2>1. /\ HoldsRow(req'[r]) /\ req'[r].op \notin Enders => req'[r].user.tv = users'[req'[r].who].tv
        BY <1>5, HoldsAfter
  <2>2. Looked(req'[r]) => /\ \A g \in issued' : g.user = req'[r].who => Version(g) <= req'[r].user.tv
                           /\ req'[r].user.tv <= users'[req'[r].who].tv
        BY <1>5, LookedAfter
  <2>3. Pending(req'[r]) =>
           /\ \A g \in issued' : g.user = req'[r].who => Version(g) < req'[r].user.tv
           /\ users'[req'[r].who].tv <= req'[r].user.tv
           /\ users'[req'[r].who].tv < req'[r].user.tv \/ Spent(req[r].who)'
           /\ \A p \in Reqs : Looked(req'[p]) /\ req'[p].who = req'[r].who
                => req'[p].user.tv < req'[r].user.tv \/ Spent(req[r].who)'
        BY <1>5, PendingAfter
  <2>4. Passed(req'[r]) => \A g \in req'[r].old : g.user = req'[r].who => Version(g) < users'[g.user].tv
        BY <1>5, PassedAfter
  <2> QED BY <1>5, <2>1, <2>2, <2>3, <2>4, SessionsAfter DEF Rightly, Owned, At, AllRevoked, Outdated
<1> QED BY <1>2, <1>3, <1>4, <1>5
(* A request that comes in holds nothing yet.                               *)
LEMMA RBegin ==
  ASSUME RInv, NEW r \in Reqs, At(r, "idle"), Begins(r)
  PROVE  RInv'
<1>0. /\ Base /\ Base' /\ Types' /\ Others(r) /\ Opened(r, req'[r])
      /\ UNCHANGED <<users, sessions, key, issued, dead>>
      /\ key \in Nat
  <2>1. Base /\ Types /\ key \in Nat
        BY DEF RInv, Base, Types, Tables
  <2>2. Opened(r, req'[r]) /\ Turn(r)
        BY <2>1, BeginsTurn
  <2> QED BY <2>1, <2>2, BaseBegin DEF Turn, Opened, tables, ghosts
<1>d. /\ req'[r].pc \in {"check", "insert", "reauth", "token", "find"} /\ req'[r].pc # "insert"
      /\ req'[r].op \in Racing => req'[r].pc = "find"
      /\ req'[r].user = NoUser /\ req'[r].key = None
      /\ req'[r].op = "login" => users[req'[r].who] # NoUser
      /\ req'[r].who \in Names
      BY <1>0 DEF Opened, Opening, Racing, Admins, Types, Calls
<1>h. ~HoldsRow(req'[r]) /\ ~Pending(req'[r]) /\ ~Looked(req'[r]) /\ ~Passed(req'[r])
      BY <1>d DEF HoldsRow, Pending, Looked, Passed
<1>1. UsersKnown' /\ NotAhead' /\ EndedForGood'
      BY <1>0 DEF RInv, UsersKnown, NotAhead, EndedForGood, Outdated
<1>2. ASSUME NEW q \in Reqs PROVE NoPlain(q)' /\ Living(q)' /\ Rightly(q)'
  <2>1. CASE q = r
    <3>1. req'[r].op = "login" => users'[req'[r].who].tv \in Nat
      <4>1. \A n \in Names : users[n] # NoUser => users[n].tv \in Nat
            BY DEF RInv, Base, Types, Tables, Rows, UsersKnown
      <4> QED BY <1>0, <1>d, <4>1
    <3>2. req'[r].user.enc # Plain /\ req'[r].key <= key'
          BY <1>0, <1>d DEF NoUser, None, Plain
    <3> QED BY <1>d, <1>h, <2>1, <3>1, <3>2 DEF NoPlain, Living, Rightly, At
  <2>2. CASE q # r
    <3>1. req'[q] = req[q] /\ NoPlain(q) /\ Living(q) /\ Rightly(q)
          BY <1>0, <2>2 DEF Others, RInv
    <3>2. Spent(req[q].who) => Spent(req[q].who)'
          BY <1>0, <1>d, <3>1 DEF Spent, AllRevoked, Others
    <3>3. \A p \in Reqs : Looked(req'[p]) => Looked(req[p]) /\ req'[p] = req[p]
          BY <1>0, <1>h DEF Others
    <3> QED BY <1>0, <3>1, <3>2, <3>3 DEF NoPlain, Living, Rightly, At, Owned, Outdated, AllRevoked
  <2> QED BY <2>1, <2>2
<1> QED BY <1>0, <1>1, <1>2 DEF RInv

(* A restart leaves no request under way.                                   *)
LEMMA RRestart == ASSUME RInv, Restart PROVE RInv'
<1>0. /\ Base /\ Base' /\ Types
      /\ \A r \in Reqs : req'[r] = Over \/ (At(r, "idle") /\ req'[r] = Idle)
      /\ UNCHANGED <<sessions, key, issued, dead>> /\ key \in Nat
      /\ \A n \in Names : \/ users'[n] = users[n]
                          \/ users[n] # NoUser /\ users'[n] = [users[n] EXCEPT !.admin = TRUE]
      BY BaseRestart, RestartTyped DEF RInv, Base, Types, Tables
<1>1. \A n \in Names : users'[n].tv = users[n].tv /\ users'[n].enc = users[n].enc
                       /\ (users'[n] = users[n] \/ users[n] # NoUser)
      BY <1>0 DEF Types, Tables, Rows
<1>2. UsersKnown'
      BY <1>1 DEF RInv, UsersKnown
<1>3. \A g \in issued : g.user \in Names
      BY <1>0 DEF Types, Tables, IssuedGrants
<1>4. NotAhead' /\ EndedForGood'
      BY <1>0, <1>1, <1>3 DEF RInv, NotAhead, EndedForGood, Outdated, Types, Tables
<1>5. ASSUME NEW q \in Reqs PROVE NoPlain(q)' /\ Living(q)' /\ Rightly(q)'
  <2>1. \A c \in {Over, Idle} :
           /\ ~HoldsRow(c) /\ ~Pending(c) /\ ~Looked(c) /\ ~Passed(c) /\ c.op = "none"
           /\ c.pc \in {"idle", "over"} /\ c.key = None /\ c.user.enc = None
        BY DEF Over, Idle, HoldsRow, Pending, Looked, Passed, Bumps, Racing, NoUser
  <2>2. req'[q] \in {Over, Idle} /\ None <= key' /\ None # Plain
        BY <1>0 DEF None, Plain
  <2> QED BY <2>1, <2>2 DEF NoPlain, Living, Rightly, At
<1> QED BY <1>0, <1>2, <1>4, <1>5 DEF RInv

LEMMA RSame == ASSUME RInv, UNCHANGED vars PROVE RInv'
<1>1. Base'
      BY BaseSame DEF RInv
<1>2. UsersKnown' /\ NotAhead' /\ EndedForGood'
      BY DEF RInv, UsersKnown, NotAhead, EndedForGood, Outdated, vars
<1>3. ASSUME NEW q \in Reqs PROVE NoPlain(q)' /\ Living(q)' /\ Rightly(q)'
  <2>1. Spent(req[q].who) => Spent(req[q].who)'
        BY DEF Spent, AllRevoked, vars
  <2>2. NoPlain(q) /\ Living(q) /\ Rightly(q)
        BY DEF RInv
  <2> QED BY <2>1, <2>2 DEF NoPlain, Living, Rightly, At, Owned, Outdated, AllRevoked, vars
<1> QED BY <1>1, <1>2, <1>3 DEF RInv

LEMMA RInit == ASSUME Init PROVE RInv
<1>1. Base
      BY InitBase
<1>2. key = 0 /\ dead = {}
      BY DEF Init
<1>3. ASSUME NEW enc \in Stored, NEW owner \in {Root, Alice}, Populated(enc, owner)
      PROVE  UsersKnown /\ NotAhead
  <2>1. \A n \in Names : users[n] = NoUser \/ (users[n].tv = 0 /\ users[n].enc = enc)
        BY <1>3 DEF Populated, Account, NoUser
  <2>2. users[Root].tv = 0 /\ users[Alice].tv = 0
        BY <1>3, AuthAssumption DEF Populated, Account, NoUser, Names
  <2>3. UsersKnown
        BY <2>1 DEF UsersKnown, NoUser, None, Plain
  <2>4. \A g \in issued : /\ g.user \in {Root, Alice} /\ g.tv \in {0, None} /\ g.key = 0
                          /\ g.sid # None => g.tv = 0
        BY <1>3 DEF Populated, Grant0
  <2>5. NotAhead
        BY <1>2, <2>2, <2>4 DEF NotAhead, Version, None
  <2> QED BY <2>3, <2>5
<1>5. ASSUME NEW q \in Reqs PROVE NoPlain(q) /\ Living(q) /\ Rightly(q)
      BY <1>2, InitIdle DEF NoPlain, Living, Rightly, At, HoldsRow, Pending, Looked, Passed, Bumps, Racing,
            Idle, NoUser, None, Plain
<1>6. UsersKnown /\ NotAhead
  <2>1. Empty \/ \E enc \in Stored, owner \in {Root, Alice} : Populated(enc, owner)
        BY DEF Init
  <2>2. CASE Empty
        BY <2>2 DEF Empty, UsersKnown, NotAhead, NoUser, None, Plain
  <2> QED BY <1>3, <2>1, <2>2
<1> QED BY <1>1, <1>2, <1>5, <1>6 DEF RInv, EndedForGood

(* Once a password change or reset, a change of two-factor, a rotation of   *)
(* the secrets, a detected replay or a sign-out has answered, no access     *)
(* token handed out before it began is accepted again and no refresh token  *)
(* of a session exchanged, although a refresh may save the session or the   *)
(* user row it had read before (refresh, revokeAllSessionsForUser, logout   *)
(* and changePassword in auth.service.ts).  A sign-out that such a refresh  *)
(* undoes is left out (Undone), and so is the refresh token of the release  *)
(* without sessions.  Only refreshes may overlap what ends tokens, and      *)
(* administrators' confirmations not even those while a two-factor secret   *)
(* may still be stored unencrypted: saving it encrypted writes the whole    *)
(* row back.  A sign-out with a token of that release overlaps nothing.     *)
THEOREM RevocationAlways ==
  ASSUME RacesOnly
  PROVE  Spec => []RevocationHolds
<1>1. ASSUME RInv, [Next]_vars PROVE RInv'
  <2>1. CASE Restart
        BY <1>1, <2>1, RRestart
  <2>2. ASSUME NEW r \in Reqs, At(r, "idle"), Begins(r) PROVE RInv'
        BY <1>1, <2>2, RBegin
  <2>3. ASSUME NEW r \in Reqs, Steps(r) PROVE RInv'
    <3>1. Base'
          BY <1>1, <2>3, BaseStep DEF RInv
    <3>2. UsersKnown' /\ NotAhead' /\ EndedForGood'
          BY <1>1, <2>3, UsersStep, NotAheadStep, EndedStep
    <3>3. \A q \in Reqs : NoPlain(q)' /\ Living(q)' /\ Rightly(q)'
          BY <1>1, <2>3, LivingStep, RightlyStep
    <3> QED BY <3>1, <3>2, <3>3 DEF RInv
  <2> QED BY <1>1, <2>1, <2>2, <2>3, RSame DEF Next
<1>2. RInv => RevocationHolds
  <2> SUFFICES ASSUME RInv PROVE RevocationHolds
      OBVIOUS
  <2>1. TypeOK
        BY TypesOK DEF RInv, Base
  <2>2. ASSUME NEW g \in dead, Accepted(g) PROVE FALSE
    <3>1. g \in issued
          BY DEF RInv, Base, Types, Tables
    <3>2. g.key = key /\ users[g.user].tv = Version(g) /\ (g.sid # None => ~sessions[g.sid].revoked)
          BY <2>2 DEF Accepted, Version
    <3>3. Outdated(g)
          BY <3>2 DEF RInv, EndedForGood
    <3> QED BY <3>1, <3>2, <3>3, GrantFacts DEF Outdated
  <2>3. ASSUME NEW g \in dead, g.sid # None, Exchanged(g) PROVE FALSE
    <3>1. g \in issued /\ g.tv # None
          BY <2>3 DEF RInv, Base, Types, Tables, NotAhead
    <3>2. g.key = key /\ users[g.user].tv = Version(g) /\ ~sessions[g.sid].revoked
          BY <2>3, <3>1 DEF Exchanged, Version
    <3>3. Outdated(g)
          BY <3>2 DEF RInv, EndedForGood
    <3> QED BY <3>1, <3>2, <3>3, GrantFacts DEF Outdated
  <2> QED BY <2>1, <2>2, <2>3 DEF RevocationHolds
<1> QED BY <1>1, <1>2, RInit, PTL DEF Spec
-----------------------------------------------------------------------------
(* Why a code is acted on once, but for crashes.  A token, a code or an     *)
(* invite that is unused in its table, that a request is about to act on,   *)
(* or that a request still under way may create, has been acted on no more  *)
(* often than crashes undid it, unless a request is between act and mark.   *)
SpendersApart ==
  /\ \A a, b \in Coded : {a, b} \notin Overlaps
  /\ {"reset"} \notin Overlaps /\ {"signup"} \notin Overlaps

Spendable(o) ==
  \/ \E b \in backup : ~b.used /\ o = <<"backup", b.by>>
  \/ \E t \in resets : ~t.used /\ o = <<"reset", t.id>>
  \/ invite = None /\ o = <<"invite", Start>>
Coming(o) == \E i \in Reqs : ~At(i, "over") /\ o \in {<<"reset", i>>, <<"backup", i>>}
Resetting(c) == c.op = "reset" /\ c.pc \notin {"token", "idle", "over"}
Spending(c, o) ==
  \/ c.pc = "codesave" /\ o = <<"backup", c.code[2]>>
  \/ c.op = "reset" /\ c.pc \in {"find", "save"} /\ o = <<"reset", c.id>>
  \/ c.op = "signup" /\ c.pc = "insert" /\ o = <<"invite", Start>>

Known(c) ==
  /\ c.pc = "codesave" => Done(c.code[2]) /\ \A b \in backup : b.by = c.code[2] => b.user = c.who
  /\ Resetting(c) => Done(c.id)
Issuers ==
  /\ \A b \in backup : Done(b.by) /\ \A c \in backup : c.by = b.by => c.user = b.user
  /\ \A t \in resets : Done(t.id)
  /\ \A r \in Reqs : Known(req[r])
Counted(o) ==
  /\ uses[o] <= cut[o] + 1
  /\ Spendable(o) \/ Coming(o) \/ (\E r \in Reqs : Spending(req[r], o))
       => CutOff(o) \/ uses[o] <= cut[o]
OnceInv == Base /\ Issuers /\ \A o \in OneTime : Counted(o)

(* Only the request that acts on a code counts it.                          *)
LEMMA UsesStep ==
  ASSUME Base, NEW r \in Reqs, Steps(r), NEW o \in OneTime
  PROVE  \/ uses'[o] = uses[o]
         \/ uses'[o] = uses[o] + 1 /\ Spending(req[r], o) /\ req[r].pc = "codesave"
         \/ /\ uses'[o] = uses[o] + 1 /\ Spending(req[r], o) /\ Acting(req'[r], o)
            /\ req[r].pc \in {"save", "insert"}
<1>0. /\ uses \in [OneTime -> Nat] /\ req[r] \in Calls /\ req[r].pc \in PcsOf(req[r].op) /\ Types
      /\ Goes(req[r], req'[r])
      BY StepGoes, Now DEF Base, Types, Tables
<1>1. ASSUME NEW what, Once(r, what) PROVE uses'[o] = IF o = what THEN uses[o] + 1 ELSE uses[o]
      BY <1>0, <1>1 DEF Once
<1>2. CASE req[r].pc = "codesave"
  <2>1. Once(r, <<"backup", req[r].code[2]>>)
        BY <1>2, StepAt DEF At, CodeSave
  <2> QED BY <1>1, <1>2, <2>1 DEF Spending
<1>3. CASE req[r].pc = "save" /\ uses' # uses
  <2>1. Once(r, <<"reset", req[r].id>>) /\ req[r].op = "reset"
        BY <1>3, StepAt DEF At, Save
  <2>2. req'[r] = [req[r] EXCEPT !.pc = "revfind"]
        BY <1>0, <1>3, <2>1, StepAt, SaveTurn DEF At, Left
  <2>3. req'[r].op = "reset" /\ req'[r].id = req[r].id /\ req'[r].pc = "revfind"
        BY <1>0, <2>1, <2>2 DEF Calls
  <2> QED BY <1>1, <1>3, <2>1, <2>3 DEF Spending, Acting
<1>4. CASE req[r].pc = "insert" /\ uses' # uses
  <2>1. Insert(r)
        BY <1>4, StepAt DEF At
  <2>2. Once(r, <<"invite", Start>>) /\ req[r].op = "signup" /\ users[req[r].who] = NoUser
        BY <1>4, <2>1 DEF Insert
  <2> DEFINE row == NewUser(r, req[r].op = "setup")
  <2>3. row \in Rows
        BY NewUserTyped
  <2> HIDE DEF row
  <2>4. req' = [req EXCEPT ![r] = IF req[r].op = "create" THEN Over
                  ELSE [req[r] EXCEPT !.user = row,
                          !.pc = IF req[r].op = "signup" THEN "invite" ELSE "session"]]
        BY <2>1, <2>2 DEF Insert, row
  <2>5. req'[r] = [req[r] EXCEPT !.user = row, !.pc = "invite"]
        BY <1>0, <2>2, <2>4 DEF Types
  <2>6. req'[r].pc = "invite"
        BY <1>0, <2>5 DEF Calls
  <2> QED BY <1>1, <1>4, <2>2, <2>6 DEF Spending, Acting
<1> QED BY <1>2, <1>3, <1>4, Frame

(* What a step puts in the tables of codes.                                 *)
LEMMA CodesStep ==
  ASSUME Base, NEW r \in Reqs, Steps(r)
  PROVE  /\ \A b \in backup' : \/ b \in backup
                               \/ req[r].pc = "codesave" /\ b.by = req[r].code[2] /\ b.user = req[r].who
                                  /\ b.used
                               \/ req[r].pc = "codes" /\ b.by = r /\ b.user = req[r].who
                                  /\ req'[r] = Over
         /\ \A t \in resets' : \/ t \in resets
                               \/ req[r].pc = "useReset" /\ t.id = req[r].id /\ t.used
                               \/ req[r].pc = "mail" /\ t.id = r /\ req'[r] = Over
         /\ req[r].pc = "codesave" => \A b \in backup' :
              b.by = req[r].code[2] /\ b.user = req[r].who => b.used
         /\ req[r].pc = "useReset" => \A t \in resets' : t.id = req[r].id => t.used
         /\ invite' = None => invite = None /\ req[r].pc # "useInvite"
<1>0. Types
      BY DEF Base
<1>1. CASE req[r].pc = "codesave"
  <2>1. CodeSave(r)
        BY <1>1, StepAt DEF At
  <2> QED BY <1>1, <2>1 DEF CodeSave, tables
<1>2. CASE req[r].pc = "codes"
  <2>1. StoreCodes(r) /\ req'[r] = Over
        BY <1>0, <1>2, StepAt, StoreCodesTurn DEF At
  <2> QED BY <1>2, <2>1 DEF StoreCodes
<1>3. CASE req[r].pc = "delcodes"
  <2>1. DeleteCodes(r)
        BY <1>3, StepAt DEF At
  <2> QED BY <1>3, <2>1 DEF DeleteCodes
<1>4. CASE req[r].pc = "useReset"
  <2>1. UseToken(r)
        BY <1>4, StepAt DEF At
  <2> QED BY <1>4, <2>1 DEF UseToken
<1>5. CASE req[r].pc = "mail"
  <2>1. Mail(r) /\ req'[r] = Over
        BY <1>0, <1>5, StepAt, MailTurn DEF At
  <2> QED BY <1>5, <2>1 DEF Mail
<1>6. CASE req[r].pc = "useInvite"
  <2>1. UseInvite(r) /\ r # None
        BY <1>6, StepAt, RequestIds DEF At
  <2> QED BY <1>6, <2>1 DEF UseInvite
<1>7. CASE req[r].pc \notin {"codesave", "codes", "delcodes", "useReset", "mail", "useInvite"}
      BY <1>7, Frame
<1> QED BY <1>1, <1>2, <1>3, <1>4, <1>5, <1>6, <1>7

(* Whoever is about to act on a code found it unused just before.           *)
LEMMA SpendingStep ==
  ASSUME Base, NEW r \in Reqs, Steps(r), req'[r] # Over
  PROVE  /\ \A o : Spending(req'[r], o) =>
              \/ Spendable(o)
              \/ Spending(req[r], o) /\ req[r].pc \notin {"codesave", "save", "insert"}
         /\ req'[r].pc = "codesave" =>
              \E b \in backup : b.user = req'[r].who /\ req'[r].code[2] = b.by
         /\ Resetting(req'[r]) => \/ \E t \in resets : t.id = req'[r].id
                                  \/ Resetting(req[r]) /\ req'[r].id = req[r].id
<1>0. /\ Types /\ Types' /\ Goes(req[r], req'[r]) /\ req[r] \in Calls /\ req[r].pc \in PcsOf(req[r].op)
      /\ req'[r] \in Calls /\ req'[r].pc \in PcsOf(req'[r].op) /\ req[r].pc \in Pcs
      BY StepTurn, StepGoes, Now DEF Base, Turn, Types, Sound
<1>1. ASSUME req'[r].pc = "codesave"
      PROVE  \E b \in backup : /\ ~b.used /\ b.user = req'[r].who
                               /\ req'[r].code[2] = b.by
  <2>1. req[r].pc = "codefind" /\ req'[r].who = req[r].who /\ req'[r].code = req[r].code
        BY <1>0, <1>1 DEF Goes, Nexts
  <2>2. ~Finish(r)
        BY <1>0 DEF Finish, Types
  <2>3. \E b \in backup : ~b.used /\ b.user = req[r].who /\ req[r].code = <<"backup", b.by>>
        BY <2>1, <2>2, StepAt DEF At, CodeFind
  <2> QED BY <2>1, <2>3
<1>2. ASSUME Resetting(req'[r])
      PROVE  \/ \E t \in resets : ~t.used /\ t.id = req'[r].id
             \/ Resetting(req[r]) /\ req'[r].id = req[r].id /\ req[r].pc # "useReset"
  <2>1. req[r].op = "reset" /\ req'[r].id = req[r].id /\ req[r].pc \notin {"useReset", "idle", "over"}
        BY <1>0, <1>2 DEF Goes, Nexts, Resetting
  <2>2. CASE req[r].pc = "token"
    <3>1. ~Finish(r)
          BY <1>0 DEF Finish, Types
    <3> QED BY <2>1, <2>2, <3>1, StepAt DEF At, FindToken, Unused
  <2> QED BY <2>1, <2>2 DEF Resetting
<1>3. ASSUME req'[r].pc = "insert", req'[r].op = "signup"
      PROVE  invite = None
  <2>1. req[r].pc = "check" /\ req[r].op = "signup"
        BY <1>0, <1>3 DEF Goes, Nexts, Over
  <2>2. ~Finish(r)
        BY <1>0 DEF Finish, Types
  <2> QED BY <2>1, <2>2, StepAt DEF At, CheckNew
<1>4. ASSUME req'[r].op = "reset", req'[r].pc \in {"find", "save"}
      PROVE  \/ \E t \in resets : ~t.used /\ t.id = req'[r].id
             \/ req[r].op = "reset" /\ req[r].pc = "find" /\ req'[r].id = req[r].id
  <2>1. req[r].op = "reset" /\ req'[r].id = req[r].id /\ req[r].pc \in {"token", "find", "delcodes", "action"}
        BY <1>0, <1>4 DEF Goes, Nexts, Over, Idle
  <2>2. req[r].pc \in {"token", "find"}
        BY <1>0, <2>1, OpsAt DEF Admins
  <2>3. CASE req[r].pc = "token"
    <3>1. ~Finish(r)
          BY <1>0 DEF Finish, Types
    <3> QED BY <2>1, <2>3, <3>1, StepAt DEF At, FindToken, Unused
  <2> QED BY <2>1, <2>2, <2>3
<1>5. ASSUME NEW o, Spending(req'[r], o)
      PROVE  \/ Spendable(o)
             \/ Spending(req[r], o) /\ req[r].pc \notin {"codesave", "save", "insert"}
      BY <1>1, <1>3, <1>4, <1>5 DEF Spending, Spendable
<1> QED BY <1>1, <1>2, <1>5
LEMMA DoneNext ==
  ASSUME Base, NEW r \in Reqs, Steps(r), NEW s, Done(s) PROVE Done(s)' /\ s # r
  BY StepTurn, DoneStays DEF Turn

(* A step keeps every code the work of a finished request, and of one user. *)
LEMMA IssuersStep ==
  ASSUME OnceInv, SpendersApart, NEW r \in Reqs, Steps(r)
  PROVE  Issuers'
<1>0. /\ Base /\ Issuers /\ Others(r) /\ Types /\ Types' /\ req[r].pc \in PcsOf(req[r].op)
      /\ req[r] \in Calls /\ r # Start /\ Known(req[r])
      BY StepTurn, RequestIds, Now DEF OnceInv, Base, Turn, Issuers
<1>1. ASSUME NEW b \in backup'
      PROVE  Done(b.by)'
  <2>1. CASE b \in backup
        BY <1>0, <2>1, DoneNext DEF Issuers
  <2>2. CASE req[r].pc = "codesave" /\ b.by = req[r].code[2]
        BY <1>0, <2>2, DoneNext DEF Known
  <2>3. CASE req[r].pc = "codes" /\ b.by = r /\ req'[r] = Over
        BY <2>3, OverHolds DEF Done, At
  <2> QED BY <1>0, <2>1, <2>2, <2>3, CodesStep
<1>2. ASSUME NEW b \in backup', NEW c \in backup', c.by = b.by
      PROVE  c.user = b.user
  <2>1. CASE req[r].pc = "codes"
    <3>1. \A x \in backup' : x \in backup \/ (x.by = r /\ x.user = req[r].who)
          BY <1>0, <2>1, CodesStep
    <3>2. \A x \in backup : x.by # r
          BY <1>0, DoneNext DEF Issuers
    <3> QED BY <1>0, <1>2, <3>1, <3>2 DEF Issuers
  <2>2. CASE req[r].pc = "codesave"
    <3>1. \A x \in backup' : x \in backup \/ (x.by = req[r].code[2] /\ x.user = req[r].who)
          BY <1>0, <2>2, CodesStep
    <3> QED BY <1>0, <1>2, <2>2, <3>1 DEF Issuers, Known
  <2>3. CASE req[r].pc \notin {"codes", "codesave"}
    <3>1. \A x \in backup' : x \in backup
          BY <1>0, <2>3, CodesStep
    <3> QED BY <1>0, <1>2, <3>1 DEF Issuers
  <2> QED BY <2>1, <2>2, <2>3
<1>3. ASSUME NEW t \in resets'
      PROVE  Done(t.id)'
  <2>1. CASE t \in resets
        BY <1>0, <2>1, DoneNext DEF Issuers
  <2>2. CASE req[r].pc = "useReset" /\ t.id = req[r].id
    <3>1. Resetting(req[r])
          BY <1>0, <2>2, OpsAt DEF Resetting
    <3> QED BY <1>0, <2>2, <3>1, DoneNext DEF Known
  <2>3. CASE req[r].pc = "mail" /\ t.id = r /\ req'[r] = Over
        BY <2>3, OverHolds DEF Done, At
  <2> QED BY <1>0, <2>1, <2>2, <2>3, CodesStep
<1>4. ASSUME NEW q \in Reqs PROVE Known(req[q])'
  <2>1. CASE q # r
    <3>1. req'[q] = req[q] /\ Known(req[q]) /\ req[q] \in Calls /\ req[q].pc \in PcsOf(req[q].op)
          BY <1>0, <2>1, Now DEF Others, Issuers
    <3>2. ASSUME req[q].pc = "codesave", NEW b \in backup', b.by = req[q].code[2]
          PROVE  b.user = req[q].who
      <4>1. CASE b \in backup
            BY <3>1, <3>2, <4>1 DEF Known
      <4>2. CASE b.by = r
            BY <1>0, <3>1, <3>2, <4>2, DoneNext DEF Known
      <4>3. CASE req[r].pc = "codesave"
        <5>1. req[q].op \in Coded /\ req[r].op \in Coded /\ Busy(q) /\ Busy(r)
              BY <1>0, <3>1, <3>2, <4>3, OpsAt DEF Busy
        <5> QED BY <1>0, <2>1, <5>1 DEF Base, Apart, SpendersApart
      <4> QED BY <1>0, <3>2, <4>1, <4>2, <4>3, CodesStep
    <3>3. /\ req[q].pc = "codesave" => Done(req[q].code[2])'
          /\ Resetting(req[q]) => Done(req[q].id)'
      <4>1. ASSUME NEW s, Done(s) PROVE IF s = Start THEN TRUE ELSE s \in Reqs /\ req'[s].pc = "over"
            BY <1>0, <4>1, DoneNext DEF Done, At
      <4> QED BY <3>1, <4>1 DEF Done, At, Known
    <3> QED BY <3>1, <3>2, <3>3 DEF Known
  <2>2. CASE q = r /\ req'[r] = Over
        BY <2>2, OverHolds DEF Known, Resetting
  <2>3. CASE q = r /\ req'[r] # Over
    <3>1. ASSUME req'[r].pc = "codesave"
          PROVE  /\ Done(req'[r].code[2])
                 /\ backup' = backup
                 /\ \A b \in backup : b.by = req'[r].code[2] => b.user = req'[r].who
      <4>1. PICK b \in backup : b.user = req'[r].who /\ req'[r].code[2] = b.by
            BY <1>0, <2>3, <3>1, SpendingStep
      <4>2. req'[r].pc \in Nexts(req[r].pc) /\ req[r].pc \in Pcs
            BY <1>0, <2>3, StepGoes, Now DEF Goes
      <4>3. req[r].pc = "codefind"
            BY <3>1, <4>2 DEF Nexts
      <4> QED BY <1>0, <4>1, <4>3, Frame DEF Issuers
    <3>2. Resetting(req'[r]) => Done(req'[r].id)
          BY <1>0, <2>3, SpendingStep DEF Issuers, Known
    <3>3. ASSUME NEW s, Done(s) PROVE s = Start \/ (s \in Reqs /\ req'[s].pc = "over")
          BY <1>0, <3>3, DoneNext DEF Done, At
    <3> QED BY <2>3, <3>1, <3>2, <3>3 DEF Known, Done, At
  <2> QED BY <2>1, <2>2, <2>3
<1> QED BY <1>1, <1>2, <1>3, <1>4 DEF Issuers

(* The code a request is dealing with: it exists, and no other request      *)
(* under way deals with one of its kind.                                    *)
Deals(c, o) == Spending(c, o) \/ Acting(c, o)
LEMMA DealsAlone ==
  ASSUME OnceInv, SpendersApart, NEW r \in Reqs, NEW o, Deals(req[r], o)
  PROVE  /\ ~Coming(o)
         /\ \A q \in Reqs : q # r => ~Deals(req[q], o)
<1>0. /\ Base /\ Types /\ Known(req[r]) /\ req[r] \in Calls /\ req[r].pc \in PcsOf(req[r].op)
      BY Now DEF OnceInv, Base, Issuers
<1>1. ASSUME NEW q \in Reqs, Deals(req[q], o)
      PROVE  /\ Busy(q)
             /\ \/ req[q].op \in Coded /\ req[q].pc = "codesave" /\ o = <<"backup", req[q].code[2]>>
                \/ req[q].op = "reset" /\ Resetting(req[q]) /\ o = <<"reset", req[q].id>>
                \/ req[q].op = "signup" /\ o = <<"invite", Start>>
  <2>1. req[q] \in Calls /\ req[q].pc \in PcsOf(req[q].op)
        BY <1>0, Now
  <2> QED BY <1>1, <2>1, OpsAt DEF Deals, Spending, Acting, Busy, Resetting
<1>2. ~Coming(o)
  <2>1. \A i \in Reqs : Done(i) => At(i, "over")
        BY RequestIds DEF Done
  <2> QED BY <1>0, <1>1, <2>1 DEF Coming, Known
<1>3. ASSUME NEW q \in Reqs, q # r, Deals(req[q], o) PROVE FALSE
  <2>1. \/ req[q].op \in Coded /\ req[r].op \in Coded
        \/ req[q].op = "reset" /\ req[r].op = "reset"
        \/ req[q].op = "signup" /\ req[r].op = "signup"
        BY <1>1, <1>3
  <2>2. {req[q].op, req[r].op} \in Overlaps
        BY <1>0, <1>1, <1>3 DEF Base, Apart
  <2>3. {"reset", "reset"} = {"reset"} /\ {"signup", "signup"} = {"signup"}
        OBVIOUS
  <2> QED BY <2>1, <2>2, <2>3 DEF SpendersApart
<1> QED BY <1>2, <1>3

(* A code its request has done with, whether it marked it or found it       *)
(* marked, can be acted on no more.                                         *)
LEMMA MarkedStep ==
  ASSUME OnceInv, SpendersApart, NEW r \in Reqs, Steps(r), NEW o \in OneTime,
         \/ Spending(req[r], o) /\ req[r].pc = "codesave"
         \/ Acting(req[r], o) /\ ~Acting(req'[r], o)
  PROVE  /\ ~Spendable(o)'
         /\ \A q \in Reqs : ~Spending(req'[q], o)
<1>0. /\ Base /\ Types /\ Others(r) /\ Known(req[r]) /\ req[r] \in Calls /\ Goes(req[r], req'[r])
      /\ req[r].pc \in PcsOf(req[r].op)
      BY StepTurn, StepGoes, Now DEF OnceInv, Base, Issuers, Turn
<1>1. \/ req[r].pc = "codesave" /\ o = <<"backup", req[r].code[2]>>
      \/ req[r].pc = "useReset" /\ o = <<"reset", req[r].id>> /\ req[r].op = "reset"
      \/ req[r].pc = "useInvite" /\ o = <<"invite", Start>>
      \/ req[r].pc = "invite" /\ o = <<"invite", Start>> /\ invite # None
  <2>1. CASE Spending(req[r], o) /\ req[r].pc = "codesave"
        BY <2>1 DEF Spending
  <2>2. CASE req[r].op = "reset" /\ req[r].pc \in {"revfind", "revsave", "useReset"}
             /\ o = <<"reset", req[r].id>> /\ ~Acting(req'[r], o)
    <3>1. req[r].pc \in {"revfind", "revsave"} =>
            \/ Left(r, "useReset")
            \/ req'[r] = [req[r] EXCEPT !.found = Theirs(r), !.pc = "revsave"]
          BY <1>0, <2>2, StepAt, RevokeFindTurn, RevokeSaveTurn DEF At, Onward, Racing, Theirs
    <3>2. Left(r, "useReset") => Acting(req'[r], o)
          BY <1>0, <2>2 DEF Left, Calls, Acting
    <3> DEFINE f == Theirs(r)
    <3>3. req'[r] = [req[r] EXCEPT !.found = f, !.pc = "revsave"] => Acting(req'[r], o)
      <4> HIDE DEF f
      <4> QED BY <1>0, <2>2 DEF Calls, Acting
    <3> QED BY <2>2, <3>1, <3>2, <3>3
  <2>3. CASE req[r].pc \in {"invite", "useInvite"} /\ o = <<"invite", Start>> /\ ~Acting(req'[r], o)
    <3>1. req[r].pc = "invite" /\ invite = None => Left(r, "useInvite")
          BY <1>0, StepAt DEF At, FindInvite, To, Left, Types
    <3>2. Left(r, "useInvite") => Acting(req'[r], o)
          BY <1>0, <2>3 DEF Left, Calls, Acting
    <3> QED BY <2>3, <3>1, <3>2
  <2> QED BY <2>1, <2>2, <2>3 DEF Acting
<1>2. ~Spendable(o)'
  <2>1. CASE req[r].pc = "codesave" /\ o = <<"backup", req[r].code[2]>>
    <3>1. \A b \in backup' : b.by = req[r].code[2] => b.user = req[r].who
          BY <1>0, <2>1, CodesStep DEF Known
    <3>2. \A b \in backup' : b.by = req[r].code[2] => b.used
          BY <1>0, <2>1, <3>1, CodesStep
    <3> QED BY <2>1, <3>2 DEF Spendable
  <2>2. CASE req[r].pc = "useReset" /\ o = <<"reset", req[r].id>>
        BY <1>0, <2>2, CodesStep DEF Spendable
  <2>3. CASE req[r].pc = "useInvite" /\ o = <<"invite", Start>>
        BY <1>0, <2>3, CodesStep DEF Spendable
  <2>4. CASE o = <<"invite", Start>> /\ invite # None
        BY <1>0, <2>4, CodesStep DEF Spendable
  <2> QED BY <1>1, <2>1, <2>2, <2>3, <2>4
<1>3. ASSUME NEW q \in Reqs, Spending(req'[q], o) PROVE FALSE
  <2>1. CASE q # r
    <3>1. Deals(req[q], o) /\ Deals(req[r], o)
          BY <1>0, <1>3, <2>1 DEF Others, Deals
    <3> QED BY <2>1, <3>1, DealsAlone
  <2>2. CASE q = r
    <3>1. req'[r] # Over
          BY <1>3, <2>2, OverHolds DEF Spending
    <3>2. req'[r].op = req[r].op /\ req'[r].pc \in Nexts(req[r].pc)
          BY <1>0, <3>1 DEF Goes
    <3>3. req'[r].pc \notin {"codesave", "find", "save", "insert"}
          BY <1>1, <3>2 DEF Nexts
    <3> QED BY <1>3, <2>2, <3>3 DEF Spending
  <2> QED BY <2>1, <2>2
<1> QED BY <1>2, <1>3

(* A step acts only on a code that was not acted on, or was cut off.        *)
LEMMA CountedStep ==
  ASSUME OnceInv, SpendersApart, NEW r \in Reqs, Steps(r), NEW o \in OneTime
  PROVE  Counted(o)'
<1>0. /\ Base /\ Issuers /\ Counted(o) /\ Others(r) /\ Types /\ Busy(r) /\ req[r].pc \in PcsOf(req[r].op)
      /\ req[r] \in Calls /\ uses[o] \in Nat /\ cut[o] \in Nat /\ cut' = cut /\ ~At(r, "over")
      BY StepTurn, StepAt, Frame, Now DEF OnceInv, Base, Turn, Issuers, Busy, Types, Tables, At
<1>1. Coming(o)' => Coming(o)
  <2>1. \A i \in Reqs : At(i, "over") => req'[i].pc = "over"
        BY <1>0 DEF Others, At
  <2> QED BY <2>1 DEF Coming, At
<1>2. ASSUME Spending(req[r], o)
      PROVE  ~CutOff(o) /\ uses[o] <= cut[o] /\ ~Coming(o)
  <2>1. \A q \in Reqs : ~Acting(req[q], o)
    <3>1. ~Acting(req[r], o)
      <4>1. ~(Spending(req[r], o) /\ Acting(req[r], o))
            BY <1>0, OpsAt DEF Spending, Acting, Coded, LoginOps, Admins
      <4> QED BY <1>2, <4>1
    <3> QED BY <1>2, <3>1, DealsAlone DEF Deals
  <2>2. ~CutOff(o)
        BY <2>1 DEF CutOff
  <2> QED BY <1>0, <1>2, <2>2, DealsAlone DEF Counted, Deals
<1>3. CASE uses'[o] = uses[o] + 1 /\ Spending(req[r], o) /\ req[r].pc = "codesave"
  <2>1. ~Spendable(o)' /\ \A q \in Reqs : ~Spending(req'[q], o)
        BY <1>3, MarkedStep
  <2> QED BY <1>0, <1>1, <1>2, <1>3, <2>1 DEF Counted
<1>4. CASE uses'[o] = uses[o] + 1 /\ Spending(req[r], o) /\ Acting(req'[r], o)
  <2>1. CutOff(o)'
        BY <1>4 DEF CutOff
  <2> QED BY <1>0, <1>2, <1>4, <2>1 DEF Counted
<1>5. CASE uses'[o] = uses[o]
  <2>1. CASE Acting(req[r], o) /\ ~Acting(req'[r], o)
    <3>1. ~Spendable(o)' /\ ~Coming(o) /\ \A q \in Reqs : ~Spending(req'[q], o)
          BY <2>1, MarkedStep, DealsAlone DEF Deals
    <3> QED BY <1>0, <1>1, <1>5, <3>1 DEF Counted
  <2>2. CASE ~(Acting(req[r], o) /\ ~Acting(req'[r], o))
    <3>1. CutOff(o) => CutOff(o)'
      <4>1. ASSUME NEW q \in Reqs, Acting(req[q], o) PROVE Acting(req'[q], o)
            BY <1>0, <2>2, <4>1 DEF Others
      <4> QED BY <4>1 DEF CutOff
    <3>2. Spendable(o)' => Spendable(o) \/ Coming(o)
          BY <1>0, CodesStep DEF Spendable, Coming
    <3>3. ASSUME NEW q \in Reqs, Spending(req'[q], o)
          PROVE  Spendable(o) \/ Spending(req[q], o)
      <4>1. CASE q # r
            BY <1>0, <3>3, <4>1 DEF Others
      <4>2. CASE q = r
        <5>1. req'[r] # Over
              BY <3>3, <4>2, OverHolds DEF Spending
        <5> QED BY <1>0, <3>3, <4>2, <5>1, SpendingStep
      <4> QED BY <4>1, <4>2
    <3>4. (Spendable(o)' \/ Coming(o)' \/ \E q \in Reqs : Spending(req'[q], o))
            => Spendable(o) \/ Coming(o) \/ \E q \in Reqs : Spending(req[q], o)
          BY <1>1, <3>2, <3>3
    <3> QED BY <1>0, <1>5, <3>1, <3>4 DEF Counted
  <2> QED BY <2>1, <2>2
<1> QED BY <1>3, <1>4, <1>5, UsesStep, <1>0
(* Beginnings, restarts and stuttering change no code, and the first codes  *)
(* are unused.                                                              *)
LEMMA OnceBegin ==
  ASSUME OnceInv, NEW r \in Reqs, At(r, "idle"), Begins(r)
  PROVE  OnceInv'
<1>0. /\ Base /\ Base' /\ Others(r) /\ Opened(r, req'[r]) /\ Issuers /\ r # Start
      /\ UNCHANGED <<backup, resets, invite, uses, cut>>
  <2>1. Base /\ Types
        BY DEF OnceInv, Base
  <2>2. Opened(r, req'[r]) /\ Turn(r)
        BY <2>1, BeginsTurn
  <2> QED BY <2>1, <2>2, BaseBegin, RequestIds DEF Turn, Opened, tables, ghosts, OnceInv
<1>1. /\ req'[r].pc \in {"check", "reauth", "token", "find"}
      /\ ~Resetting(req'[r])
      /\ req'[r].op = "reset" => req'[r].pc = "token"
      BY <1>0 DEF Opened, Opening, Resetting, Admins
<1>2. \A s : Done(s) => s = Start \/ (s \in Reqs /\ req'[s].pc = "over")
      BY <1>0 DEF Done, At, Others
<1>3. ASSUME NEW q \in Reqs PROVE Known(req[q])'
  <2>1. CASE q = r
        BY <1>1, <2>1 DEF Known
  <2>2. CASE q # r
        BY <1>0, <1>2, <2>2 DEF Known, Others, Issuers, Done, At
  <2> QED BY <2>1, <2>2
<1>4. Issuers'
      BY <1>0, <1>2, <1>3 DEF Issuers, Done, At
<1>5. ASSUME NEW o \in OneTime PROVE Counted(o)'
  <2>1. Coming(o)' => Coming(o)
        BY <1>0 DEF Coming, At, Others
  <2>2. \A q \in Reqs : Spending(req'[q], o) => Spending(req[q], o)
        BY <1>0, <1>1 DEF Spending, Others
  <2>3. Spendable(o)' => Spendable(o)
        BY <1>0 DEF Spendable
  <2>4. CutOff(o) => CutOff(o)'
    <3>1. \A q \in Reqs : Acting(req[q], o) => Acting(req'[q], o)
          BY <1>0 DEF Acting, Others, At
    <3> QED BY <3>1 DEF CutOff
  <2> QED BY <1>0, <2>1, <2>2, <2>3, <2>4 DEF OnceInv, Counted
<1> QED BY <1>0, <1>4, <1>5 DEF OnceInv

LEMMA OnceRestart == ASSUME OnceInv, Restart PROVE OnceInv'
<1>0. /\ Base /\ Base' /\ Issuers /\ UNCHANGED <<backup, resets, invite, uses>>
      /\ \A r \in Reqs : req'[r] = Over \/ (At(r, "idle") /\ req'[r] = Idle)
      BY BaseRestart, RestartTyped DEF OnceInv, Base
<1>1. Idle.pc = "idle" /\ Over.pc = "over" /\ Idle.op = "none" /\ Over.op = "none"
      BY DEF Idle, Over
<1>2. \A s : Done(s) => s = Start \/ (s \in Reqs /\ req'[s].pc = "over")
      BY <1>0, <1>1 DEF Done, At
<1>3. \A q \in Reqs : ~Resetting(req'[q]) /\ req'[q].pc \in {"idle", "over"}
      BY <1>0, <1>1 DEF Resetting
<1>4. Issuers'
      BY <1>0, <1>2, <1>3 DEF Issuers, Known, Done, At
<1>5. ASSUME NEW o \in OneTime PROVE Counted(o)'
  <2>1. Coming(o)' => Coming(o)
        BY <1>0, <1>1 DEF Coming, At
  <2>2. \A q \in Reqs : ~Spending(req'[q], o)
        BY <1>3 DEF Spending
  <2>3. Spendable(o)' => Spendable(o)
        BY <1>0 DEF Spendable
  <2>4. cut'[o] = (IF CutOff(o) THEN cut[o] + 1 ELSE cut[o]) /\ cut[o] \in Nat /\ uses[o] \in Nat
        BY <1>0 DEF Restart, Base, Types, Tables
  <2> QED BY <1>0, <2>1, <2>2, <2>3, <2>4 DEF OnceInv, Counted
<1> QED BY <1>0, <1>4, <1>5 DEF OnceInv

LEMMA OnceSame == ASSUME OnceInv, UNCHANGED vars PROVE OnceInv'
<1>1. Base' /\ Issuers'
      BY BaseSame DEF OnceInv, Issuers, Known, Resetting, Done, At, vars
<1>2. ASSUME NEW o \in OneTime PROVE Counted(o)'
      BY DEF OnceInv, Counted, Coming, Spending, CutOff, Acting, Spendable, At, vars
<1> QED BY <1>1, <1>2 DEF OnceInv

LEMMA OnceInit == ASSUME Init PROVE OnceInv
<1>1. Base /\ uses = [o \in OneTime |-> 0] /\ cut = [o \in OneTime |-> 0]
      BY InitBase DEF Init
<1>2. ASSUME NEW enc \in Stored, NEW owner \in {Root, Alice}, Populated(enc, owner)
      PROVE  /\ \A b \in backup : b.by = Start /\ b.user = Alice
             /\ \A t \in resets : t.id = Start
      BY <1>2 DEF Populated
<1>3. /\ \A b \in backup : b.by = Start /\ b.user = Alice
      /\ \A t \in resets : t.id = Start
  <2>1. Empty \/ \E enc \in Stored, owner \in {Root, Alice} : Populated(enc, owner)
        BY DEF Init
  <2>2. CASE Empty
        BY <2>2 DEF Empty
  <2> QED BY <1>2, <2>1, <2>2
<1>4. Issuers
      BY <1>3, InitIdle DEF Issuers, Done, Known, Resetting
<1>5. ASSUME NEW o \in OneTime PROVE Counted(o)
      BY <1>1 DEF Counted
<1> QED BY <1>1, <1>4, <1>5 DEF OnceInv

(* A backup code is acted on at most once, and so are a reset token and an  *)
(* invite code but for one more time for each crash between what they were  *)
(* for, the password saved or the account inserted, and their mark, as long *)
(* as no two requests that check codes, no two resets and no two sign-ups   *)
(* overlap: each looks its code up, and marks it only some awaits later     *)
(* (tryConsumeBackupCode, resetPassword and signup in auth.service.ts).     *)
THEOREM SingleUseAlways ==
  ASSUME SpendersApart
  PROVE  Spec => []SingleUse
<1>1. ASSUME OnceInv, [Next]_vars PROVE OnceInv'
  <2>1. CASE Restart
        BY <1>1, <2>1, OnceRestart
  <2>2. ASSUME NEW r \in Reqs, At(r, "idle"), Begins(r) PROVE OnceInv'
        BY <1>1, <2>2, OnceBegin
  <2>3. ASSUME NEW r \in Reqs, Steps(r) PROVE OnceInv'
    <3>1. Base' /\ Issuers'
          BY <1>1, <2>3, BaseStep, IssuersStep DEF OnceInv
    <3>2. \A o \in OneTime : Counted(o)'
          BY <1>1, <2>3, CountedStep
    <3> QED BY <3>1, <3>2 DEF OnceInv
  <2> QED BY <1>1, <2>1, <2>2, <2>3, OnceSame DEF Next
<1>2. OnceInv => SingleUse
  <2>1. ASSUME OnceInv, NEW o \in OneTime PROVE uses[o] <= 1 + cut[o]
    <3>1. uses[o] <= cut[o] + 1 /\ cut[o] \in Nat
          BY <2>1 DEF OnceInv, Counted, Base, Types, Tables
    <3> QED BY <3>1
  <2> QED BY <2>1 DEF SingleUse
<1> QED BY <1>1, <1>2, OnceInit, PTL DEF Spec
-----------------------------------------------------------------------------
(* Why no code outlives two-factor.  A request that is going to write a row *)
(* without two-factor has seen the user without unused codes.               *)
CodesApart == \A op \in OpNames \ {"none"} :
  {"confirm", op} \notin Overlaps /\ {"newcodes", op} \notin Overlaps

Bare(n) == \A b \in backup : b.user = n => b.used
Writer(c) == HoldsRow(c) \/ Looked(c) \/ c.pc = "save"
Certain(c) ==
  /\ Writer(c) /\ ~c.user.tfa => Bare(c.who)
  /\ c.op = "confirm" /\ c.pc = "save" => c.user.tfa
  /\ \/ c.op = "confirm" /\ c.pc \in {"revfind", "revsave", "codes"}
     \/ c.op = "newcodes" /\ c.pc \in {"delcodes", "codes"}
     => users[c.who].tfa
CodesInv == Base /\ CodesOnlyWithTwoFactor /\ \A r \in Reqs : Certain(req[r])

LEMMA BareUser ==
  ASSUME CodesInv, NEW n \in Names, ~users[n].tfa PROVE Bare(n)
  BY DEF CodesInv, CodesOnlyWithTwoFactor, Bare

LEMMA BareStays ==
  ASSUME Base, NEW r \in Reqs, Steps(r), NEW n, Bare(n),
         req[r].pc # "codes" \/ req[r].who # n
  PROVE  \A b \in backup' : b.user = n => b.used
<1>1. \A b \in backup' : b \in backup \/ b.used \/ (req[r].pc = "codes" /\ b.user = req[r].who)
      BY CodesStep
<1> QED BY <1>1 DEF Bare

(* A step that turns two-factor off finds the codes gone, and one that      *)
(* stores codes finds it on.                                                *)
LEMMA CodesOnlyStep ==
  ASSUME CodesInv, NEW r \in Reqs, Steps(r)
  PROVE  CodesOnlyWithTwoFactor'
<1>0. /\ Base /\ Certain(req[r]) /\ req[r] \in Calls /\ req[r].pc \in PcsOf(req[r].op)
      /\ req[r].who \in Names /\ Types /\ Types'
      BY StepTurn, Now DEF CodesInv, Base, Turn
<1> SUFFICES ASSUME NEW b \in backup', ~b.used PROVE users'[b.user].tfa
    BY DEF CodesOnlyWithTwoFactor
<1>n. b.user \in Names
      BY <1>0 DEF Types, Tables
<1>1. CASE b \in backup
  <2>1. users[b.user].tfa /\ ~Bare(b.user)
        BY <1>1 DEF CodesInv, CodesOnlyWithTwoFactor, Bare
  <2>2. CASE b.user = req[r].who /\ Writes(r)
    <3>1. CASE req[r].pc \in {"upgrade", "saveuser", "legacyout", "save", "badlegacy", "replay"}
      <4>1. Writer(req[r])
            BY <1>0, <3>1, Kinds DEF Writer
      <4>2. req[r].user.tfa
            BY <1>0, <2>1, <2>2, <4>1 DEF Certain
      <4> QED BY <2>2, <3>1, <4>2 DEF Writes
    <3>2. CASE req[r].pc = "insert"
          BY <2>1, <2>2, <3>2 DEF Writes, NoUser
    <3> QED BY <2>2, <3>1, <3>2 DEF Writes
  <2> QED BY <1>0, <1>n, <2>1, <2>2, UserWrites
<1>2. CASE b \notin backup
  <2>1. req[r].pc = "codes" /\ b.user = req[r].who
        BY <1>0, <1>2, CodesStep
  <2>2. req[r].op \in {"confirm", "newcodes"}
        BY <1>0, <2>1, OpsAt
  <2>3. users[req[r].who].tfa
        BY <1>0, <2>1, <2>2 DEF Certain
  <2> QED BY <2>1, <2>3, Frame DEF UserPcs
<1> QED BY <1>1, <1>2

(* What the other requests know stays true, and so does what the request    *)
(* itself knows.                                                            *)
LEMMA CertainOther ==
  ASSUME CodesInv, CodesApart, NEW r \in Reqs, Steps(r), NEW q \in Reqs, q # r
  PROVE  Certain(req[q])'
<1>0. /\ Base /\ Certain(req[q]) /\ req'[q] = req[q] /\ Busy(r)
      /\ req[r].op \in OpNames \ {"none"} /\ req[q].op \in OpNames
      /\ req[r] \in Calls /\ req[r].pc \in PcsOf(req[r].op)
      /\ req[q] \in Calls /\ req[q].pc \in PcsOf(req[q].op)
  <2>1. Base /\ req[r] \in Calls /\ req[r].pc \in PcsOf(req[r].op) /\ Busy(r)
        /\ req[q] \in Calls /\ req[q].pc \in PcsOf(req[q].op)
        BY StepAt, Now DEF CodesInv, Base, Busy
  <2>2. req[r].op \in OpNames \ {"none"} /\ req[q].op \in OpNames
        BY <2>1, OpsAt DEF Busy, Calls
  <2> QED BY <2>1, <2>2, StepTurn DEF CodesInv, Turn, Others
<1>1. Busy(q) => {req[q].op, req[r].op} \in Overlaps
      BY <1>0 DEF Base, Apart
<1>2. Busy(q) => req[q].op \notin {"confirm", "newcodes"}
      BY <1>0, <1>1 DEF CodesApart
<1>3. Busy(q) => req[r].op \notin {"confirm", "newcodes"}
  <2>1. ASSUME Busy(q), req[r].op \in {"confirm", "newcodes"} PROVE FALSE
    <3>1. {req[r].op, req[q].op} \in Overlaps /\ req[q].op \in OpNames \ {"none"}
      <4>1. {req[r].op, req[q].op} = {req[q].op, req[r].op}
            OBVIOUS
      <4> QED BY <1>0, <1>1, <2>1, <4>1, OpsAt DEF Busy
    <3> QED BY <2>1, <3>1 DEF CodesApart
  <2> QED BY <2>1
<1>4. ~Busy(q) => req[q].op = "none" /\ ~Writer(req[q])
  <2>1. ~Busy(q) => req[q].op = "none"
        BY <1>0, OpsAt DEF Busy
  <2>2. ~Busy(q) => req[q].pc # "save"
        BY DEF Busy
  <2> QED BY <1>0, <2>1, <2>2, Kinds DEF Writer
<1>5. Busy(q) /\ Bare(req[q].who) => \A b \in backup' : b.user = req[q].who => b.used
  <2>1. Busy(q) => req[r].pc # "codes"
        BY <1>0, <1>3, OpsAt
  <2> QED BY <1>0, <2>1, BareStays
<1>6. ASSUME Writer(req[q]), ~req[q].user.tfa
      PROVE  \A b \in backup' : b.user = req[q].who => b.used
      BY <1>0, <1>4, <1>5, <1>6 DEF Certain
<1>7. req[q].op \notin {"confirm", "newcodes"}
      BY <1>2, <1>4
<1> QED BY <1>0, <1>6, <1>7 DEF Certain, Bare

LEMMA CertainSelf ==
  ASSUME CodesInv, NEW r \in Reqs, Steps(r), req'[r] # Over
  PROVE  Certain(req[r])'
<1>0. /\ Base /\ Certain(req[r]) /\ Types /\ Goes(req[r], req'[r]) /\ req[r] \in Calls
      /\ req[r].pc \in PcsOf(req[r].op) /\ req[r].who \in Names /\ req'[r].op = req[r].op
      /\ req'[r].pc \in Nexts(req[r].pc) /\ req[r].pc \in Pcs
      /\ users \in [Names -> Rows] /\ req[r].user \in Rows /\ users[req[r].who] \in Rows
      BY StepGoes, Now DEF CodesInv, Base, Goes, Types, Tables
<1>1. ASSUME Writer(req'[r]), ~req'[r].user.tfa
      PROVE  \A b \in backup' : b.user = req'[r].who => b.used
  <2>1. req'[r].who = req[r].who /\ req[r].pc # "codes"
    <3>1. req'[r].pc # "find"
          BY <1>1 DEF Writer, HoldsRow, Looked
    <3> QED BY <1>0, <3>1 DEF Goes, Nexts
  <2>2. ASSUME Bare(req[r].who) PROVE \A b \in backup' : b.user = req'[r].who => b.used
        BY <1>0, <2>1, <2>2, BareStays
  <2>3. ~users[req[r].who].tfa => Bare(req[r].who)
        BY <1>0, BareUser
  <2>4. CASE Keeps(r)
    <3>1. CASE req[r].pc = "delcodes"
      <4>1. DeleteCodes(r)
            BY <3>1, StepAt DEF At
      <4> QED BY <2>1, <4>1 DEF DeleteCodes
    <3>2. CASE req[r].pc # "delcodes"
      <4>1. Writer(req[r])
        <5>1. req'[r].pc = "save" => HoldsRow(req'[r])
              BY <1>0, <2>4, <3>2 DEF Nexts, Keeps, HoldsRow, Pcs
        <5> QED BY <1>0, <1>1, <2>4, <5>1, KeptHeld DEF Writer
      <4> QED BY <1>0, <1>1, <2>2, <2>4, <4>1 DEF Keeps, Certain
    <3> QED BY <3>1, <3>2
  <2>5. CASE Upgrades(r)
    <3>1. ~req[r].user.tfa
          BY <1>0, <1>1, <2>5 DEF Upgrades, Rows
    <3> QED BY <1>0, <2>2, <2>5, <3>1 DEF Upgrades, Certain, Writer, HoldsRow
  <2>6. CASE Finds(r)
    <3>1. req[r].op \notin {"disable", "reset2fa", "newcodes", "forgot"}
      <4>1. req'[r].pc = "save"
            BY <1>1, <2>6 DEF Finds, Then, Writer, HoldsRow, Looked, Racing, ProfileOps, Find
      <4> QED BY <2>6, <4>1 DEF Finds, Then
    <3>2. req[r].op # "confirm"
          BY <1>0, <1>1, <2>6, ChangedTyped DEF Finds
    <3>3. ~users[req[r].who].tfa
          BY <1>0, <1>1, <2>6, <3>1, <3>2, ChangedTyped DEF Finds
    <3> QED BY <2>2, <2>3, <3>3
  <2> QED BY <1>0, <1>1, <2>2, <2>3, <2>4, <2>5, <2>6, RowHeld DEF Reads, Adds, NoUser
<1>2. ASSUME req'[r].op = "confirm", req'[r].pc = "save"
      PROVE  req'[r].user.tfa
  <2>1. req[r].pc \in {"find", "delcodes"}
        BY <1>0, <1>2 DEF Nexts, Pcs
  <2>2. req[r].pc = "find"
        BY <1>0, <1>2, <2>1, OpsAt
  <2>3. Finds(r)
        BY <1>0, <1>2, <2>2, RowHeld DEF Reads, Keeps, Upgrades, Adds
  <2>4. Changed(r, req[r], users[req[r].who]).tfa
        BY <1>0, <1>2, ChangedTyped
  <2> QED BY <2>3, <2>4 DEF Finds
<1>3. ASSUME \/ req'[r].op = "confirm" /\ req'[r].pc \in {"revfind", "revsave", "codes"}
             \/ req'[r].op = "newcodes" /\ req'[r].pc \in {"delcodes", "codes"}
      PROVE  users'[req'[r].who].tfa
  <2>1. req'[r].who = req[r].who
        BY <1>0, <1>3 DEF Goes, Nexts
  <2>2. CASE req[r].pc = "save"
    <3>1. SaveUser(req[r].who, req[r].user) /\ req[r].op = "confirm"
          BY <1>0, <1>3, <2>2, StepAt DEF At, Save, Nexts
    <3> QED BY <1>0, <2>1, <2>2, <3>1, UserSaved DEF Certain
  <2>3. CASE req[r].pc = "find"
    <3>1. Find(r)
          BY <1>0, <1>3, <2>3, StepAt DEF At, LoginFind, RefreshUser, Refreshing, LogoutFind
    <3>2. ~Refused(req[r], users[req[r].who]) /\ users' = users
          BY <1>0, <2>3, <3>1, FindTurn, Frame DEF UserPcs
    <3>3. CASE req[r].op = "newcodes"
          BY <2>1, <3>2, <3>3 DEF Refused
    <3>4. CASE req[r].op = "confirm"
      <4> DEFINE u == Changed(r, req[r], users[req[r].who])
      <4>1. req'[r] = [req[r] EXCEPT !.user = u, !.pc = Then(req[r])]
            BY <1>0, <3>1, FindTurn
      <4> HIDE DEF u
      <4>2. req'[r].pc = Then(req[r])
            BY <1>0, <4>1 DEF Calls
      <4> QED BY <1>0, <1>3, <3>4, <4>2 DEF Then
    <3> QED BY <1>0, <1>3, <3>3, <3>4
  <2>4. CASE req[r].pc \notin {"save", "find"}
    <3>1. users' = users /\ users[req[r].who].tfa
      <4>1. req[r].pc \in {"legacyout", "rsession", "revfind", "revsave", "delcodes"}
            BY <1>0, <1>3, <2>4 DEF Nexts, Pcs
      <4>2. req[r].pc \notin {"legacyout", "rsession"}
            BY <1>0, <1>3, <4>1, OpsAt DEF Racing
      <4>3. req[r].op = "confirm" => req[r].pc # "delcodes"
            BY <1>0, OpsAt
      <4>4. req[r].op = "newcodes" => req[r].pc = "delcodes"
            BY <1>0, <4>1, <4>2, OpsAt DEF Bumps, Racing
      <4> QED BY <1>0, <1>3, <4>1, <4>2, <4>3, <4>4, Frame DEF UserPcs, Certain
    <3> QED BY <2>1, <3>1
  <2> QED BY <2>2, <2>3, <2>4
<1> QED BY <1>1, <1>2, <1>3 DEF Certain, Bare
(* Beginnings and restarts change neither codes nor two-factor, and the     *)
(* first codes belong to a user who has it.                                 *)
LEMMA CodesBegin ==
  ASSUME CodesInv, NEW r \in Reqs, At(r, "idle"), Begins(r)
  PROVE  CodesInv'
<1>0. /\ Base /\ Base' /\ Others(r) /\ Opened(r, req'[r]) /\ UNCHANGED <<backup, users>>
  <2>1. Base /\ Types
        BY DEF CodesInv, Base
  <2>2. Opened(r, req'[r]) /\ Turn(r)
        BY <2>1, BeginsTurn
  <2> QED BY <2>1, <2>2, BaseBegin DEF Turn, Opened, tables
<1>1. /\ req'[r].pc \in {"check", "reauth", "token", "find"}
      /\ req'[r].op \in Racing => req'[r].pc = "find"
      BY <1>0 DEF Opened, Opening, Racing, Admins
<1>2. Certain(req'[r]) /\ ~Writer(req'[r])
      BY <1>1 DEF Certain, Writer, HoldsRow, Looked
<1>3. ASSUME NEW q \in Reqs PROVE Certain(req[q])'
      BY <1>0, <1>1, <1>2 DEF CodesInv, Certain, Bare, Others
<1> QED BY <1>0, <1>3 DEF CodesInv, CodesOnlyWithTwoFactor

LEMMA CodesRestart == ASSUME CodesInv, Restart PROVE CodesInv'
<1>0. /\ Base /\ Base' /\ Types /\ UNCHANGED backup
      /\ \A r \in Reqs : req'[r] = Over \/ (At(r, "idle") /\ req'[r] = Idle)
      /\ \A n \in Names : \/ users'[n] = users[n]
                          \/ users[n] # NoUser /\ users'[n] = [users[n] EXCEPT !.admin = TRUE]
      BY BaseRestart, RestartTyped DEF CodesInv, Base
<1>1. \A n \in Names : users'[n].tfa = users[n].tfa
      BY <1>0 DEF Types, Tables, Rows
<1>2. CodesOnlyWithTwoFactor'
  <2>1. \A b \in backup : b.user \in Names
        BY <1>0 DEF Types, Tables
  <2> QED BY <1>0, <1>1, <2>1 DEF CodesInv, CodesOnlyWithTwoFactor
<1>3. ASSUME NEW q \in Reqs PROVE Certain(req[q])'
  <2>1. \A c \in {Over, Idle} : ~Writer(c) /\ c.op = "none"
        BY DEF Over, Idle, Writer, HoldsRow, Looked, Racing
  <2>2. req'[q] \in {Over, Idle}
        BY <1>0
  <2> QED BY <2>1, <2>2 DEF Certain
<1> QED BY <1>0, <1>2, <1>3 DEF CodesInv

LEMMA CodesInit == ASSUME Init PROVE CodesInv
<1>1. ASSUME NEW enc \in Stored, NEW owner \in {Root, Alice}, Populated(enc, owner)
      PROVE  CodesOnlyWithTwoFactor
  <2>1. \A b \in backup : b.user = Alice /\ enc # None
        BY <1>1 DEF Populated
  <2>2. users[Alice] = Account(FALSE, enc)
        BY <1>1, AuthAssumption DEF Populated, Names
  <2>3. Account(FALSE, enc).tfa = (enc # None)
        BY DEF Account, NoUser
  <2> QED BY <2>1, <2>2, <2>3 DEF CodesOnlyWithTwoFactor
<1>2. CodesOnlyWithTwoFactor
  <2>1. Empty \/ \E enc \in Stored, owner \in {Root, Alice} : Populated(enc, owner)
        BY DEF Init
  <2>2. CASE Empty
        BY <2>2 DEF Empty, CodesOnlyWithTwoFactor
  <2> QED BY <1>1, <2>1, <2>2
<1>3. ASSUME NEW q \in Reqs PROVE Certain(req[q])
  <2>1. req[q].op = "none" /\ req[q].pc = "idle"
        BY InitIdle
  <2> QED BY <2>1 DEF Certain, Writer, HoldsRow, Looked, Racing
<1> QED BY <1>2, <1>3, InitBase DEF CodesInv

(* Unused backup codes exist only while their account has two-factor, also  *)
(* after a crash half-way, as long as confirming two-factor and making new  *)
(* codes overlap no other request (confirmTwoFactor, disableTwoFactor,      *)
(* regenerateBackupCodes and resetUserTwoFactor in auth.service.ts).        *)
THEOREM CodesAlways ==
  ASSUME CodesApart
  PROVE  Spec => []CodesOnlyWithTwoFactor
<1>1. ASSUME CodesInv, [Next]_vars PROVE CodesInv'
  <2>1. CASE Restart
        BY <1>1, <2>1, CodesRestart
  <2>2. ASSUME NEW r \in Reqs, At(r, "idle"), Begins(r) PROVE CodesInv'
        BY <1>1, <2>2, CodesBegin
  <2>3. ASSUME NEW r \in Reqs, Steps(r) PROVE CodesInv'
    <3>1. Base' /\ CodesOnlyWithTwoFactor'
          BY <1>1, <2>3, BaseStep, CodesOnlyStep DEF CodesInv
    <3>2. ASSUME NEW q \in Reqs PROVE Certain(req[q])'
      <4>1. CASE q = r /\ req'[r] = Over
            BY <4>1, OverHolds DEF Certain, Writer
      <4> QED BY <1>1, <2>3, <4>1, CertainOther, CertainSelf
    <3> QED BY <3>1, <3>2 DEF CodesInv
  <2>4. CASE UNCHANGED vars
        BY <1>1, <2>4, BaseSame DEF CodesInv, CodesOnlyWithTwoFactor, Certain, Bare, vars
  <2> QED BY <1>1, <2>1, <2>2, <2>3, <2>4 DEF Next
<1>2. CodesInv => CodesOnlyWithTwoFactor
      BY DEF CodesInv
<1> QED BY <1>1, <1>2, CodesInit, PTL DEF Spec
=============================================================================
