----------------------------- MODULE MCAccounts -----------------------------
(***************************************************************************)
(* Instances of Accounts for TLC: which operations overlap.                *)
(***************************************************************************)
EXTENDS Accounts

(* A device refreshes, for itself or under a stream, while its session or  *)
(* its account's tokens are being ended by another request.                *)
AdminOps == {"reset2fa", "resetpw", "rotate"}
RefreshRaces ==
  {{a, b} : a \in {"refresh", "stream"},
            b \in {"password", "reset", "disable", "logout"}
                    \cup IF Plain \in Stored THEN {} ELSE AdminOps}

(* Two-factor secrets: none, as an early release stored them, encrypted.    *)
AnyStored == {None, Plain, Start}

(* Overlaps under which properties fail: see the README.                    *)
SignInRaces == {{"login", "password"}}
StreamRaces == {{"stream"}}
=============================================================================
