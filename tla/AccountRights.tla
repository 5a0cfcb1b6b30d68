--------------------------- MODULE AccountRights ---------------------------
(***************************************************************************)
(* What the account component promises, without bindings, versions or      *)
(* requests in flight.  An account has a standing: whether it may be used  *)
(* at all, and the role, sections and password its sessions were opened    *)
(* under.  A session is a device acting as an account.                     *)
(*                                                                         *)
(* The promise: sessions are opened one at a time, on an account that may  *)
(* be used; and a change of an account's standing ends every session of    *)
(* it, except that of the one device that made the change itself.          *)
(***************************************************************************)
CONSTANTS
  Accounts,     \* account ids
  Devices,      \* device ids
  NoAccount,    \* no account: the device has no session
  Standings,    \* the standings an account may have
  Usable        \* those a session may exist under

VARIABLES
  standing,     \* standing[a]: the current standing of account a
  session       \* session[d]: the account device d acts as, or NoAccount

vars == <<standing, session>>

Init ==
  /\ standing \in [Accounts -> Standings]
  /\ session \in [Devices -> Accounts \cup {NoAccount}]
  /\ \A d \in Devices : session[d] # NoAccount => standing[session[d]] \in Usable

\* Device d starts to act as account a.
Open(d, a) ==
  /\ standing[a] \in Usable
  /\ session' = [session EXCEPT ![d] = a]
  /\ UNCHANGED standing

\* The sessions of some devices end.
Close ==
  /\ \A d \in Devices : session'[d] \in {session[d], NoAccount}
  /\ session' \in [Devices -> Accounts \cup {NoAccount}]
  /\ UNCHANGED standing

\* Account a gets another standing.  Of the devices acting as a only those in K,
\* the device that asked for the change if there is one, keep their session.
Amend(a, K) ==
  /\ standing' \in [Accounts -> Standings]
  /\ \A b \in Accounts \ {a} : standing'[b] = standing[b]
  /\ session' = [d \in Devices |-> IF session[d] = a /\ d \notin K
                                   THEN NoAccount ELSE session[d]]
  /\ K # {} => standing'[a] \in Usable

Next ==
  \/ \E d \in Devices, a \in Accounts : Open(d, a)
  \/ Close
  \/ \E a \in Accounts, K \in {{}} \cup {{d} : d \in Devices} : Amend(a, K)

Spec == Init /\ [][Next]_vars

\* A session is only ever held on an account that may be used.
SessionsAreUsable ==
  \A d \in Devices : session[d] # NoAccount => standing[session[d]] \in Usable
=============================================================================
