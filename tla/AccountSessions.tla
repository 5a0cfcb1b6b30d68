-------------------------- MODULE AccountSessions --------------------------
(***************************************************************************)
(* Accounts, paired devices and the binding of a device to an account: the *)
(* tables accounts and paired_devices, and the HTTP handlers that change   *)
(* them (services/account-auth-service.js, account-admin-service.js,       *)
(* account-service.js, and the two device operations of                    *)
(* pairing-service.js).                                                    *)
(*                                                                         *)
(* The server is one Node process, so code without an await is one step.   *)
(* A login, a change of one's password, a reset and the creation of an     *)
(* account await scrypt between reading the database and writing it: those *)
(* handlers are two actions, Start... and Complete... (or Reject...), and  *)
(* everything else, the pairing command line included, may run between.    *)
(***************************************************************************)
EXTENDS Naturals

CONSTANTS
  Accounts,        \* account ids, those of accounts yet to be created included
  DefaultAccount,  \* the account with account_key 'default'
  NoAccount,       \* a NULL active_account_id
  Devices,         \* ids of rows of paired_devices
  LocalBrowser,    \* the requester that is the admin's browser, not a device
  Passwords,       \* passwords accepted by the password policy
  NoPassword,      \* a NULL password_hash
  Sections,        \* SECTION_KEYS
  Requests,        \* slots for handlers awaiting scrypt
  MaxVersion       \* bound on auth_version, so that TLC's state space is finite

ASSUME ConstantsAssumption ==
  /\ DefaultAccount \in Accounts
  /\ NoAccount \notin Accounts
  /\ LocalBrowser \notin Devices
  /\ NoPassword \notin Passwords
  /\ MaxVersion \in Nat \ {0}

VARIABLES
  accounts,   \* accounts[a]: the row of account a
  devices,    \* devices[d]: the row of device d
  requests,   \* requests[r]: what the handler in slot r read before its await
  proof       \* proof[d]: history, the password shown to open d's binding

vars == <<accounts, devices, requests, proof>>

Roles == {"user", "admin"}

\* disabled_at and deleted_at; a deleted account is disabled as well.
Statuses == {"absent", "active", "disabled", "deleted"}

\* A password_hash stands for the password it verifies.  Two hashes of one
\* password differ by their salt, but no hash is written without raising
\* auth_version, which is compared wherever hashes are.
Account == [status : Statuses,
            role : Roles,
            authVersion : Nat,
            password : Passwords \cup {NoPassword},
            mustChange : BOOLEAN,
            sections : SUBSET Sections]

\* 'unpaired' is a device with no row.  'admin' is a source no code ever binds.
Device == [pairing : {"unpaired", "paired", "revoked"},
           account : Accounts \cup {NoAccount},
           authVersion : Nat,
           source : {"none", "legacy", "login"}]

Request == [op : {"idle", "login", "change", "create", "reset"},
            device : Devices \cup {LocalBrowser},
            account : Accounts \cup {NoAccount},
            authVersion : Nat,
            password : Passwords \cup {NoPassword}]

Idle == [op |-> "idle", device |-> LocalBrowser, account |-> NoAccount,
         authVersion |-> 0, password |-> NoPassword]

Unbound(pairing) ==
  [pairing |-> pairing, account |-> NoAccount, authVersion |-> 0, source |-> "none"]

LegacyBound(pairing) ==
  [pairing |-> pairing, account |-> DefaultAccount, authVersion |-> 1,
   source |-> "legacy"]

AbsentAccount ==
  [status |-> "absent", role |-> "user", authVersion |-> 0,
   password |-> NoPassword, mustChange |-> FALSE, sections |-> {}]

\* What migrateLegacyProfilesToAccounts leaves: the default admin account with no
\* password, and every device that had the legacy profile bound to it, the
\* revoked ones too.
Init ==
  /\ accounts = [a \in Accounts |->
                   IF a = DefaultAccount
                   THEN [status |-> "active", role |-> "admin", authVersion |-> 1,
                         password |-> NoPassword, mustChange |-> TRUE,
                         sections |-> Sections]
                   ELSE AbsentAccount]
  /\ devices \in [Devices -> {Unbound("unpaired"), LegacyBound("paired"),
                              LegacyBound("revoked")}]
  /\ requests = [r \in Requests |-> Idle]
  /\ proof = [d \in Devices |-> NoPassword]

-----------------------------------------------------------------------------
(* Who is asking.                                                            *)

\* getAccountById without includeDeleted
Known(a) == accounts[a].status \in {"active", "disabled"}

\* Mutant of ActiveAdmin: an account that was disabled still counts.
AnyAdmin(a) == Known(a) /\ accounts[a].role = "admin"

ActiveAdmin(a) == accounts[a].status = "active" /\ accounts[a].role = "admin"

\* The account the local browser acts as: the default one while it is an active
\* admin, otherwise an active admin (the code takes the oldest).
ResolvesLocalAdmin(a) ==
  /\ ActiveAdmin(a)
  /\ ActiveAdmin(DefaultAccount) => a = DefaultAccount

\* Mutant of BindingValid: auth_version is not compared.
BindingNamesActiveAccount(d) ==
  devices[d].account # NoAccount /\ accounts[devices[d].account].status = "active"

\* The checks of resolveDeviceAccount on the binding in a device's row.
BindingValid(d) ==
  LET a == devices[d].account
  IN  /\ a # NoAccount
      /\ accounts[a].status = "active"
      /\ devices[d].authVersion = accounts[a].authVersion

\* deviceAuth lets the device in and resolveDeviceAccount finds its account.
HasSession(d) == devices[d].pairing = "paired" /\ BindingValid(d)

\* A request of account a reaches the routes under /api/admin/accounts.
AdminRequest(a) ==
  /\ ActiveAdmin(a)
  /\ ~accounts[a].mustChange
  /\ \/ ResolvesLocalAdmin(a)
     \/ \E d \in Devices : HasSession(d) /\ devices[d].account = a

\* activeAdminCount excluding a is at least one.
AnotherActiveAdmin(a) == \E b \in Accounts \ {a} : ActiveAdmin(b)

CanRemoveActiveAdmin(a) == ActiveAdmin(a) => AnotherActiveAdmin(a)

-----------------------------------------------------------------------------
(* Writes shared by several handlers.                                        *)

\* Mutant of ClearedBinding: account_binding_source is left as it was.
ClearedAccountOnly(d) == [devices[d] EXCEPT !.account = NoAccount, !.authVersion = 0]

ClearedBinding(d) == Unbound(devices[d].pairing)

\* UPDATE paired_devices ... WHERE active_account_id = a
ClearAccountDeviceBindings(a) ==
  /\ devices' = [d \in Devices |-> IF devices[d].account = a
                                   THEN ClearedBinding(d) ELSE devices[d]]
  /\ proof' = [d \in Devices |-> IF devices[d].account = a
                                 THEN NoPassword ELSE proof[d]]

\* UPDATE paired_devices ... WHERE id = d, for a device that is not revoked.
BindAccountToDevice(d, a, version, password) ==
  /\ devices[d].pairing = "paired"
  /\ devices' = [devices EXCEPT ![d] = [pairing |-> "paired", account |-> a,
                                        authVersion |-> version,
                                        source |-> "login"]]
  /\ proof' = [proof EXCEPT ![d] = password]

ClearDeviceAccountBinding(d) ==
  /\ devices' = [devices EXCEPT ![d] = ClearedBinding(d)]
  /\ proof' = [proof EXCEPT ![d] = NoPassword]

Finish(r) == requests' = [requests EXCEPT ![r] = Idle]

-----------------------------------------------------------------------------
(* Devices: the pairing routes of the server and the pairing command line.   *)

\* redeemPairingInvite: a new row, or the row of a revoked device again, with
\* no account either way.
PairDevice(d) ==
  /\ devices[d].pairing # "paired"
  /\ devices' = [devices EXCEPT ![d] = Unbound("paired")]
  /\ proof' = [proof EXCEPT ![d] = NoPassword]
  /\ UNCHANGED <<accounts, requests>>

RevokePairedDevice(d) ==
  /\ devices[d].pairing = "paired"
  /\ devices' = [devices EXCEPT ![d] = Unbound("revoked")]
  /\ proof' = [proof EXCEPT ![d] = NoPassword]
  /\ UNCHANGED <<accounts, requests>>

-----------------------------------------------------------------------------
(* Sessions: routes/auth.js.                                                 *)

\* POST /login up to the await of verifyAccountPassword.  The account found by
\* its username is remembered as it was read.  A wrong password only reaches the
\* rate limiter, so only attempts with the right one are started here.
StartLogin(r, d, a, given) ==
  /\ requests[r].op = "idle"
  /\ devices[d].pairing = "paired"
  /\ HasSession(d) => ~accounts[devices[d].account].mustChange
  /\ Known(a)
  /\ accounts[a].password = given
  /\ requests' = [requests EXCEPT ![r] =
                    [op |-> "login", device |-> d, account |-> a,
                     authVersion |-> accounts[a].authVersion,
                     password |-> given]]
  /\ UNCHANGED <<accounts, devices, proof>>

\* Mutant of LoginStillUsable: the row read again is not compared with the one read.
LoginAccountActive(r) == accounts[requests[r].account].status = "active"

\* usableAccount: the account, read again after the await, is the one verified.
LoginStillUsable(r) ==
  LET q == requests[r]
      current == accounts[q.account]
  IN  /\ current.status = "active"
      /\ current.password = q.password
      /\ current.authVersion = q.authVersion

CompleteLogin(r) ==
  LET q == requests[r]
  IN  /\ q.op = "login"
      /\ LoginStillUsable(r)
      /\ BindAccountToDevice(q.device, q.account, accounts[q.account].authVersion,
                             q.password)
      /\ Finish(r)
      /\ UNCHANGED accounts

\* ACCOUNT_CREDENTIALS_INVALID, or DEVICE_UNAVAILABLE
RejectLogin(r) ==
  /\ requests[r].op = "login"
  /\ ~(LoginStillUsable(r) /\ devices[requests[r].device].pairing = "paired")
  /\ Finish(r)
  /\ UNCHANGED <<accounts, devices, proof>>

\* POST /logout
Logout(d) ==
  /\ devices[d].pairing = "paired"
  /\ ClearDeviceAccountBinding(d)
  /\ UNCHANGED <<accounts, requests>>

\* Any request of a device whose binding resolveDeviceAccount refuses.
DropInvalidBinding(d) ==
  /\ devices[d].pairing = "paired"
  /\ devices[d].account # NoAccount
  /\ ~BindingValid(d)
  /\ ClearDeviceAccountBinding(d)
  /\ UNCHANGED <<accounts, requests>>

\* PUT /password of account a, from device d or the local browser, up to the
\* await.  An account with a password has shown it; without one, the first
\* password may be set locally or from a legacy binding.
StartPasswordChange(r, d, a) ==
  /\ requests[r].op = "idle"
  /\ IF d = LocalBrowser THEN ResolvesLocalAdmin(a)
                         ELSE HasSession(d) /\ devices[d].account = a
  /\ \/ accounts[a].password # NoPassword
     \/ d = LocalBrowser
     \/ d # LocalBrowser /\ devices[d].source = "legacy"
  /\ requests' = [requests EXCEPT ![r] =
                    [op |-> "change", device |-> d, account |-> a,
                     authVersion |-> accounts[a].authVersion,
                     password |-> NoPassword]]
  /\ UNCHANGED <<accounts, devices, proof>>

\* The binding and the account are what they were when the request came in.
ChangeStillAllowed(r) ==
  LET q == requests[r]
  IN  /\ q.device # LocalBrowser =>
           /\ devices[q.device].pairing = "paired"
           /\ devices[q.device].account = q.account
           /\ devices[q.device].authVersion = q.authVersion
      /\ accounts[q.account].authVersion = q.authVersion
      /\ accounts[q.account].status = "active"

\* The transaction: new hash, new auth_version, and this device bound to it.
CompletePasswordChange(r, new) ==
  LET q == requests[r]
      version == q.authVersion + 1
  IN  /\ q.op = "change"
      /\ ChangeStillAllowed(r)
      /\ version <= MaxVersion
      /\ accounts' = [accounts EXCEPT
                        ![q.account].password = new,
                        ![q.account].mustChange = FALSE,
                        ![q.account].authVersion = version]
      /\ IF q.device = LocalBrowser
         THEN UNCHANGED <<devices, proof>>
         ELSE BindAccountToDevice(q.device, q.account, version, new)
      /\ Finish(r)

\* ACCOUNT_SESSION_EXPIRED: the transaction rolls back.
RejectPasswordChange(r) ==
  /\ requests[r].op = "change"
  /\ ~ChangeStillAllowed(r)
  /\ Finish(r)
  /\ UNCHANGED <<accounts, devices, proof>>

-----------------------------------------------------------------------------
(* Account administration: routes/admin-accounts.js.                         *)

\* What a role keeps of the sections asked for: an admin has all of them.
StoredSections(role, sections) == IF role = "admin" THEN Sections ELSE sections

\* createManagedAccount up to the await of hashAccountPassword.
StartCreate(r, actor) ==
  /\ requests[r].op = "idle"
  /\ AdminRequest(actor)
  /\ requests' = [requests EXCEPT ![r] = [Idle EXCEPT !.op = "create"]]
  /\ UNCHANGED <<accounts, devices, proof>>

\* createAccount; its input is chosen here, nothing before the await depends on it.
CompleteCreate(r, a, role, sections, password, mustChange) ==
  /\ requests[r].op = "create"
  /\ accounts[a].status = "absent"
  /\ accounts' = [accounts EXCEPT ![a] =
                    [status |-> "active", role |-> role, authVersion |-> 1,
                     password |-> password, mustChange |-> mustChange,
                     sections |-> StoredSections(role, sections)]]
  /\ Finish(r)
  /\ UNCHANGED <<devices, proof>>

\* USERNAME_EXISTS: the name was taken while the hash was computed.
RejectCreate(r) ==
  /\ requests[r].op = "create"
  /\ Finish(r)
  /\ UNCHANGED <<accounts, devices, proof>>

\* authorizationChanged of updateAccount
AuthorizationChanged(a, role, sections, status) ==
  \/ role # accounts[a].role
  \/ status # accounts[a].status
  \/ StoredSections(role, sections) # accounts[a].sections

\* updateAccount, in one transaction, with the role, sections and status the body
\* asks for or the current ones where it asks for nothing.
UpdateAccount(a, role, sections, status) ==
  LET version == IF AuthorizationChanged(a, role, sections, status)
                 THEN accounts[a].authVersion + 1 ELSE accounts[a].authVersion
  IN  /\ (role # "admin" \/ status = "disabled") => CanRemoveActiveAdmin(a)
      /\ version <= MaxVersion
      /\ accounts' = [accounts EXCEPT
                        ![a] = [accounts[a] EXCEPT
                                  !.role = role, !.status = status,
                                  !.sections = StoredSections(role, sections),
                                  !.authVersion = version]]

\* The checks of the route and of updateManagedAccount before that transaction.
MayUpdate(actor, a, role, status) ==
  /\ AdminRequest(actor)
  /\ Known(a)
  /\ actor = a => role = accounts[a].role /\ status # "disabled"

UpdateManagedAccount(actor, a, role, sections, status) ==
  /\ MayUpdate(actor, a, role, status)
  /\ UpdateAccount(a, role, sections, status)
  /\ IF AuthorizationChanged(a, role, sections, status)
     THEN ClearAccountDeviceBindings(a)
     ELSE UNCHANGED <<devices, proof>>
  /\ UNCHANGED requests

\* The bindings are cleared outside that transaction: the process may stop before.
UpdateManagedAccountCut(actor, a, role, sections, status) ==
  /\ MayUpdate(actor, a, role, status)
  /\ UpdateAccount(a, role, sections, status)
  /\ AuthorizationChanged(a, role, sections, status)
  /\ requests' = [r \in Requests |-> Idle]
  /\ UNCHANGED <<devices, proof>>

\* resetManagedPassword up to the await.
StartReset(r, actor, a) ==
  /\ requests[r].op = "idle"
  /\ AdminRequest(actor)
  /\ actor # a
  /\ Known(a)
  /\ requests' = [requests EXCEPT ![r] =
                    [Idle EXCEPT !.op = "reset", !.account = a,
                                 !.authVersion = accounts[a].authVersion]]
  /\ UNCHANGED <<accounts, devices, proof>>

\* The account still exists and was not changed during the await.
ResetStillAllowed(r) ==
  LET q == requests[r]
  IN  Known(q.account) /\ accounts[q.account].authVersion = q.authVersion

CompleteReset(r, new, mustChange) ==
  LET a == requests[r].account
  IN  /\ requests[r].op = "reset"
      /\ ResetStillAllowed(r)
      /\ accounts[a].authVersion < MaxVersion
      /\ accounts' = [accounts EXCEPT ![a].password = new,
                                     ![a].mustChange = mustChange,
                                     ![a].authVersion = @ + 1]
      /\ ClearAccountDeviceBindings(a)
      /\ Finish(r)

\* ACCOUNT_CHANGED or ACCOUNT_NOT_FOUND
RejectReset(r) ==
  /\ requests[r].op = "reset"
  /\ ~ResetStillAllowed(r)
  /\ Finish(r)
  /\ UNCHANGED <<accounts, devices, proof>>

LogoutManagedAccountDevices(actor, a) ==
  /\ AdminRequest(actor)
  /\ actor # a
  /\ Known(a)
  /\ ClearAccountDeviceBindings(a)
  /\ UNCHANGED <<accounts, requests>>

\* softDeleteAccount and the bindings, in one transaction.
DeleteManagedAccount(actor, a) ==
  /\ AdminRequest(actor)
  /\ actor # a
  /\ Known(a)
  /\ CanRemoveActiveAdmin(a)
  /\ accounts[a].authVersion < MaxVersion
  /\ accounts' = [accounts EXCEPT ![a].status = "deleted",
                                 ![a].authVersion = @ + 1]
  /\ ClearAccountDeviceBindings(a)
  /\ UNCHANGED requests

-----------------------------------------------------------------------------
\* The server stops and starts again: the database stays, handlers are lost.
Restart ==
  /\ \E r \in Requests : requests[r].op # "idle"
  /\ requests' = [r \in Requests |-> Idle]
  /\ UNCHANGED <<accounts, devices, proof>>

DeviceStep ==
  \E d \in Devices : PairDevice(d) \/ RevokePairedDevice(d)

SessionStep ==
  \/ \E d \in Devices : Logout(d) \/ DropInvalidBinding(d)
  \/ \E r \in Requests, d \in Devices, a \in Accounts, p \in Passwords :
       StartLogin(r, d, a, p)
  \/ \E r \in Requests, d \in Devices \cup {LocalBrowser}, a \in Accounts :
       StartPasswordChange(r, d, a)
  \/ \E r \in Requests : \/ CompleteLogin(r)
                         \/ RejectLogin(r)
                         \/ RejectPasswordChange(r)
  \/ \E r \in Requests, new \in Passwords : CompletePasswordChange(r, new)

AdminStep ==
  \/ \E r \in Requests, actor \in Accounts : StartCreate(r, actor)
  \/ \E r \in Requests, a \in Accounts, role \in Roles, s \in SUBSET Sections,
        p \in Passwords, m \in BOOLEAN : CompleteCreate(r, a, role, s, p, m)
  \/ \E r \in Requests, actor, a \in Accounts : StartReset(r, actor, a)
  \/ \E r \in Requests, new \in Passwords, m \in BOOLEAN : CompleteReset(r, new, m)
  \/ \E r \in Requests : RejectCreate(r) \/ RejectReset(r)
  \/ \E actor, a \in Accounts, role \in Roles, s \in SUBSET Sections,
        status \in {"active", "disabled"} :
       \/ UpdateManagedAccount(actor, a, role, s, status)
       \/ UpdateManagedAccountCut(actor, a, role, s, status)
  \/ \E actor, a \in Accounts : \/ LogoutManagedAccountDevices(actor, a)
                                \/ DeleteManagedAccount(actor, a)

Next == DeviceStep \/ SessionStep \/ AdminStep \/ Restart

Spec == Init /\ [][Next]_vars

-----------------------------------------------------------------------------
(* Properties.                                                               *)

\* Every row has the shape of its table, a binding's four columns are NULL
\* together, and an absent account is in nobody's hands.
TypeOK ==
  /\ accounts \in [Accounts -> Account]
  /\ devices \in [Devices -> Device]
  /\ requests \in [Requests -> Request]
  /\ proof \in [Devices -> Passwords \cup {NoPassword}]
  /\ \A d \in Devices :
       devices[d].account = NoAccount => devices[d] = Unbound(devices[d].pairing)

\* Deve rimanere almeno un amministratore attivo: whatever admins do to each
\* other, concurrently or not, one active admin is left to undo it.
ActiveAdminRemains ==
  \E a \in Accounts : accounts[a].status = "active" /\ accounts[a].role = "admin"

\* A session in use was opened with the password its account has now.  A change
\* or reset of the password ends the sessions the old one opened, whatever login
\* was awaiting scrypt meanwhile; a legacy session, which no password opened,
\* ends when the account first gets one.
SessionsProveCurrentPassword ==
  \A d \in Devices : HasSession(d) =>
    CASE devices[d].source = "login" -> proof[d] = accounts[devices[d].account].password
      [] devices[d].source = "legacy" -> accounts[devices[d].account].password = NoPassword
      [] OTHER -> FALSE

\* The session an onlooker sees on device d.
SessionOf(d) == IF HasSession(d) THEN devices[d].account ELSE NoAccount

\* The standing of an account its sessions depend on.
StandingOf(a) ==
  [status |-> accounts[a].status, role |-> accounts[a].role,
   sections |-> accounts[a].sections, password |-> accounts[a].password]

StandingSet ==
  [status : Statuses, role : Roles, sections : SUBSET Sections,
   password : Passwords \cup {NoPassword}]

Rights == INSTANCE AccountRights WITH
  Standings <- StandingSet,
  Usable <- {s \in StandingSet : s.status = "active"},
  standing <- [a \in Accounts |-> StandingOf(a)],
  session <- [d \in Devices |-> SessionOf(d)]

\* The handlers keep the promise of AccountRights: sessions are opened one by one
\* on active accounts, and any change of an account's status, role, sections or
\* password ends all its sessions but that of the device changing its password.
RightsKept == Rights!Spec
=============================================================================
