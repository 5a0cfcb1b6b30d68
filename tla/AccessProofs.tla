---------------------------- MODULE AccessProofs ----------------------------
(***************************************************************************)
(* Proofs about who is let in, AccountSessions and DeviceTrust.            *)
(*                                                                         *)
(* For any number of accounts, devices and handlers in flight: sessions    *)
(* prove the current password, an active admin remains, and the handlers   *)
(* implement AccountRights.                                                *)
(*                                                                         *)
(* For any number of keys, invites and requests, and any window a          *)
(* signature is good for: a signed request is acted on once, and an invite *)
(* admits one device.  The invariant adds to these what the replay cache   *)
(* remembers: of every nonce accepted since the start, an entry that       *)
(* outlives its window, or the window is over.  It is what the clock set   *)
(* back destroys.                                                          *)
(***************************************************************************)
EXTENDS AccountSessions, DeviceTrust, TLAPS

\* A binding never runs ahead of its account's auth_version; a binding that is
\* level with it was opened with the account's current password.
BindingsSound ==
  \A d \in Devices :
    LET b == devices[d] IN
    b.account # NoAccount =>
      /\ accounts[b.account].status # "absent"
      /\ b.authVersion <= accounts[b.account].authVersion
      /\ b.source # "none"
      /\ b.authVersion = accounts[b.account].authVersion =>
           /\ b.source = "login" => proof[d] = accounts[b.account].password
           /\ b.source = "legacy" => accounts[b.account].password = NoPassword

\* A handler that awaits scrypt for an account remembers one that was created.
RequestsSound ==
  \A r \in Requests :
    LET q == requests[r] IN
    /\ q.op \in {"login", "change", "reset"} =>
         /\ q.account \in Accounts
         /\ accounts[q.account].status # "absent"
         /\ q.authVersion <= accounts[q.account].authVersion
    /\ q.op = "login" => q.device \in Devices

Inv == TypeOK /\ BindingsSound /\ RequestsSound

-----------------------------------------------------------------------------
LEMMA InitInv == Init => Inv
<1>. SUFFICES ASSUME Init PROVE Inv
  OBVIOUS
<1>1. TypeOK
  BY ConstantsAssumption
  DEF Init, TypeOK, Account, Device, Request, Idle, Unbound, LegacyBound,
      AbsentAccount, Statuses, Roles
<1>2. BindingsSound
  BY ConstantsAssumption DEF Init, BindingsSound, Unbound, LegacyBound
<1>3. RequestsSound
  BY DEF Init, RequestsSound, Idle
<1>. QED BY <1>1, <1>2, <1>3 DEF Inv

-----------------------------------------------------------------------------
(* The writes several handlers share.                                        *)

\* Clearing one device's row keeps the tables typed and every other row as it was.
LEMMA UnboundRow ==
  ASSUME Inv, NEW d \in Devices, NEW p \in {"unpaired", "paired", "revoked"},
         devices' = [devices EXCEPT ![d] = Unbound(p)],
         proof' = [proof EXCEPT ![d] = NoPassword],
         accounts' = accounts, requests' = requests
  PROVE  Inv'
<1>1. TypeOK'
  BY DEF Inv, TypeOK, Device, Unbound
<1>2. BindingsSound'
  BY DEF Inv, TypeOK, Device, BindingsSound, Unbound
<1>3. RequestsSound'
  BY DEF Inv, RequestsSound
<1>. QED BY <1>1, <1>2, <1>3 DEF Inv

\* After clearAccountDeviceBindings no row refers to the account any more, and
\* the other rows are untouched.
LEMMA ClearedRows ==
  ASSUME Inv, NEW a \in Accounts, ClearAccountDeviceBindings(a)
  PROVE  /\ devices' \in [Devices -> Device]
         /\ proof' \in [Devices -> Passwords \cup {NoPassword}]
         /\ \A d \in Devices :
              /\ devices'[d].pairing = devices[d].pairing
              /\ devices'[d].account # a
              /\ devices'[d].account # NoAccount =>
                   devices'[d] = devices[d] /\ proof'[d] = proof[d]
              /\ devices'[d].account = NoAccount =>
                   devices'[d] = Unbound(devices'[d].pairing)
  BY ConstantsAssumption
  DEF Inv, TypeOK, Device, ClearAccountDeviceBindings, ClearedBinding, Unbound

\* A row changed to carry a higher auth_version, with every binding to it
\* cleared, keeps the invariant.
LEMMA AmendedAccount ==
  ASSUME Inv, NEW a \in Accounts, NEW row \in Account,
         accounts' = [accounts EXCEPT ![a] = row],
         row.status # "absent",
         accounts[a].authVersion <= row.authVersion,
         ClearAccountDeviceBindings(a),
         \A r \in Requests : requests'[r] \in {requests[r], Idle},
         requests' \in [Requests -> Request]
  PROVE  Inv'
<1>1. TypeOK'
  BY ClearedRows DEF Inv, TypeOK
<1>2. BindingsSound'
  BY ClearedRows DEF Inv, TypeOK, Device, BindingsSound
<1>3. RequestsSound'
  BY DEF Inv, TypeOK, Account, Request, RequestsSound, Idle
<1>. QED BY <1>1, <1>2, <1>3 DEF Inv

\* Ending a handler without writing to the database keeps the invariant.
LEMMA RequestDropped ==
  ASSUME Inv, UNCHANGED <<accounts, devices, proof>>,
         requests' \in [Requests -> Request],
         \A r \in Requests : requests'[r] \in {requests[r], Idle}
  PROVE  Inv'
<1>1. TypeOK'
  BY DEF Inv, TypeOK, Unbound
<1>2. BindingsSound'
  BY DEF Inv, BindingsSound
<1>3. RequestsSound'
  BY DEF Inv, TypeOK, RequestsSound, Idle
<1>. QED BY <1>1, <1>2, <1>3 DEF Inv

LEMMA FinishDrops ==
  ASSUME Inv, NEW r \in Requests, Finish(r)
  PROVE  /\ requests' \in [Requests -> Request]
         /\ \A s \in Requests : requests'[s] \in {requests[s], Idle}
  BY ConstantsAssumption DEF Inv, TypeOK, Finish, Idle, Request

\* A handler that starts remembers the current version of the account.
LEMMA RequestStarted ==
  ASSUME Inv, UNCHANGED <<accounts, devices, proof>>,
         NEW r \in Requests, NEW q \in Request,
         requests' = [requests EXCEPT ![r] = q],
         q.op \in {"login", "change", "reset"} =>
           /\ q.account \in Accounts
           /\ accounts[q.account].status # "absent"
           /\ q.authVersion = accounts[q.account].authVersion,
         q.op = "login" => q.device \in Devices
  PROVE  Inv'
<1>1. TypeOK'
  BY DEF Inv, TypeOK, Unbound
<1>2. BindingsSound'
  BY DEF Inv, BindingsSound
<1>3. RequestsSound'
  BY DEF Inv, TypeOK, Account, RequestsSound
<1>. QED BY <1>1, <1>2, <1>3 DEF Inv

-----------------------------------------------------------------------------
(* One lemma per action that writes to both tables or to a row.              *)

LEMMA CompleteLoginInv ==
  ASSUME Inv, NEW r \in Requests, CompleteLogin(r)
  PROVE  Inv'
<1>. DEFINE q == requests[r]
<1>1. /\ q \in Request /\ q.account \in Accounts /\ q.device \in Devices
      /\ accounts[q.account] \in Account
      /\ accounts[q.account].status = "active"
      /\ accounts[q.account].password = q.password
  BY DEF Inv, TypeOK, RequestsSound, CompleteLogin, LoginStillUsable
<1>2. /\ accounts' = accounts
      /\ devices' = [devices EXCEPT ![q.device] =
           [pairing |-> "paired", account |-> q.account,
            authVersion |-> accounts[q.account].authVersion, source |-> "login"]]
      /\ proof' = [proof EXCEPT ![q.device] = q.password]
  BY DEF CompleteLogin, BindAccountToDevice
<1>3. /\ requests' \in [Requests -> Request]
      /\ \A s \in Requests : requests'[s] \in {requests[s], Idle}
  BY FinishDrops DEF CompleteLogin
<1>4. TypeOK'
  BY <1>1, <1>2, <1>3, ConstantsAssumption
  DEF Inv, TypeOK, Device, Account, Request, Unbound
<1>5. BindingsSound'
  BY <1>1, <1>2, ConstantsAssumption DEF Inv, TypeOK, Device, Account, BindingsSound
<1>6. RequestsSound'
  BY <1>2, <1>3 DEF Inv, RequestsSound, Idle
<1>. QED BY <1>4, <1>5, <1>6 DEF Inv

LEMMA CompletePasswordChangeInv ==
  ASSUME Inv, NEW r \in Requests, NEW new \in Passwords,
         CompletePasswordChange(r, new)
  PROVE  Inv'
<1>. DEFINE q == requests[r]
            a == q.account
            version == q.authVersion + 1
            row == [accounts[a] EXCEPT !.password = new, !.mustChange = FALSE,
                                       !.authVersion = version]
<1>1. /\ q \in Request /\ a \in Accounts
      /\ accounts[a] \in Account
      /\ accounts[a].status = "active"
      /\ accounts[a].authVersion = q.authVersion
  BY DEF Inv, TypeOK, RequestsSound, CompletePasswordChange, ChangeStillAllowed
<1>2. /\ row \in Account
      /\ row.status = "active" /\ row.authVersion = version /\ row.password = new
      /\ accounts[a].authVersion < version
  <2>1. version \in Nat /\ accounts[a].authVersion < version
    BY <1>1 DEF Request
  <2>. HIDE DEF version, a
  <2>. QED BY <1>1, <2>1 DEF Account
<1>3. accounts' = [accounts EXCEPT ![a] = row]
  BY <1>1 DEF CompletePasswordChange, Inv, TypeOK
<1>4. /\ requests' \in [Requests -> Request]
      /\ \A s \in Requests : requests'[s] \in {requests[s], Idle}
  BY FinishDrops DEF CompletePasswordChange
<1>5. RequestsSound'
  BY <1>1, <1>2, <1>3, <1>4 DEF Inv, TypeOK, Account, Request, RequestsSound, Idle
<1>6. CASE q.device = LocalBrowser
  <2>1. UNCHANGED <<devices, proof>>
    BY <1>6 DEF CompletePasswordChange
  <2>2. TypeOK'
    BY <1>2, <1>3, <1>4, <2>1 DEF Inv, TypeOK, Unbound
  <2>3. BindingsSound'
    BY <1>1, <1>2, <1>3, <2>1 DEF Inv, TypeOK, Account, Device, BindingsSound
  <2>. QED BY <1>5, <2>2, <2>3 DEF Inv
<1>7. CASE q.device # LocalBrowser
  <2>1. /\ q.device \in Devices
        /\ devices' = [devices EXCEPT ![q.device] =
             [pairing |-> "paired", account |-> a, authVersion |-> version,
              source |-> "login"]]
        /\ proof' = [proof EXCEPT ![q.device] = new]
    BY <1>1, <1>7 DEF CompletePasswordChange, BindAccountToDevice, Request
  <2>2. TypeOK'
    BY <1>1, <1>2, <1>3, <1>4, <2>1, ConstantsAssumption
    DEF Inv, TypeOK, Device, Request, Unbound
  <2>3. BindingsSound'
    BY <1>1, <1>2, <1>3, <2>1, ConstantsAssumption
    DEF Inv, TypeOK, Account, Device, BindingsSound
  <2>. QED BY <1>5, <2>2, <2>3 DEF Inv
<1>. QED BY <1>6, <1>7

LEMMA CompleteCreateInv ==
  ASSUME Inv, NEW r \in Requests, NEW a \in Accounts, NEW role \in Roles,
         NEW s \in SUBSET Sections, NEW p \in Passwords, NEW m \in BOOLEAN,
         CompleteCreate(r, a, role, s, p, m)
  PROVE  Inv'
<1>. DEFINE row == [status |-> "active", role |-> role, authVersion |-> 1,
                    password |-> p, mustChange |-> m,
                    sections |-> StoredSections(role, s)]
<1>1. /\ accounts' = [accounts EXCEPT ![a] = row]
      /\ accounts[a].status = "absent"
      /\ UNCHANGED <<devices, proof>>
  BY DEF CompleteCreate
<1>2. row \in Account
  BY DEF Account, Roles, Statuses, StoredSections
<1>3. /\ requests' \in [Requests -> Request]
      /\ \A t \in Requests : requests'[t] \in {requests[t], Idle}
  BY FinishDrops DEF CompleteCreate
<1>4. TypeOK'
  BY <1>1, <1>2, <1>3 DEF Inv, TypeOK, Unbound
<1>5. BindingsSound'
  BY <1>1 DEF Inv, TypeOK, Device, BindingsSound
<1>6. RequestsSound'
  BY <1>1, <1>3 DEF Inv, TypeOK, Request, RequestsSound, Idle
<1>. QED BY <1>4, <1>5, <1>6 DEF Inv

\* The row updateAccount writes: typed, never absent, at its old auth_version only
\* when nothing else of it changed.
LEMMA UpdatedRow ==
  ASSUME Inv, NEW a \in Accounts, NEW role \in Roles, NEW s \in SUBSET Sections,
         NEW status \in {"active", "disabled"}, UpdateAccount(a, role, s, status)
  PROVE  \E row \in Account :
           /\ accounts' = [accounts EXCEPT ![a] = row]
           /\ row.status # "absent"
           /\ IF AuthorizationChanged(a, role, s, status)
              THEN accounts[a].authVersion < row.authVersion
              ELSE accounts' = accounts
<1>. DEFINE current == accounts[a]
            stored == StoredSections(role, s)
            changed == AuthorizationChanged(a, role, s, status)
            version == IF changed THEN current.authVersion + 1
                                  ELSE current.authVersion
            row == [current EXCEPT !.role = role, !.status = status,
                      !.sections = stored, !.authVersion = version]
<1>1. accounts' = [accounts EXCEPT ![a] = row]
  BY DEF UpdateAccount
<1>2. current \in Account /\ current.authVersion \in Nat
  BY DEF Inv, TypeOK, Account
<1>3. stored \in SUBSET Sections
  BY DEF StoredSections
<1>4. /\ version \in Nat
      /\ changed => current.authVersion < version
  <2>. HIDE DEF current, changed
  <2>. QED BY <1>2
<1>5. row \in Account /\ row.status # "absent" /\ row.authVersion = version
  <2>. HIDE DEF stored, version, current
  <2>. QED BY <1>2, <1>3, <1>4 DEF Account, Statuses
<1>6. ASSUME ~changed PROVE accounts' = accounts
  <2>1. role = current.role /\ status = current.status /\ stored = current.sections
    BY <1>6 DEF AuthorizationChanged
  <2>2. version = current.authVersion
    BY <1>6
  <2>3. row = current
    <3>. HIDE DEF stored, version, current
    <3>. QED BY <1>2, <2>1, <2>2 DEF Account
  <2>. HIDE DEF row
  <2>. QED BY <1>1, <2>3 DEF Inv, TypeOK
<1>. HIDE DEF row, changed, version
<1>. QED BY <1>1, <1>4, <1>5, <1>6 DEF changed

LEMMA UpdateManagedAccountInv ==
  ASSUME Inv, NEW actor \in Accounts, NEW a \in Accounts, NEW role \in Roles,
         NEW s \in SUBSET Sections, NEW status \in {"active", "disabled"},
         UpdateManagedAccount(actor, a, role, s, status)
  PROVE  Inv'
<1>1. PICK row \in Account :
        /\ accounts' = [accounts EXCEPT ![a] = row]
        /\ row.status # "absent"
        /\ IF AuthorizationChanged(a, role, s, status)
           THEN accounts[a].authVersion < row.authVersion
           ELSE accounts' = accounts
  BY UpdatedRow DEF UpdateManagedAccount
<1>2. /\ requests' = requests /\ requests' \in [Requests -> Request]
      /\ \A r \in Requests : requests'[r] \in {requests[r], Idle}
  BY DEF Inv, TypeOK, UpdateManagedAccount
<1>3. CASE AuthorizationChanged(a, role, s, status)
  <2>1. ClearAccountDeviceBindings(a)
    BY <1>3 DEF UpdateManagedAccount
  <2>2. accounts[a].authVersion <= row.authVersion
    BY <1>1, <1>3 DEF Inv, TypeOK, Account
  <2>. QED BY <1>1, <1>2, <2>1, <2>2, AmendedAccount
<1>4. CASE ~AuthorizationChanged(a, role, s, status)
  <2>1. UNCHANGED <<accounts, devices, proof>>
    BY <1>1, <1>4 DEF UpdateManagedAccount
  <2>. QED BY <1>2, <2>1, RequestDropped
<1>. QED BY <1>3, <1>4

\* With the bindings left behind: they are one auth_version late.
LEMMA UpdateManagedAccountCutInv ==
  ASSUME Inv, NEW actor \in Accounts, NEW a \in Accounts, NEW role \in Roles,
         NEW s \in SUBSET Sections, NEW status \in {"active", "disabled"},
         UpdateManagedAccountCut(actor, a, role, s, status)
  PROVE  Inv'
<1>1. PICK row \in Account :
        /\ accounts' = [accounts EXCEPT ![a] = row]
        /\ row.status # "absent"
        /\ accounts[a].authVersion < row.authVersion
  BY UpdatedRow DEF UpdateManagedAccountCut
<1>2. /\ requests' = [r \in Requests |-> Idle]
      /\ UNCHANGED <<devices, proof>>
  BY DEF UpdateManagedAccountCut
<1>3. TypeOK'
  BY <1>1, <1>2, ConstantsAssumption DEF Inv, TypeOK, Unbound, Idle, Request
<1>4. BindingsSound'
  BY <1>1, <1>2 DEF Inv, TypeOK, Account, Device, BindingsSound
<1>5. RequestsSound'
  BY <1>2 DEF RequestsSound, Idle
<1>. QED BY <1>3, <1>4, <1>5 DEF Inv

LEMMA CompleteResetInv ==
  ASSUME Inv, NEW r \in Requests, NEW new \in Passwords, NEW m \in BOOLEAN,
         CompleteReset(r, new, m)
  PROVE  Inv'
<1>. DEFINE a == requests[r].account
            version == accounts[a].authVersion + 1
            row == [accounts[a] EXCEPT !.password = new, !.mustChange = m,
                                       !.authVersion = version]
<1>1. a \in Accounts /\ accounts[a] \in Account /\ accounts[a].status # "absent"
  BY DEF Inv, TypeOK, RequestsSound, CompleteReset
<1>2. /\ accounts' = [accounts EXCEPT ![a] = row]
      /\ ClearAccountDeviceBindings(a)
  BY <1>1 DEF CompleteReset, Inv, TypeOK
<1>3. /\ row \in Account
      /\ row.status # "absent"
      /\ accounts[a].authVersion <= row.authVersion
  <2>1. version \in Nat /\ accounts[a].authVersion <= version
    BY <1>1 DEF Account
  <2>. HIDE DEF version, a
  <2>. QED BY <1>1, <2>1 DEF Account
<1>4. /\ requests' \in [Requests -> Request]
      /\ \A s \in Requests : requests'[s] \in {requests[s], Idle}
  BY FinishDrops DEF CompleteReset
<1>. HIDE DEF row, a
<1>. QED BY <1>1, <1>2, <1>3, <1>4, AmendedAccount

LEMMA DeleteManagedAccountInv ==
  ASSUME Inv, NEW actor \in Accounts, NEW a \in Accounts,
         DeleteManagedAccount(actor, a)
  PROVE  Inv'
<1>. DEFINE version == accounts[a].authVersion + 1
            row == [accounts[a] EXCEPT !.status = "deleted",
                                       !.authVersion = version]
<1>1. accounts[a] \in Account
  BY DEF Inv, TypeOK
<1>2. /\ accounts' = [accounts EXCEPT ![a] = row]
      /\ ClearAccountDeviceBindings(a)
      /\ UNCHANGED requests
  BY <1>1 DEF DeleteManagedAccount, Inv, TypeOK
<1>3. /\ row \in Account
      /\ row.status # "absent"
      /\ accounts[a].authVersion <= row.authVersion
  <2>1. version \in Nat /\ accounts[a].authVersion <= version
    BY <1>1 DEF Account
  <2>. HIDE DEF version
  <2>. QED BY <1>1, <2>1 DEF Account, Statuses
<1>4. /\ requests' \in [Requests -> Request]
      /\ \A r \in Requests : requests'[r] \in {requests[r], Idle}
  BY <1>2 DEF Inv, TypeOK
<1>. HIDE DEF row
<1>. QED BY <1>1, <1>2, <1>3, <1>4, AmendedAccount

LEMMA LogoutManagedAccountDevicesInv ==
  ASSUME Inv, NEW actor \in Accounts, NEW a \in Accounts,
         LogoutManagedAccountDevices(actor, a)
  PROVE  Inv'
<1>. DEFINE row == accounts[a]
<1>1. row \in Account /\ row.status # "absent"
  BY DEF Inv, TypeOK, LogoutManagedAccountDevices, Known
<1>2. /\ accounts' = [accounts EXCEPT ![a] = row]
      /\ ClearAccountDeviceBindings(a)
      /\ UNCHANGED requests
  BY DEF LogoutManagedAccountDevices, Inv, TypeOK
<1>3. accounts[a].authVersion <= row.authVersion
  BY <1>1 DEF Account
<1>4. /\ requests' \in [Requests -> Request]
      /\ \A r \in Requests : requests'[r] \in {requests[r], Idle}
  BY <1>2 DEF Inv, TypeOK
<1>. HIDE DEF row
<1>. QED BY <1>1, <1>2, <1>3, <1>4, AmendedAccount

-----------------------------------------------------------------------------
(* The handlers, grouped as Next groups them.                                *)

LEMMA DeviceStepInv == Inv /\ DeviceStep => Inv'
<1>. SUFFICES ASSUME Inv, NEW d \in Devices, PairDevice(d) \/ RevokePairedDevice(d)
              PROVE  Inv'
  BY DEF DeviceStep
<1>. QED BY UnboundRow DEF PairDevice, RevokePairedDevice

LEMMA ClearDeviceInv ==
  ASSUME Inv, NEW d \in Devices, ClearDeviceAccountBinding(d),
         UNCHANGED <<accounts, requests>>
  PROVE  Inv'
<1>1. devices[d].pairing \in {"unpaired", "paired", "revoked"}
  BY DEF Inv, TypeOK, Device
<1>. QED BY <1>1, UnboundRow DEF ClearDeviceAccountBinding, ClearedBinding

LEMMA StartLoginInv ==
  ASSUME Inv, NEW r \in Requests, NEW d \in Devices, NEW a \in Accounts,
         NEW p \in Passwords, StartLogin(r, d, a, p)
  PROVE  Inv'
<1>. DEFINE q == [op |-> "login", device |-> d, account |-> a,
                  authVersion |-> accounts[a].authVersion, password |-> p]
<1>1. q \in Request /\ accounts[a].status # "absent"
  BY DEF Inv, TypeOK, Request, Account, StartLogin, Known
<1>2. requests' = [requests EXCEPT ![r] = q] /\ UNCHANGED <<accounts, devices, proof>>
  BY DEF StartLogin
<1>. QED BY <1>1, <1>2, RequestStarted

LEMMA StartPasswordChangeInv ==
  ASSUME Inv, NEW r \in Requests, NEW d \in Devices \cup {LocalBrowser},
         NEW a \in Accounts, StartPasswordChange(r, d, a)
  PROVE  Inv'
<1>. DEFINE q == [op |-> "change", device |-> d, account |-> a,
                  authVersion |-> accounts[a].authVersion,
                  password |-> NoPassword]
<1>1. q \in Request /\ accounts[a].status # "absent"
  BY DEF Inv, TypeOK, Request, Account, StartPasswordChange, ResolvesLocalAdmin,
         ActiveAdmin, HasSession, BindingValid
<1>2. requests' = [requests EXCEPT ![r] = q] /\ UNCHANGED <<accounts, devices, proof>>
  BY DEF StartPasswordChange
<1>. QED BY <1>1, <1>2, RequestStarted

LEMMA SessionStepInv == Inv /\ SessionStep => Inv'
<1>. SUFFICES ASSUME Inv, SessionStep PROVE Inv'
  OBVIOUS
<1>1. ASSUME NEW d \in Devices, Logout(d) \/ DropInvalidBinding(d) PROVE Inv'
  BY <1>1, ClearDeviceInv DEF Logout, DropInvalidBinding
<1>2. ASSUME NEW r \in Requests, RejectLogin(r) \/ RejectPasswordChange(r)
      PROVE  Inv'
  BY <1>2, FinishDrops, RequestDropped DEF RejectLogin, RejectPasswordChange
<1>. QED BY <1>1, <1>2, StartLoginInv, StartPasswordChangeInv, CompleteLoginInv,
            CompletePasswordChangeInv DEF SessionStep

LEMMA AdminStepInv == Inv /\ AdminStep => Inv'
<1>. SUFFICES ASSUME Inv, AdminStep PROVE Inv'
  OBVIOUS
<1>1. ASSUME NEW r \in Requests, NEW actor \in Accounts, StartCreate(r, actor)
      PROVE  Inv'
  <2>. DEFINE q == [Idle EXCEPT !.op = "create"]
  <2>1. q \in Request /\ q.op = "create"
    BY ConstantsAssumption DEF Idle, Request
  <2>2. requests' = [requests EXCEPT ![r] = q] /\ UNCHANGED <<accounts, devices, proof>>
    BY <1>1 DEF StartCreate
  <2>. HIDE DEF q
  <2>. QED BY <2>1, <2>2, RequestStarted
<1>2. ASSUME NEW r \in Requests, NEW actor \in Accounts, NEW a \in Accounts,
             StartReset(r, actor, a)
      PROVE  Inv'
  <2>. DEFINE q == [Idle EXCEPT !.op = "reset", !.account = a,
                                !.authVersion = accounts[a].authVersion]
  <2>1. /\ q \in Request /\ q.op = "reset" /\ q.account = a
        /\ q.authVersion = accounts[a].authVersion
        /\ accounts[a].status # "absent"
    BY <1>2 DEF Idle, Request, Inv, TypeOK, Account, StartReset, Known
  <2>2. requests' = [requests EXCEPT ![r] = q] /\ UNCHANGED <<accounts, devices, proof>>
    BY <1>2 DEF StartReset
  <2>. HIDE DEF q
  <2>. QED BY <2>1, <2>2, RequestStarted
<1>3. ASSUME NEW r \in Requests, RejectCreate(r) \/ RejectReset(r)
      PROVE  Inv'
  BY <1>3, FinishDrops, RequestDropped DEF RejectCreate, RejectReset
<1>. QED BY <1>1, <1>2, <1>3, CompleteCreateInv, CompleteResetInv,
            UpdateManagedAccountInv, UpdateManagedAccountCutInv,
            LogoutManagedAccountDevicesInv, DeleteManagedAccountInv DEF AdminStep

LEMMA NextInv == Inv /\ [Next]_vars => Inv'
<1>. SUFFICES ASSUME Inv, [Next]_vars PROVE Inv'
  OBVIOUS
<1>1. CASE Restart
  <2>1. /\ requests' \in [Requests -> Request]
        /\ \A r \in Requests : requests'[r] \in {requests[r], Idle}
    BY <1>1, ConstantsAssumption DEF Restart, Idle, Request
  <2>. QED BY <1>1, <2>1, RequestDropped DEF Restart
<1>2. CASE UNCHANGED vars
  BY <1>2, RequestDropped DEF vars, Inv, TypeOK
<1>. QED BY <1>1, <1>2, DeviceStepInv, SessionStepInv, AdminStepInv DEF Next

\* The inductive invariant, on which the theorems below rest.
LEMMA Invariant == Spec => []Inv
<1>. QED BY InitInv, NextInv, PTL DEF Spec

\* The rows of both tables, and what awaiting handlers remember, keep their shape,
\* whatever handlers run in between.
THEOREM TypeCorrect == Spec => []TypeOK
<1>1. Inv => TypeOK
  BY DEF Inv
<1>. QED BY <1>1, Invariant, PTL

\* A session in use was opened with the account's current password: no login,
\* change or reset that was awaiting scrypt can leave an older session alive.
THEOREM SessionsFresh == Spec => []SessionsProveCurrentPassword
<1>1. Inv => SessionsProveCurrentPassword
  <2>. SUFFICES ASSUME Inv, NEW d \in Devices, HasSession(d)
                PROVE  CASE devices[d].source = "login" ->
                              proof[d] = accounts[devices[d].account].password
                         [] devices[d].source = "legacy" ->
                              accounts[devices[d].account].password = NoPassword
                         [] OTHER -> FALSE
    BY DEF SessionsProveCurrentPassword
  <2>1. devices[d].source \in {"login", "legacy"}
    BY DEF Inv, TypeOK, Device, BindingsSound, HasSession, BindingValid
  <2>2. /\ devices[d].source = "login" =>
             proof[d] = accounts[devices[d].account].password
        /\ devices[d].source = "legacy" =>
             accounts[devices[d].account].password = NoPassword
    BY DEF Inv, BindingsSound, HasSession, BindingValid
  <2>. QED BY <2>1, <2>2
<1>. QED BY <1>1, Invariant, PTL

-----------------------------------------------------------------------------
(* An active admin remains.                                                  *)

\* Of an account whose active admin may be removed, another one is left.
LEMMA AnotherLeft ==
  ASSUME ActiveAdminRemains, NEW a \in Accounts, CanRemoveActiveAdmin(a)
  PROVE  AnotherActiveAdmin(a)
  BY DEF ActiveAdminRemains, CanRemoveActiveAdmin, AnotherActiveAdmin, ActiveAdmin

LEMMA AdminRemainsAfterUpdate ==
  ASSUME Inv, ActiveAdminRemains, NEW a \in Accounts,
         NEW role \in Roles, NEW s \in SUBSET Sections,
         NEW status \in {"active", "disabled"},
         UpdateAccount(a, role, s, status)
  PROVE  ActiveAdminRemains'
<1>1. CASE role = "admin" /\ status = "active"
  <2>1. ActiveAdmin(a)'
    BY <1>1 DEF UpdateAccount, ActiveAdmin, Inv, TypeOK, Account
  <2>. QED BY <2>1 DEF ActiveAdminRemains, ActiveAdmin
<1>2. CASE ~(role = "admin" /\ status = "active")
  <2>1. CanRemoveActiveAdmin(a)
    BY <1>2 DEF UpdateAccount
  <2>2. PICK b \in Accounts \ {a} : ActiveAdmin(b)
    BY <2>1, AnotherLeft DEF AnotherActiveAdmin
  <2>3. accounts'[b] = accounts[b]
    BY <2>2 DEF UpdateAccount, Inv, TypeOK
  <2>. QED BY <2>2, <2>3 DEF ActiveAdminRemains, ActiveAdmin
<1>. QED BY <1>1, <1>2

LEMMA AdminRemainsAfterDelete ==
  ASSUME Inv, ActiveAdminRemains, NEW actor \in Accounts, NEW a \in Accounts,
         DeleteManagedAccount(actor, a)
  PROVE  ActiveAdminRemains'
<1>1. PICK b \in Accounts \ {a} : ActiveAdmin(b)
  BY AnotherLeft DEF AnotherActiveAdmin, DeleteManagedAccount
<1>2. accounts'[b] = accounts[b]
  BY <1>1 DEF DeleteManagedAccount, Inv, TypeOK
<1>. QED BY <1>1, <1>2 DEF ActiveAdminRemains, ActiveAdmin

LEMMA AdminRemainsNext == Inv /\ ActiveAdminRemains /\ [Next]_vars => ActiveAdminRemains'
<1>. SUFFICES ASSUME Inv, ActiveAdminRemains, [Next]_vars PROVE ActiveAdminRemains'
  OBVIOUS
<1>1. ASSUME accounts' = accounts PROVE ActiveAdminRemains'
  BY <1>1 DEF ActiveAdminRemains, ActiveAdmin
<1>2. ASSUME NEW r \in Requests, NEW new \in Passwords, CompletePasswordChange(r, new)
      PROVE  ActiveAdminRemains'
  <2>1. /\ requests[r].account \in Accounts
        /\ \A b \in Accounts : /\ accounts'[b].status = accounts[b].status
                               /\ accounts'[b].role = accounts[b].role
    BY <1>2 DEF CompletePasswordChange, Inv, TypeOK, Account, RequestsSound
  <2>. QED BY <2>1 DEF ActiveAdminRemains, ActiveAdmin
<1>3. ASSUME NEW r \in Requests, NEW new \in Passwords, NEW m \in BOOLEAN,
             CompleteReset(r, new, m)
      PROVE  ActiveAdminRemains'
  <2>1. /\ requests[r].account \in Accounts
        /\ \A b \in Accounts : /\ accounts'[b].status = accounts[b].status
                               /\ accounts'[b].role = accounts[b].role
    BY <1>3 DEF CompleteReset, Inv, TypeOK, Account, RequestsSound
  <2>. QED BY <2>1 DEF ActiveAdminRemains, ActiveAdmin
<1>4. ASSUME NEW r \in Requests, NEW a \in Accounts, NEW role \in Roles,
             NEW s \in SUBSET Sections, NEW p \in Passwords, NEW m \in BOOLEAN,
             CompleteCreate(r, a, role, s, p, m)
      PROVE  ActiveAdminRemains'
  BY <1>4 DEF CompleteCreate, ActiveAdminRemains, ActiveAdmin, Inv, TypeOK
<1>5. CASE DeviceStep
  BY <1>1, <1>5 DEF DeviceStep, PairDevice, RevokePairedDevice
<1>6. CASE SessionStep
  BY <1>1, <1>2, <1>6
  DEF SessionStep, Logout, DropInvalidBinding, StartLogin, StartPasswordChange,
      CompleteLogin, RejectLogin, RejectPasswordChange
<1>7. CASE AdminStep
  <2>1. ASSUME NEW actor \in Accounts, NEW a \in Accounts, NEW role \in Roles,
               NEW s \in SUBSET Sections, NEW status \in {"active", "disabled"},
               \/ UpdateManagedAccount(actor, a, role, s, status)
               \/ UpdateManagedAccountCut(actor, a, role, s, status)
        PROVE  ActiveAdminRemains'
    BY <2>1, AdminRemainsAfterUpdate DEF UpdateManagedAccount, UpdateManagedAccountCut
  <2>2. ASSUME NEW actor \in Accounts, NEW a \in Accounts, DeleteManagedAccount(actor, a)
        PROVE  ActiveAdminRemains'
    BY <2>2, AdminRemainsAfterDelete
  <2>3. ASSUME NEW r \in Requests, NEW actor \in Accounts, NEW a \in Accounts,
               StartCreate(r, actor) \/ StartReset(r, actor, a)
        PROVE  ActiveAdminRemains'
    BY <1>1, <2>3 DEF StartCreate, StartReset
  <2>4. ASSUME NEW r \in Requests, RejectCreate(r) \/ RejectReset(r)
        PROVE  ActiveAdminRemains'
    BY <1>1, <2>4 DEF RejectCreate, RejectReset
  <2>5. ASSUME NEW actor \in Accounts, NEW a \in Accounts,
               LogoutManagedAccountDevices(actor, a)
        PROVE  ActiveAdminRemains'
    BY <1>1, <2>5 DEF LogoutManagedAccountDevices
  <2> QED
    BY <1>3, <1>4, <1>7, <2>1, <2>2, <2>3, <2>4, <2>5 DEF AdminStep
<1>. QED BY <1>1, <1>5, <1>6, <1>7 DEF Next, Restart, vars

\* Deve rimanere almeno un amministratore attivo: no sequence of updates and
\* deletions, by any admins in any order, removes the last active admin.
THEOREM AdminRemains == Spec => []ActiveAdminRemains
<1>1. Init => ActiveAdminRemains
  BY ConstantsAssumption DEF Init, ActiveAdminRemains, ActiveAdmin
<1>. QED BY <1>1, AdminRemainsNext, Invariant, PTL DEF Spec

-----------------------------------------------------------------------------
(* The handlers implement AccountRights.                                     *)

LEMMA StandingTyped ==
  ASSUME TypeOK
  PROVE  [a \in Accounts |-> StandingOf(a)] \in [Accounts -> StandingSet]
<1>1. ASSUME NEW a \in Accounts PROVE StandingOf(a) \in StandingSet
  BY DEF TypeOK, Account, StandingOf, StandingSet
<1>. QED BY <1>1

LEMMA SessionTyped ==
  ASSUME TypeOK, NEW d \in Devices
  PROVE  SessionOf(d) \in Accounts \cup {NoAccount}
  BY DEF TypeOK, Device, SessionOf, HasSession, BindingValid

LEMMA InitRights == Init => Rights!Init
<1>. SUFFICES ASSUME Init PROVE Rights!Init
  OBVIOUS
<1>1. TypeOK
  BY InitInv DEF Inv
<1>2. [d \in Devices |-> SessionOf(d)] \in [Devices -> Accounts \cup {NoAccount}]
  BY <1>1, SessionTyped
<1>3. ASSUME NEW d \in Devices, SessionOf(d) # NoAccount
      PROVE  /\ SessionOf(d) \in Accounts
             /\ StandingOf(SessionOf(d)) \in {s \in StandingSet : s.status = "active"}
  <2>1. SessionOf(d) \in Accounts /\ accounts[SessionOf(d)].status = "active"
    BY <1>1, <1>3, SessionTyped DEF SessionOf, HasSession, BindingValid
  <2>. QED BY <1>1, <2>1 DEF StandingOf, StandingSet, TypeOK, Account
<1>. QED BY <1>1, <1>2, <1>3, StandingTyped DEF Rights!Init

\* No account and no session changes.
LEMMA RightsStutter ==
  ASSUME accounts' = accounts, \A d \in Devices : SessionOf(d)' = SessionOf(d)
  PROVE  UNCHANGED Rights!vars
  BY DEF Rights!vars, StandingOf

LEMMA RightsClose ==
  ASSUME Inv, Inv', accounts' = accounts,
         \A d \in Devices : SessionOf(d)' \in {SessionOf(d), NoAccount}
  PROVE  Rights!Next
<1>1. \A d \in Devices : SessionOf(d)' \in Accounts \cup {NoAccount}
  BY SessionTyped DEF Inv
<1>2. Rights!Close
  BY <1>1 DEF Rights!Close, StandingOf
<1>. QED BY <1>2 DEF Rights!Next

\* A row changes; of its sessions at most that of a device in K is left.
LEMMA RightsAmend ==
  ASSUME Inv, Inv', NEW a \in Accounts,
         \A b \in Accounts \ {a} : accounts'[b] = accounts[b],
         NEW K \in {{}} \cup {{d} : d \in Devices},
         K # {} => accounts'[a].status = "active",
         \A d \in Devices : SessionOf(d)' = IF SessionOf(d) = a /\ d \notin K
                                            THEN NoAccount ELSE SessionOf(d)
  PROVE  Rights!Next
<1>1. [b \in Accounts |-> StandingOf(b)]' \in [Accounts -> StandingSet]
  <2>1. ASSUME NEW b \in Accounts PROVE StandingOf(b)' \in StandingSet
    BY DEF Inv, TypeOK, Account, StandingOf, StandingSet
  <2>. QED BY <2>1
<1>2. \A b \in Accounts \ {a} : StandingOf(b)' = StandingOf(b)
  BY DEF StandingOf
<1>3. K # {} => StandingOf(a)' \in {s \in StandingSet : s.status = "active"}
  BY <1>1 DEF StandingOf
<1>4. Rights!Amend(a, K)
  BY <1>1, <1>2, <1>3 DEF Rights!Amend
<1>. QED BY <1>4 DEF Rights!Next

\* A write to one row together with clearAccountDeviceBindings.
LEMMA RightsCleared ==
  ASSUME Inv, Inv', NEW a \in Accounts,
         \A b \in Accounts \ {a} : accounts'[b] = accounts[b],
         ClearAccountDeviceBindings(a)
  PROVE  Rights!Next
<1>1. ASSUME NEW d \in Devices
      PROVE  SessionOf(d)' = IF SessionOf(d) = a THEN NoAccount ELSE SessionOf(d)
  <2>1. CASE devices[d].account = a
    <3>1. devices'[d].account = NoAccount
      BY <2>1 DEF ClearAccountDeviceBindings, ClearedBinding, Unbound
    <3>. QED BY <2>1, <3>1 DEF SessionOf, HasSession, BindingValid
  <2>2. CASE devices[d].account # a
    <3>1. devices'[d] = devices[d]
      BY <2>2 DEF ClearAccountDeviceBindings
    <3>2. devices[d].account \in (Accounts \ {a}) \cup {NoAccount}
      BY <2>2 DEF Inv, TypeOK, Device
    <3>. QED BY <2>2, <3>1, <3>2, ConstantsAssumption
             DEF SessionOf, HasSession, BindingValid
  <2>. QED BY <2>1, <2>2
<1>. DEFINE K == {}
<1>2. /\ K \in {{}} \cup {{d} : d \in Devices}
      /\ K = {}
      /\ \A d \in Devices : d \notin K
  OBVIOUS
<1>. HIDE DEF K
<1>. QED BY <1>1, <1>2, RightsAmend

LEMMA RightsCompleteLogin ==
  ASSUME Inv, Inv', NEW r \in Requests, CompleteLogin(r)
  PROVE  Rights!Next
<1>1. PICK d \in Devices, a \in Accounts :
        d = requests[r].device /\ a = requests[r].account
  BY DEF Inv, TypeOK, RequestsSound, CompleteLogin, LoginStillUsable
<1>2. /\ accounts[a] \in Account
      /\ accounts[a].status = "active"
      /\ accounts' = accounts
      /\ devices' = [devices EXCEPT ![d] =
           [pairing |-> "paired", account |-> a,
            authVersion |-> accounts[a].authVersion, source |-> "login"]]
  BY <1>1 DEF Inv, TypeOK, CompleteLogin, LoginStillUsable, BindAccountToDevice
<1>3. SessionOf(d)' = a
  <2>1. /\ devices'[d].pairing = "paired" /\ devices'[d].account = a
        /\ devices'[d].authVersion = accounts[a].authVersion
    BY <1>2 DEF Inv, TypeOK
  <2>. QED BY <1>2, <2>1, ConstantsAssumption DEF SessionOf, HasSession, BindingValid
<1>4. ASSUME NEW e \in Devices \ {d} PROVE SessionOf(e)' = SessionOf(e)
  BY <1>2 DEF SessionOf, HasSession, BindingValid, Inv, TypeOK
<1>5. [e \in Devices |-> SessionOf(e)]' = [[e \in Devices |-> SessionOf(e)] EXCEPT ![d] = a]
  BY <1>3, <1>4
<1>6. StandingOf(a) \in {s \in StandingSet : s.status = "active"}
  BY <1>2 DEF StandingOf, StandingSet, Account
<1>7. UNCHANGED [b \in Accounts |-> StandingOf(b)]
  BY <1>2 DEF StandingOf
<1>8. Rights!Open(d, a)
  BY <1>5, <1>6, <1>7 DEF Rights!Open
<1>. QED BY <1>8 DEF Rights!Next

LEMMA RightsCompletePasswordChange ==
  ASSUME Inv, Inv', NEW r \in Requests, NEW new \in Passwords,
         CompletePasswordChange(r, new)
  PROVE  Rights!Next
<1>. DEFINE q == requests[r]
            a == q.account
            K == IF q.device = LocalBrowser THEN {} ELSE {q.device}
<1>1. /\ q \in Request /\ a \in Accounts
      /\ accounts[a] \in Account
      /\ accounts[a].status = "active" /\ accounts[a].authVersion = q.authVersion
  BY DEF Inv, TypeOK, RequestsSound, CompletePasswordChange, ChangeStillAllowed
<1>2. /\ \A b \in Accounts \ {a} : accounts'[b] = accounts[b]
      /\ accounts'[a].status = "active"
      /\ accounts'[a].authVersion = q.authVersion + 1
  BY <1>1 DEF CompletePasswordChange, Inv, TypeOK, Account
<1>3. ASSUME NEW d \in Devices \ K PROVE devices'[d] = devices[d]
  BY DEF CompletePasswordChange, BindAccountToDevice, Inv, TypeOK
<1>4. ASSUME NEW d \in Devices \ K
      PROVE  SessionOf(d)' = IF SessionOf(d) = a THEN NoAccount ELSE SessionOf(d)
  <2>1. CASE devices[d].account = a
    <3>1. devices[d].authVersion <= q.authVersion /\ devices[d].authVersion \in Nat
      BY <1>1, <2>1, ConstantsAssumption DEF Inv, TypeOK, Device, BindingsSound
    <3>2. devices[d].authVersion # q.authVersion + 1
      BY <1>1, <3>1 DEF Request
    <3>3. ~HasSession(d)'
      BY <1>2, <1>3, <2>1, <3>2 DEF HasSession, BindingValid
    <3>. QED BY <2>1, <3>3 DEF SessionOf, HasSession, BindingValid
  <2>2. CASE devices[d].account # a
    <3>1. devices[d].account \in (Accounts \ {a}) \cup {NoAccount}
      BY <2>2 DEF Inv, TypeOK, Device
    <3>. QED BY <1>1, <1>2, <1>3, <2>2, <3>1, ConstantsAssumption
             DEF SessionOf, HasSession, BindingValid
  <2>. QED BY <2>1, <2>2
<1>5. ASSUME NEW d \in Devices, d \in K
      PROVE  SessionOf(d)' = a /\ SessionOf(d) = a
  <2>1. d = q.device /\ q.device # LocalBrowser
    BY <1>5
  <2>2. devices'[d] = [pairing |-> "paired", account |-> a,
                       authVersion |-> q.authVersion + 1, source |-> "login"]
    BY <2>1 DEF CompletePasswordChange, BindAccountToDevice, Inv, TypeOK
  <2>3. /\ devices[d].pairing = "paired" /\ devices[d].account = a
        /\ devices[d].authVersion = accounts[a].authVersion
    BY <1>1, <2>1 DEF CompletePasswordChange, ChangeStillAllowed
  <2>. QED BY <1>1, <1>2, <2>2, <2>3, ConstantsAssumption
           DEF SessionOf, HasSession, BindingValid
<1>6. K \in {{}} \cup {{d} : d \in Devices}
  BY <1>1 DEF Request
<1>. HIDE DEF K, a
<1>. QED BY <1>1, <1>2, <1>4, <1>5, <1>6, RightsAmend

LEMMA RightsCompleteCreate ==
  ASSUME Inv, Inv', NEW r \in Requests, NEW a \in Accounts, NEW role \in Roles,
         NEW s \in SUBSET Sections, NEW p \in Passwords, NEW m \in BOOLEAN,
         CompleteCreate(r, a, role, s, p, m)
  PROVE  Rights!Next
<1>1. /\ accounts[a].status = "absent" /\ devices' = devices
      /\ \A b \in Accounts \ {a} : accounts'[b] = accounts[b]
  BY DEF CompleteCreate, Inv, TypeOK
<1>2. ASSUME NEW d \in Devices
      PROVE  SessionOf(d)' = SessionOf(d) /\ SessionOf(d) # a
  <2>1. devices[d].account \in (Accounts \ {a}) \cup {NoAccount}
    BY <1>1, ConstantsAssumption DEF Inv, TypeOK, Device, BindingsSound
  <2>. QED BY <1>1, <2>1, ConstantsAssumption DEF SessionOf, HasSession, BindingValid
<1>. DEFINE K == {}
<1>3. /\ K \in {{}} \cup {{d} : d \in Devices}
      /\ K = {}
      /\ \A d \in Devices : d \notin K
  OBVIOUS
<1>. HIDE DEF K
<1>. QED BY <1>1, <1>2, <1>3, RightsAmend

LEMMA RightsUpdate ==
  ASSUME Inv, Inv', NEW actor \in Accounts, NEW a \in Accounts, NEW role \in Roles,
         NEW s \in SUBSET Sections, NEW status \in {"active", "disabled"},
         UpdateManagedAccount(actor, a, role, s, status)
  PROVE  [Rights!Next]_(Rights!vars)
<1>1. PICK row \in Account :
        /\ accounts' = [accounts EXCEPT ![a] = row]
        /\ ~AuthorizationChanged(a, role, s, status) => accounts' = accounts
  BY UpdatedRow DEF UpdateManagedAccount
<1>2. CASE AuthorizationChanged(a, role, s, status)
  <2>1. ClearAccountDeviceBindings(a)
    BY <1>2 DEF UpdateManagedAccount
  <2>2. \A b \in Accounts \ {a} : accounts'[b] = accounts[b]
    BY <1>1 DEF Inv, TypeOK
  <2>. QED BY <2>1, <2>2, RightsCleared
<1>3. CASE ~AuthorizationChanged(a, role, s, status)
  <2>1. accounts' = accounts /\ devices' = devices
    BY <1>1, <1>3 DEF UpdateManagedAccount
  <2>. QED BY <2>1, RightsStutter DEF SessionOf, HasSession, BindingValid
<1>. QED BY <1>2, <1>3

\* A higher auth_version alone ends the sessions of an account.
LEMMA RightsUpdateCut ==
  ASSUME Inv, Inv', NEW actor \in Accounts, NEW a \in Accounts, NEW role \in Roles,
         NEW s \in SUBSET Sections, NEW status \in {"active", "disabled"},
         UpdateManagedAccountCut(actor, a, role, s, status)
  PROVE  Rights!Next
<1>1. PICK row \in Account :
        /\ accounts' = [accounts EXCEPT ![a] = row]
        /\ accounts[a].authVersion < row.authVersion
  BY UpdatedRow DEF UpdateManagedAccountCut
<1>2. /\ accounts'[a] = row
      /\ \A b \in Accounts \ {a} : accounts'[b] = accounts[b]
      /\ devices' = devices
  BY <1>1 DEF UpdateManagedAccountCut, Inv, TypeOK
<1>3. ASSUME NEW d \in Devices
      PROVE  SessionOf(d)' = IF SessionOf(d) = a THEN NoAccount ELSE SessionOf(d)
  <2>1. CASE devices[d].account = a
    <3>1. devices[d].authVersion # row.authVersion
      BY <1>1, <2>1, ConstantsAssumption
      DEF Inv, TypeOK, Account, Device, BindingsSound
    <3>2. ~HasSession(d)'
      BY <1>2, <2>1, <3>1 DEF HasSession, BindingValid
    <3>. QED BY <2>1, <3>2 DEF SessionOf, HasSession, BindingValid
  <2>2. CASE devices[d].account # a
    <3>1. devices[d].account \in (Accounts \ {a}) \cup {NoAccount}
      BY <2>2 DEF Inv, TypeOK, Device
    <3>. QED BY <1>2, <2>2, <3>1, ConstantsAssumption
             DEF SessionOf, HasSession, BindingValid
  <2>. QED BY <2>1, <2>2
<1>. DEFINE K == {}
<1>4. /\ K \in {{}} \cup {{d} : d \in Devices}
      /\ K = {}
      /\ \A d \in Devices : d \notin K
  OBVIOUS
<1>. HIDE DEF K
<1>. QED BY <1>2, <1>3, <1>4, RightsAmend

LEMMA RightsNext == Inv /\ Inv' /\ [Next]_vars => [Rights!Next]_(Rights!vars)
<1>. SUFFICES ASSUME Inv, Inv', [Next]_vars PROVE [Rights!Next]_(Rights!vars)
  OBVIOUS
<1>1. ASSUME accounts' = accounts, devices' = devices
      PROVE  [Rights!Next]_(Rights!vars)
  BY <1>1, RightsStutter DEF SessionOf, HasSession, BindingValid
<1>2. ASSUME NEW d \in Devices, accounts' = accounts,
             \E pairing : devices' = [devices EXCEPT ![d] = Unbound(pairing)]
      PROVE  [Rights!Next]_(Rights!vars)
  <2>1. ASSUME NEW e \in Devices PROVE SessionOf(e)' \in {SessionOf(e), NoAccount}
    BY <1>2 DEF Inv, TypeOK, SessionOf, HasSession, BindingValid, Unbound
  <2>. QED BY <1>2, <2>1, RightsClose
<1>3. CASE DeviceStep
  BY <1>2, <1>3 DEF DeviceStep, PairDevice, RevokePairedDevice
<1>4. CASE SessionStep
  <2>1. ASSUME NEW d \in Devices, Logout(d) \/ DropInvalidBinding(d)
        PROVE  [Rights!Next]_(Rights!vars)
    BY <1>2, <2>1
    DEF Logout, DropInvalidBinding, ClearDeviceAccountBinding, ClearedBinding
  <2>. QED BY <1>1, <1>4, <2>1, RightsCompleteLogin, RightsCompletePasswordChange
           DEF SessionStep, StartLogin, StartPasswordChange, RejectLogin,
               RejectPasswordChange
<1>5. CASE AdminStep
  <2>1. ASSUME NEW r \in Requests, NEW new \in Passwords, NEW m \in BOOLEAN,
               CompleteReset(r, new, m)
        PROVE  Rights!Next
    <3>1. /\ requests[r].account \in Accounts
          /\ \A b \in Accounts \ {requests[r].account} : accounts'[b] = accounts[b]
          /\ ClearAccountDeviceBindings(requests[r].account)
      BY <2>1 DEF CompleteReset, Inv, TypeOK, RequestsSound
    <3>. QED BY <3>1, RightsCleared
  <2>2. ASSUME NEW actor \in Accounts, NEW a \in Accounts,
               LogoutManagedAccountDevices(actor, a) \/ DeleteManagedAccount(actor, a)
        PROVE  Rights!Next
    <3>1. /\ \A b \in Accounts \ {a} : accounts'[b] = accounts[b]
          /\ ClearAccountDeviceBindings(a)
      BY <2>2 DEF LogoutManagedAccountDevices, DeleteManagedAccount, Inv, TypeOK
    <3>. QED BY <3>1, RightsCleared
  <2>. QED BY <1>1, <1>5, <2>1, <2>2, RightsCompleteCreate, RightsUpdate, RightsUpdateCut
           DEF AdminStep, StartCreate, StartReset, RejectCreate, RejectReset
<1>. QED BY <1>1, <1>3, <1>4, <1>5 DEF Next, Restart, vars

\* Every step of the handlers is one that AccountRights allows: sessions are opened
\* one at a time on active accounts, and every change of an account's status, role,
\* sections or password ends its sessions but that of the device that asked for it.
THEOREM RightsImplemented == Spec => RightsKept
<1>. QED BY InitRights, RightsNext, Invariant, PTL DEF Spec, RightsKept, Rights!Spec

-----------------------------------------------------------------------------
(* Trusted devices.                                                          *)

CacheRemembers ==
  steppedBack \/ \A n \in accepted :
    \/ cache[n] = signed[n].timestamp + Skew
    \/ clock > signed[n].timestamp + Skew

TrustInv == TrustTypeOK /\ CacheRemembers /\ AcceptedOnce /\ InviteAdmitsOne

LEMMA TrustInitInv == ASSUME TrustInit PROVE TrustInv
<1>1. invites \in [Invites -> Invite] /\ pairedDevices \in [Keys -> PairedDevice]
  BY DEF TrustInit, Invite, PairedDevice
<1>2. clock \in Times /\ cache \in [Nonces -> Int \cup {NotCached}]
  BY TrustAssumption DEF TrustInit, Times
<1>3. \A d \in Keys :
        pairedDevices[d].pairing = "unpaired" /\ pairedDevices[d].invite = NoInvite
  BY DEF TrustInit
<1>4. accepted = {} /\ replayed = {} /\ signed \in [Nonces -> Signed] /\ steppedBack = FALSE
  BY DEF TrustInit
<1>5. TrustTypeOK
  BY <1>1, <1>2, <1>3, <1>4 DEF TrustTypeOK
<1> QED
  BY <1>3, <1>4, <1>5 DEF TrustInv, CacheRemembers, AcceptedOnce, InviteAdmitsOne

\* The pairing operations keep the rows in order and leave the requests alone.
LEMMA PairingStepInv == ASSUME TrustInv, PairingStep PROVE TrustInv'
<1> USE TrustAssumption DEF TrustInv
<1>1. UNCHANGED <<clock, requestVars, steppedBack>>
  BY DEF PairingStep, CreatePairingInvite, RedeemPairingInvite, RevokePairingInvite,
         RevokeKey
<1>2. CacheRemembers' /\ AcceptedOnce'
  BY <1>1 DEF CacheRemembers, AcceptedOnce, requestVars
<1>3. ASSUME NEW i \in Invites, NEW minutes \in 1 .. MaxMinutes,
             CreatePairingInvite(i, minutes)
      PROVE  TrustTypeOK' /\ InviteAdmitsOne'
  <2>1. [status |-> "unused", expires |-> clock + minutes] \in Invite
    BY DEF TrustTypeOK, Times, Invite
  <2>2. invites' \in [Invites -> Invite]
    BY <1>3, <2>1 DEF CreatePairingInvite, TrustTypeOK
  <2> QED
    BY <1>3, <2>2
    DEF CreatePairingInvite, TrustTypeOK, InviteAdmitsOne, requestVars, PairedDevice
<1>4. ASSUME NEW i \in Invites, NEW d \in Keys, RedeemPairingInvite(i, d)
      PROVE  TrustTypeOK' /\ InviteAdmitsOne'
  <2>1. invites' \in [Invites -> Invite]
    BY <1>4 DEF RedeemPairingInvite, ClaimInvite, TrustTypeOK, Invite
  <2>2. pairedDevices' \in [Keys -> PairedDevice]
    BY <1>4 DEF RedeemPairingInvite, TrustTypeOK, PairedDevice
  <2>3. \A e \in Keys : pairedDevices[e].invite # i
    BY <1>4 DEF RedeemPairingInvite, InviteActive, TrustTypeOK
  <2>4. InviteAdmitsOne'
    BY <1>4, <2>3 DEF RedeemPairingInvite, InviteAdmitsOne, TrustTypeOK
  <2>5. \A e \in Keys :
          IF pairedDevices'[e].pairing = "unpaired"
          THEN pairedDevices'[e].invite = NoInvite
          ELSE /\ pairedDevices'[e].invite \in Invites
               /\ invites'[pairedDevices'[e].invite].status = "used"
    BY <1>4, <2>3 DEF RedeemPairingInvite, ClaimInvite, TrustTypeOK, Invite
  <2> QED
    BY <1>4, <2>1, <2>2, <2>4, <2>5 DEF RedeemPairingInvite, TrustTypeOK, requestVars
<1>5. ASSUME NEW i \in Invites, RevokePairingInvite(i)
      PROVE  TrustTypeOK' /\ InviteAdmitsOne'
  <2>1. invites' \in [Invites -> Invite]
    BY <1>5 DEF RevokePairingInvite, TrustTypeOK, Invite
  <2> QED
    BY <1>5, <2>1 DEF RevokePairingInvite, Revocable, TrustTypeOK, InviteAdmitsOne,
       requestVars, PairedDevice
<1>6. ASSUME NEW d \in Keys, RevokeKey(d)
      PROVE  TrustTypeOK' /\ InviteAdmitsOne'
  <2>1. pairedDevices' \in [Keys -> PairedDevice]
    BY <1>6 DEF RevokeKey, TrustTypeOK, PairedDevice
  <2> QED
    BY <1>6, <2>1 DEF RevokeKey, TrustTypeOK, InviteAdmitsOne, requestVars
<1> QED
  BY <1>2, <1>3, <1>4, <1>5, <1>6 DEF PairingStep

\* What cleaning leaves of an entry: all of it until its time has passed.
LEMMA CleanKeepsValid ==
  ASSUME TrustTypeOK, NEW n \in Nonces
  PROVE  /\ CleanReplayCache[n] \in Int \cup {NotCached}
         /\ CleanReplayCache[n] = cache[n] \/ clock > cache[n]
         /\ CleanReplayCache[n] # cache[n] => cache[n] \in Int
  BY TrustAssumption DEF TrustTypeOK, CleanReplayCache, Times

\* A request is accepted only if its nonce has not been.
LEMMA RequestStepInv == ASSUME TrustInv, RequestStep PROVE TrustInv'
<1> USE TrustAssumption DEF TrustInv
<1>1. CleanReplayCache \in [Nonces -> Int \cup {NotCached}]
  BY DEF CleanReplayCache, TrustTypeOK
<1>2. UNCHANGED <<clock, pairingVars, signed, steppedBack>>
  BY DEF RequestStep, AcceptRequest, RefuseReplay
<1>3. \A n \in Nonces : signed[n].timestamp \in Int
  BY DEF TrustTypeOK, Signed, Times
<1>4. clock \in Int /\ Skew \in Int
  BY DEF TrustTypeOK, Times
<1>5. ASSUME ~steppedBack, NEW n \in accepted
      PROVE  \/ CleanReplayCache[n] = signed[n].timestamp + Skew
             \/ clock > signed[n].timestamp + Skew
  <2>1. n \in Nonces
    BY DEF TrustTypeOK
  <2> QED
    BY <2>1, <1>3, <1>4, <1>5, CleanKeepsValid DEF CacheRemembers
<1>6. ASSUME NEW n \in Nonces, AcceptRequest(n)
      PROVE  TrustTypeOK' /\ CacheRemembers' /\ AcceptedOnce'
  <2>1. steppedBack \/ n \notin accepted
    <3> SUFFICES ASSUME ~steppedBack, n \in accepted PROVE FALSE
      OBVIOUS
    <3>1. ~(clock > signed[n].timestamp + Skew)
      BY <1>3, <1>4, <1>6 DEF AcceptRequest, Verified
    <3>2. signed[n].timestamp + Skew \in Int
      BY <1>3, <1>4
    <3> QED
      BY <3>1, <3>2, <1>5, <1>6 DEF AcceptRequest
  <2>2. cache' \in [Nonces -> Int \cup {NotCached}]
    BY <1>1, <1>3, <1>4, <1>6 DEF AcceptRequest
  <2>3. CacheRemembers'
    BY <1>1, <1>2, <1>5, <1>6 DEF AcceptRequest, CacheRemembers, TrustTypeOK
  <2> QED
    BY <1>2, <1>6, <2>1, <2>2, <2>3
    DEF AcceptRequest, AcceptedOnce, TrustTypeOK, pairingVars
<1>7. ASSUME NEW n \in Nonces, RefuseReplay(n)
      PROVE  TrustTypeOK' /\ CacheRemembers' /\ AcceptedOnce'
  BY <1>1, <1>2, <1>5, <1>7 DEF RefuseReplay, CacheRemembers, AcceptedOnce, TrustTypeOK,
     pairingVars
<1>8. InviteAdmitsOne'
  BY <1>2 DEF InviteAdmitsOne, pairingVars
<1> QED
  BY <1>6, <1>7, <1>8 DEF RequestStep

\* Time passing closes windows, never opens one; setting the clock back gives up
\* on the requests, and a restart forgets them.
LEMMA HostStepInv == ASSUME TrustInv, HostStep PROVE TrustInv'
<1> USE TrustAssumption DEF TrustInv
<1>1. InviteAdmitsOne'
  BY DEF HostStep, Tick, StepBack, RestartServer, InviteAdmitsOne, pairingVars
<1>2. CASE Tick
  <2>1. clock' \in Times /\ clock' > clock /\ clock \in Int
    BY <1>2 DEF Tick, TrustTypeOK, Times
  <2>2. \A n \in accepted : signed[n].timestamp + Skew \in Int
    BY DEF TrustTypeOK, Signed, Times
  <2> QED
    BY <1>1, <1>2, <2>1, <2>2
    DEF Tick, TrustTypeOK, CacheRemembers, AcceptedOnce, pairingVars, requestVars, Times
<1>3. CASE StepBack
  <2>1. clock' \in Times
    BY <1>3 DEF StepBack, TrustTypeOK, Times
  <2> QED
    BY <1>1, <1>3, <2>1
    DEF StepBack, TrustTypeOK, CacheRemembers, AcceptedOnce, pairingVars, requestVars
<1>4. CASE RestartServer
  BY <1>1, <1>4 DEF RestartServer, TrustTypeOK, CacheRemembers, AcceptedOnce, pairingVars
<1> QED
  BY <1>2, <1>3, <1>4 DEF HostStep

LEMMA TrustStepInv == ASSUME TrustInv, [TrustNext]_trustVars PROVE TrustInv'
<1>1. CASE UNCHANGED trustVars
  BY <1>1
  DEF TrustInv, TrustTypeOK, CacheRemembers, AcceptedOnce, InviteAdmitsOne, trustVars,
      pairingVars, requestVars
<1> QED
  BY <1>1, PairingStepInv, RequestStepInv, HostStepInv DEF TrustNext

LEMMA TrustInvariance == TrustSpec => []TrustInv
  BY TrustInitInv, TrustStepInv, PTL DEF TrustSpec

\* Rows keep the shape of their tables, and a device paired once names the used
\* invite it was paired with.
THEOREM TrustTypeCorrect == TrustSpec => []TrustTypeOK
<1>1. TrustInv => TrustTypeOK
  BY DEF TrustInv
<1> QED
  BY TrustInvariance, <1>1, PTL

\* No signed request is acted on twice by a server that keeps running with a clock
\* that is not set back, however many requests pass through the cache.
THEOREM NoReplay == TrustSpec => []AcceptedOnce
<1>1. TrustInv => AcceptedOnce
  BY DEF TrustInv
<1> QED
  BY TrustInvariance, <1>1, PTL

\* No two pairedDevices are ever admitted by the same invite.
THEOREM InviteIsSingleUse == TrustSpec => []InviteAdmitsOne
<1>1. TrustInv => InviteAdmitsOne
  BY DEF TrustInv
<1> QED
  BY TrustInvariance, <1>1, PTL

\* A device becomes paired only by spending an active invite, and an invite that
\* was used or revoked is never good again.
THEOREM AdmissionIsInvited == TrustSpec => AdmissionSpendsInvite
<1> DEFINE Admission ==
      /\ \A d \in Keys :
           pairedDevices[d].pairing # "paired" /\ pairedDevices'[d].pairing = "paired" =>
             \E i \in Invites : /\ invites[i].status = "unused"
                                /\ invites[i].expires > clock
                                /\ invites'[i].status = "used"
                                /\ pairedDevices'[d].invite = i
      /\ \A i \in Invites :
           invites[i].status \in {"used", "revoked"} => invites'[i] = invites[i]
<1>1. ASSUME TrustTypeOK, [TrustNext]_trustVars PROVE [Admission]_trustVars
  <2>1. ASSUME NEW i \in Invites, NEW minutes \in 1 .. MaxMinutes,
               CreatePairingInvite(i, minutes)
        PROVE  Admission
    BY <1>1, <2>1 DEF CreatePairingInvite, TrustTypeOK
  <2>2. ASSUME NEW i \in Invites, NEW d \in Keys, RedeemPairingInvite(i, d)
        PROVE  Admission
    BY <1>1, <2>2
    DEF RedeemPairingInvite, InviteActive, ClaimInvite, TrustTypeOK, Invite, PairedDevice
  <2>3. ASSUME NEW i \in Invites, RevokePairingInvite(i)
        PROVE  Admission
    BY <1>1, <2>3 DEF RevokePairingInvite, Revocable, TrustTypeOK
  <2>4. ASSUME NEW d \in Keys, RevokeKey(d)
        PROVE  Admission
    BY <1>1, <2>4 DEF RevokeKey, TrustTypeOK, PairedDevice
  <2>5. ASSUME UNCHANGED pairingVars
        PROVE  Admission
    BY <2>5 DEF pairingVars
  <2>6. RequestStep \/ HostStep => UNCHANGED pairingVars
    BY DEF RequestStep, AcceptRequest, RefuseReplay, HostStep, Tick, StepBack, RestartServer
  <2> QED
    BY <1>1, <2>1, <2>2, <2>3, <2>4, <2>5, <2>6 DEF TrustNext, PairingStep
<1> QED
  BY <1>1, TrustTypeCorrect, PTL DEF TrustSpec, AdmissionSpendsInvite
=============================================================================
