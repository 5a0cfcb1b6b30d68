---------------------------- MODULE DeviceTrust ----------------------------
(***************************************************************************)
(* How a device comes to be trusted and how its requests are recognised:   *)
(* the tables pairing_invites and paired_devices (pairing-service.js), and *)
(* the signed requests deviceAuth lets in (device-auth-service.js).        *)
(*                                                                         *)
(* Invites and devices are changed by the server and by the pairing        *)
(* command line, two processes on one database; each change is one         *)
(* statement or one BEGIN IMMEDIATE transaction, so it is one step.  The   *)
(* network delivers a signed request late, twice or never.  The replay     *)
(* cache is in memory, and the host's clock may be set back.               *)
(***************************************************************************)
EXTENDS Integers

CONSTANTS
  Keys,       \* public keys, each the key of at most one row of paired_devices
  Invites,    \* ids of rows of pairing_invites
  NoInvite,   \* a NULL pairing_invite_id
  Nonces,     \* nonces of signed requests; a nonce is 16 random bytes, signed once
  NotCached,  \* the nonce is not in the replay cache
  Skew,       \* REQUEST_CLOCK_SKEW_SECONDS
  MaxMinutes, \* MAX_INVITE_MINUTES
  MaxTime     \* bound on the clock, so that TLC's state space is finite

ASSUME TrustAssumption ==
  /\ NoInvite \notin Invites
  /\ NotCached \notin Int
  /\ Skew \in Nat
  /\ MaxMinutes \in Nat \ {0}
  /\ MaxTime \in Nat

VARIABLES
  clock,          \* Date.now() of the host
  invites,        \* invites[i]: the row of invite i
  pairedDevices,  \* pairedDevices[d]: the row of the device with key d
  signed,         \* signed[n]: the device and timestamp the request with nonce n names
  cache,          \* cache[n]: replayCache, when its entry for n expires
  accepted,       \* history: nonces accepted since the server started
  replayed,       \* history: nonces accepted more than once since it started
  steppedBack     \* history: the clock was set back since it started

pairingVars == <<invites, pairedDevices>>
requestVars == <<signed, cache, accepted, replayed>>
trustVars == <<clock, pairingVars, requestVars, steppedBack>>

Times == 0 .. MaxTime

Invite == [status : {"none", "unused", "used", "revoked"}, expires : Nat]
PairedDevice == [pairing : {"unpaired", "paired", "revoked"},
                 invite : Invites \cup {NoInvite}]
Signed == [device : Keys, timestamp : Times]

\* An empty database.  What the devices will sign is fixed here and delivered at
\* any time; their clocks are their own, so any timestamp goes with any nonce.
TrustInit ==
  /\ clock = 0
  /\ invites = [i \in Invites |-> [status |-> "none", expires |-> 0]]
  /\ pairedDevices = [d \in Keys |-> [pairing |-> "unpaired", invite |-> NoInvite]]
  /\ signed \in [Nonces -> Signed]
  /\ cache = [n \in Nonces |-> NotCached]
  /\ accepted = {}
  /\ replayed = {}
  /\ steppedBack = FALSE

-----------------------------------------------------------------------------
(* Pairing.                                                                  *)

CreatePairingInvite(i, minutes) ==
  /\ invites[i].status = "none"
  /\ invites' = [invites EXCEPT ![i] = [status |-> "unused",
                                        expires |-> clock + minutes]]
  /\ UNCHANGED <<clock, pairedDevices, requestVars, steppedBack>>

\* Mutant of InviteActive: a revoked invite is still good.
NotUsedYet(i) == invites[i].status \in {"unused", "revoked"} /\ invites[i].expires > clock

InviteActive(i) == invites[i].status = "unused" /\ invites[i].expires > clock

\* Mutant of ClaimInvite: used_at stays NULL.
InviteUnclaimed(i) == invites

\* UPDATE pairing_invites SET used_at = now
ClaimInvite(i) == [invites EXCEPT ![i].status = "used"]

\* redeemPairingInvite: a new row, or the row of a revoked device with this key,
\* and the invite claimed in the same transaction.
RedeemPairingInvite(i, d) ==
  /\ InviteActive(i)
  /\ pairedDevices[d].pairing # "paired"
  /\ pairedDevices' = [pairedDevices EXCEPT ![d] = [pairing |-> "paired", invite |-> i]]
  /\ invites' = ClaimInvite(i)
  /\ UNCHANGED <<clock, requestVars, steppedBack>>

\* Mutant of Revocable: an invite already used is revoked too.
NotExpired(i) == invites[i].status \in {"unused", "used"} /\ invites[i].expires > clock

\* The WHERE clause of revokePairingInvite.
Revocable(i) == invites[i].status = "unused" /\ invites[i].expires > clock

RevokePairingInvite(i) ==
  /\ Revocable(i)
  /\ invites' = [invites EXCEPT ![i].status = "revoked"]
  /\ UNCHANGED <<clock, pairedDevices, requestVars, steppedBack>>

\* The row keeps the invite it was paired with.
RevokeKey(d) ==
  /\ pairedDevices[d].pairing = "paired"
  /\ pairedDevices' = [pairedDevices EXCEPT ![d].pairing = "revoked"]
  /\ UNCHANGED <<clock, invites, requestVars, steppedBack>>

-----------------------------------------------------------------------------
(* Signed requests.                                                          *)

\* Mutant of CleanReplayCache: an entry is dropped in its last valid second.
CleanExpiring == [n \in Nonces |-> IF cache[n] # NotCached /\ cache[n] <= clock
                                   THEN NotCached ELSE cache[n]]

CleanReplayCache == [n \in Nonces |-> IF cache[n] # NotCached /\ cache[n] < clock
                                      THEN NotCached ELSE cache[n]]

\* The checks of verifyRequestAuthorization before it looks at the cache.
Verified(n) ==
  /\ signed[n].timestamp - clock \in -Skew .. Skew
  /\ pairedDevices[signed[n].device].pairing = "paired"

AcceptRequest(n) ==
  /\ Verified(n)
  /\ CleanReplayCache[n] = NotCached
  /\ cache' = [CleanReplayCache EXCEPT ![n] = signed[n].timestamp + Skew]
  /\ accepted' = accepted \cup {n}
  /\ replayed' = IF n \in accepted THEN replayed \cup {n} ELSE replayed
  /\ UNCHANGED <<clock, pairingVars, signed, steppedBack>>

\* AUTH_REPLAY: the cache was cleaned all the same.
RefuseReplay(n) ==
  /\ Verified(n)
  /\ CleanReplayCache[n] # NotCached
  /\ cache' = CleanReplayCache
  /\ UNCHANGED <<clock, pairingVars, signed, accepted, replayed, steppedBack>>

-----------------------------------------------------------------------------
(* The host.                                                                 *)

Tick ==
  /\ clock < MaxTime
  /\ clock' = clock + 1
  /\ UNCHANGED <<pairingVars, requestVars, steppedBack>>

\* An administrator, or time synchronisation, sets the clock back.
StepBack ==
  /\ clock' \in 0 .. (clock - 1)
  /\ steppedBack' = TRUE
  /\ UNCHANGED <<pairingVars, requestVars>>

\* The server stops and starts again with an empty cache.
RestartServer ==
  /\ cache' = [n \in Nonces |-> NotCached]
  /\ accepted' = {}
  /\ replayed' = {}
  /\ steppedBack' = FALSE
  /\ UNCHANGED <<clock, pairingVars, signed>>

PairingStep ==
  \/ \E i \in Invites, minutes \in 1 .. MaxMinutes : CreatePairingInvite(i, minutes)
  \/ \E i \in Invites, d \in Keys : RedeemPairingInvite(i, d)
  \/ \E i \in Invites : RevokePairingInvite(i)
  \/ \E d \in Keys : RevokeKey(d)

RequestStep == \E n \in Nonces : AcceptRequest(n) \/ RefuseReplay(n)

HostStep == Tick \/ StepBack \/ RestartServer

TrustNext == PairingStep \/ RequestStep \/ HostStep

TrustSpec == TrustInit /\ [][TrustNext]_trustVars

-----------------------------------------------------------------------------
(* Properties.                                                               *)

\* Rows have the shape of their tables, and a device that was ever paired names
\* the invite it used, which the list of invites shows as used by it.
TrustTypeOK ==
  /\ clock \in Times
  /\ invites \in [Invites -> Invite]
  /\ pairedDevices \in [Keys -> PairedDevice]
  /\ signed \in [Nonces -> Signed]
  /\ cache \in [Nonces -> Int \cup {NotCached}]
  /\ accepted \in SUBSET Nonces
  /\ replayed \in SUBSET accepted
  /\ steppedBack \in BOOLEAN
  /\ \A d \in Keys :
       IF pairedDevices[d].pairing = "unpaired"
       THEN pairedDevices[d].invite = NoInvite
       ELSE /\ pairedDevices[d].invite \in Invites
            /\ invites[pairedDevices[d].invite].status = "used"

\* impedisce il replay del nonce: however late or often the network delivers a
\* signed request, and whatever the cache forgot meanwhile, a server that keeps
\* running acts on it once, as long as its clock is not set back.
AcceptedOnce == steppedBack \/ replayed = {}

\* Gli inviti di pairing sono temporanei, monouso: no two devices were ever let in
\* by one invite, revoked and paired again as they may have been since.
InviteAdmitsOne ==
  \A d, e \in Keys :
    d # e /\ pairedDevices[d].invite # NoInvite =>
      pairedDevices[d].invite # pairedDevices[e].invite

\* ... e revocabili: a device becomes paired only by spending an invite that was
\* neither used, revoked nor expired, and what is used or revoked stays so, even
\* after the clock was set back.
AdmissionSpendsInvite ==
  [][/\ \A d \in Keys :
          pairedDevices[d].pairing # "paired" /\ pairedDevices'[d].pairing = "paired" =>
            \E i \in Invites : /\ invites[i].status = "unused"
                               /\ invites[i].expires > clock
                               /\ invites'[i].status = "used"
                               /\ pairedDevices'[d].invite = i
     /\ \A i \in Invites :
          invites[i].status \in {"used", "revoked"} => invites'[i] = invites[i]]_trustVars
=============================================================================
