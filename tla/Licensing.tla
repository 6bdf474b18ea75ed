------------------------------- MODULE Licensing -------------------------------
(***************************************************************************)
(* A license key, the devices bound to it and the renewal of its           *)
(* subscription's period: activation.controller.ts of platform/licensing   *)
(* and fingerprint.service.ts of modules/licensing.  The statuses of the   *)
(* subscription are in Trials.                                             *)
(*                                                                         *)
(* Time passes in windows: those in which a renewal is taken for a retry   *)
(* of the one before (five minutes).                                       *)
(***************************************************************************)
EXTENDS Requests

CONSTANTS
  Devices,
  MaxDevices,   \* license_keys.maxDevices
  Cycle,        \* windows of a billing cycle
  MaxWindow     \* bound: windows that pass

ASSUME LicensingAssumption == MaxDevices \in Nat /\ Cycle \in Nat /\ Cycle > 1 /\ MaxWindow \in Nat \ {0}

VARIABLES
  window,
  period,       \* of the subscription: currentPeriodEndAt, and the window of its updatedAt
  revoked,      \* the license key's revokedAt is set
  bound         \* hardware_fingerprints

licensingTables == <<window, period, revoked, bound>>
licensingVars == <<licensingTables, call>>

Period == [ends : 1..Cycle * (MaxWindow + 2), changed : 1..MaxWindow]

LicensingCall ==
  [op : {"renew", "renewing"}, doc : Devices, read : Period]
  \cup [op : {"bind", "rebind"}, doc : Devices, read : BOOLEAN]

(* issue has created the subscription and the key. *)
LicensingInit ==
  /\ window = 1
  /\ period = [ends |-> 1 + Cycle, changed |-> 1]
  /\ revoked = FALSE
  /\ bound = [d \in Devices |-> "none"]
  /\ CallsInit

NextWindow ==
  /\ window < MaxWindow
  /\ window' = window + 1
  /\ UNCHANGED <<period, revoked, bound, call>>

-----------------------------------------------------------------------------

(* register: the key is not revoked; a device it knows is bound again, a   *)
(* new one only while there is room.                                       *)
StartActivation(u, d) ==
  /\ ~ revoked
  /\ \/ bound[d] # "none" /\ Enter(u, [op |-> "rebind", doc |-> d, read |-> revoked])
     \/ /\ bound[d] = "none"
        /\ Cardinality({e \in Devices : bound[e] = "active"}) < MaxDevices
        /\ Enter(u, [op |-> "bind", doc |-> d, read |-> revoked])
  /\ UNCHANGED licensingTables

(* A second row of the same device is refused by the unique index. *)
FinishActivation(u) ==
  LET d == call[u].doc
  IN  /\ call[u].op \in {"bind", "rebind"}
      /\ call[u].op = "bind" => bound[d] = "none"
      /\ bound' = [bound EXCEPT ![d] = "active"]
      /\ Leave(u)
      /\ UNCHANGED <<window, period, revoked>>

RevokeDevice(d) ==
  /\ bound[d] = "active"
  /\ bound' = [bound EXCEPT ![d] = "revoked"]
  /\ UNCHANGED <<window, period, revoked, call>>

RevokedDevices == [d \in Devices |-> IF bound[d] = "active" THEN "revoked" ELSE bound[d]]

(* Revoking twice revokes what was bound in between. *)
RevokeKey ==
  /\ revoked' = TRUE
  /\ bound' = RevokedDevices
  /\ UNCHANGED <<window, period, call>>

-----------------------------------------------------------------------------
(* renew reads the key with its subscription, then validates the device. *)
StartRenewal(u, d) ==
  /\ ~ revoked
  /\ Enter(u, [op |-> "renew", doc |-> d, read |-> period])
  /\ UNCHANGED licensingTables

ValidateDevice(u) ==
  LET c == call[u]
  IN  /\ c.op = "renew"
      /\ bound[c.doc] = "active"
      /\ Proceed(u, [c EXCEPT !.op = "renewing"])
      /\ UNCHANGED licensingTables

JustExtended(read) == read.ends > window /\ read.changed = window

(* Mutant: a renewal does not ask whether one has just been made. *)
FinishRenewal_Retried(u) ==
  LET read == call[u].read
      base == IF read.ends > window THEN read.ends ELSE window
  IN  /\ call[u].op = "renewing"
      /\ period' = [ends |-> base + Cycle, changed |-> window]
      /\ Leave(u)
      /\ UNCHANGED <<window, revoked, bound>>

(* The period is extended from its end, or from now when it has ended; the *)
(* retry of a renewal is answered with the period it finds.                *)
FinishRenewal(u) ==
  LET read == call[u].read
      base == IF read.ends > window THEN read.ends ELSE window
  IN  /\ call[u].op = "renewing"
      /\ \/ JustExtended(read) /\ UNCHANGED period
         \/ /\ ~ JustExtended(read)
            /\ period' = [ends |-> base + Cycle, changed |-> window]
      /\ Leave(u)
      /\ UNCHANGED <<window, revoked, bound>>

(* issue puts the subscription of the plan on a period that starts now. *)
Issue ==
  /\ period' = [ends |-> window + Cycle, changed |-> window]
  /\ UNCHANGED <<window, revoked, bound, call>>

(* Every other write to the row renews its updatedAt. *)
TouchSubscription ==
  /\ period' = [period EXCEPT !.changed = window]
  /\ UNCHANGED <<window, revoked, bound, call>>

LicensingFails(u) == Fails(u) /\ UNCHANGED licensingTables

LicensingNext ==
  \/ NextWindow \/ RevokeKey \/ Issue \/ TouchSubscription
  \/ \E d \in Devices : RevokeDevice(d)
  \/ \E u \in Users, d \in Devices : StartActivation(u, d) \/ StartRenewal(u, d)
  \/ \E u \in Users :
       FinishActivation(u) \/ ValidateDevice(u) \/ FinishRenewal(u) \/ LicensingFails(u)

LicensingSpec == LicensingInit /\ [][LicensingNext]_licensingVars

-----------------------------------------------------------------------------
LicensingTypeOK ==
  /\ window \in 1..MaxWindow
  /\ period \in Period
  /\ revoked \in BOOLEAN
  /\ bound \in [Devices -> {"none", "active", "revoked"}]
  /\ call \in [Users -> LicensingCall \cup {NoCall}]

(* Renewals that are repeated, or overlap, extend the period by at most    *)
(* one cycle a window: the retries of a client and the devices of a key do *)
(* not add up.                                                             *)
RenewedOncePerWindow == period.ends <= Cycle * (window + 1) + 1

(* Once the key is revoked, only an activation that had read it before     *)
(* binds one of its devices again.                                         *)
RevokedStaysRevoked ==
  [][/\ revoked
     /\ \A u \in Users : call[u].op \in {"bind", "rebind"} => call[u].read = revoked
     => \A d \in Devices : bound'[d] = "active" => bound[d] = "active"]_licensingVars
=============================================================================
