------------------------ MODULE EnrollmentCapability ------------------------
(***************************************************************************)
(* The enrolment capability stores: one-time invitations and account       *)
(* recoveries that a registration flow claims, consumes or releases, and   *)
(* that a host may revoke.                                                 *)
(*                                                                         *)
(* Every call reads the clock first and takes its lock (the memory store)  *)
(* or BEGIN IMMEDIATE (the SQLite store, one connection per call)          *)
(* afterwards, so a call may decide on a time that has passed while it     *)
(* waited.  BeginCall is the first half and the operations are the second. *)
(*                                                                         *)
(* A capability's token and its id identify the same record and are one    *)
(* number here, given in the order in which records are stored: the order  *)
(* in which the memory store searches them.  The subject and the issuer    *)
(* are carried along and decide nothing.                                   *)
(***************************************************************************)
EXTENDS Naturals, FiniteSets

CONSTANTS
  Callers,         \* threads or processes that call the store
  Flows,           \* registration flow ids
  Purposes,        \* "invitation", "account_recovery"
  Backends,        \* the stores to consider: "memory", "sqlite"
  TTLs,            \* the lifetimes hosts ask for
  MaxTime,         \* bound on the clock
  MaxCapabilities, \* bound on the capabilities ever issued
  None             \* Python's None

ASSUME CapabilityAssumption ==
  /\ TTLs \subseteq Nat \ {0} /\ MaxTime \in Nat /\ MaxCapabilities \in Nat
  /\ None \notin Flows /\ None \notin Nat

VARIABLES
  backend, \* the store in use
  now,     \* the clock
  records, \* capability -> EnrollmentCapability, or None before it is issued
  issued,  \* capabilities issued so far
  calls,   \* what each caller is waiting to do
  granted, \* history: pairs of a capability and the flow that claim gave it to
  spent    \* history: capability -> consume and revoke calls that succeeded on it

vars == <<backend, now, records, issued, calls, granted, spent>>
-----------------------------------------------------------------------------
Time == 0 .. MaxTime
Capabilities == 1 .. MaxCapabilities
Stamp == Time \cup {None}

Capability ==
  [purpose : Purposes, expires_at : Nat, claimed_flow_id : Flows \cup {None},
   claimed_at : Stamp, consumed_at : Stamp, revoked_at : Stamp]

ASSUME NoneAssumption == None \notin Capability

Operations == {"idle", "issue", "claim", "consume", "release", "revoke"}

\* A call with its arguments (None where it has no such argument) and its clock.
Call ==
  [op : Operations, id : Capabilities \cup {None}, flow_id : Flows \cup {None},
   purpose : Purposes \cup {None}, ttl : TTLs \cup {None}, at : Time]

Idle == [op |-> "idle", id |-> None, flow_id |-> None, purpose |-> None,
         ttl |-> None, at |-> 0]

TypeOK ==
  /\ backend \in Backends
  /\ now \in Time
  /\ records \in [Capabilities -> Capability \cup {None}]
  /\ issued \in 0 .. MaxCapabilities
  /\ calls \in [Callers -> Call]
  /\ granted \subseteq Capabilities \X Flows
  /\ spent \in [Capabilities -> Nat]

Init ==
  /\ backend \in Backends
  /\ now = 0
  /\ records = [id \in Capabilities |-> None]
  /\ issued = 0
  /\ calls = [c \in Callers |-> Idle]
  /\ granted = {}
  /\ spent = [id \in Capabilities |-> 0]
-----------------------------------------------------------------------------
\* The calls of issue under way.
Pending == {c \in Callers : calls[c].op = "issue"}

BeginCall(c, call) ==
  /\ calls[c] = Idle
  /\ call.op # "idle"
  /\ call.op = "issue" => issued + Cardinality(Pending) < MaxCapabilities   \* the bound
  /\ call.id # None => call.id <= issued
  /\ call.at = now
  /\ calls' = [calls EXCEPT ![c] = call]
  /\ UNCHANGED <<backend, now, records, issued, granted, spent>>

\* The call returns or raises.
Return(c) == calls' = [calls EXCEPT ![c] = Idle]

Tick ==
  /\ now < MaxTime
  /\ now' = now + 1
  /\ UNCHANGED <<backend, records, issued, calls, granted, spent>>
-----------------------------------------------------------------------------
Open(record) == record.consumed_at = None /\ record.revoked_at = None

ClaimedBy(flow_id) ==
  {id \in Capabilities : records[id] # None /\ records[id].claimed_flow_id = flow_id}

\* The record a search by flow finds: the oldest one (SQLite has at most one).
IsFirstClaimed(id, flow_id) ==
  /\ id \in ClaimedBy(flow_id)
  /\ \A other \in ClaimedBy(flow_id) : id <= other

Issue(c) ==
  /\ calls[c].op = "issue"
  /\ issued < MaxCapabilities
  /\ issued' = issued + 1
  /\ records' = [records EXCEPT ![issued + 1] =
       [purpose |-> calls[c].purpose, expires_at |-> calls[c].at + calls[c].ttl,
        claimed_flow_id |-> None, claimed_at |-> None, consumed_at |-> None,
        revoked_at |-> None]]
  /\ Return(c)
  /\ UNCHANGED <<backend, now, granted, spent>>
-----------------------------------------------------------------------------
(***************************************************************************)
(* claim.  Where the WHERE clause admits the row, the SQLite store still   *)
(* fails if claimed_flow_id, which is UNIQUE, is on another row already.   *)
(***************************************************************************)
\* Wrong form of Claimable: a claimed capability may change hands.
ClaimableByAnyone(call) ==
  LET record == records[call.id] IN
  /\ record.purpose = call.purpose
  /\ record.expires_at > call.at
  /\ Open(record)

\* Wrong form of Claimable: whether the capability is spent is not looked at.
ClaimableSpent(call) ==
  LET record == records[call.id] IN
  /\ record.purpose = call.purpose
  /\ record.expires_at > call.at
  /\ record.claimed_flow_id \in {None, call.flow_id}

Claimable(call) ==
  LET record == records[call.id] IN
  /\ record.purpose = call.purpose
  /\ record.expires_at > call.at
  /\ Open(record)
  /\ record.claimed_flow_id \in {None, call.flow_id}

MeetsUnique(call) == ClaimedBy(call.flow_id) \subseteq {call.id}

ClaimAccepted(call) == Claimable(call) /\ (backend = "sqlite" => MeetsUnique(call))

\* Wrong form of Claimed: the token is stored where the flow belongs.
ClaimedByToken(record, call) ==
  IF record.claimed_flow_id = None
  THEN [record EXCEPT !.claimed_flow_id = call.id, !.claimed_at = call.at]
  ELSE record

Claimed(record, call) ==
  IF record.claimed_flow_id = None
  THEN [record EXCEPT !.claimed_flow_id = call.flow_id, !.claimed_at = call.at]
  ELSE record

Claim(c) ==
  LET call == calls[c] IN
  /\ call.op = "claim"
  /\ IF ClaimAccepted(call)
     THEN /\ records' = [records EXCEPT ![call.id] = Claimed(@, call)]
          /\ granted' = granted \cup {<<call.id, call.flow_id>>}
     ELSE UNCHANGED <<records, granted>>
  /\ Return(c)
  /\ UNCHANGED <<backend, now, issued, spent>>
-----------------------------------------------------------------------------
\* Wrong form of Consumable: a revoked capability can be consumed.
ConsumableRevoked(id, call) ==
  /\ IsFirstClaimed(id, call.flow_id)
  /\ records[id].expires_at > call.at
  /\ records[id].consumed_at = None

\* consume: the flow spends the capability it claimed, if it still may.
Consumable(id, call) ==
  /\ IsFirstClaimed(id, call.flow_id)
  /\ records[id].expires_at > call.at
  /\ Open(records[id])

Consume(c) ==
  LET call == calls[c] IN
  /\ call.op = "consume"
  /\ \/ \E id \in Capabilities :
          /\ Consumable(id, call)
          /\ records' = [records EXCEPT ![id].consumed_at = call.at]
          /\ spent' = [spent EXCEPT ![id] = @ + 1]
     \/ /\ \A id \in Capabilities : ~Consumable(id, call)
        /\ UNCHANGED <<records, spent>>
  /\ Return(c)
  /\ UNCHANGED <<backend, now, issued, granted>>

Releasable(id, flow_id) == IsFirstClaimed(id, flow_id) /\ Open(records[id])

Release(c) ==
  LET flow_id == calls[c].flow_id IN
  /\ calls[c].op = "release"
  /\ \/ \E id \in Capabilities :
          /\ Releasable(id, flow_id)
          /\ records' = [records EXCEPT ![id].claimed_flow_id = None,
                                        ![id].claimed_at = None]
          /\ granted' = granted \ {<<id, flow_id>>}
     \/ /\ \A id \in Capabilities : ~Releasable(id, flow_id)
        /\ UNCHANGED <<records, granted>>
  /\ Return(c)
  /\ UNCHANGED <<backend, now, issued, spent>>

Revoke(c) ==
  LET id == calls[c].id IN
  /\ calls[c].op = "revoke"
  /\ IF Open(records[id])
     THEN /\ records' = [records EXCEPT ![id].revoked_at = calls[c].at]
          /\ spent' = [spent EXCEPT ![id] = @ + 1]
     ELSE UNCHANGED <<records, spent>>
  /\ Return(c)
  /\ UNCHANGED <<backend, now, issued, granted>>
-----------------------------------------------------------------------------
\* The calls a caller may begin: each operation with the arguments it takes.
Issuing == [op : {"issue"}, id : {None}, flow_id : {None}, purpose : Purposes,
            ttl : TTLs, at : {now}]
Claiming == [op : {"claim"}, id : Capabilities, flow_id : Flows, purpose : Purposes,
             ttl : {None}, at : {now}]
ByFlow == [op : {"consume", "release"}, id : {None}, flow_id : Flows, purpose : {None},
           ttl : {None}, at : {now}]
Revoking == [op : {"revoke"}, id : Capabilities, flow_id : {None}, purpose : {None},
             ttl : {None}, at : {now}]

Next ==
  \/ \E c \in Callers :
       \/ \E call \in Issuing \cup Claiming \cup ByFlow \cup Revoking : BeginCall(c, call)
       \/ Issue(c)
       \/ Claim(c)
       \/ Consume(c)
       \/ Release(c)
       \/ Revoke(c)
  \/ Tick

Spec == Init /\ [][Next]_vars
-----------------------------------------------------------------------------
(***************************************************************************)
(* One use: over the whole life of a capability at most one consume or     *)
(* revoke ever succeeds, however many callers race, and a capability that  *)
(* was consumed was, and stays, in the hands of exactly one flow.          *)
(***************************************************************************)
UsedOnce ==
  \A id \in Capabilities :
    /\ spent[id] <= 1
    /\ spent[id] = 1 <=> records[id] # None /\ ~Open(records[id])
    /\ records[id] # None /\ records[id].consumed_at # None =>
         \E f \in Flows : <<id, f>> \in granted

(***************************************************************************)
(* A claim holds: whatever flow claim answered with a capability keeps it, *)
(* alone, until that flow's release succeeds.                              *)
(***************************************************************************)
ClaimsHold ==
  \A id \in Capabilities, f \in Flows :
    <<id, f>> \in granted <=> records[id] # None /\ records[id].claimed_flow_id = f

(***************************************************************************)
(* Once consumed or revoked, a capability never changes again: no late     *)
(* claim, release or revoke of a call that had waited rewrites it.         *)
(***************************************************************************)
SettledStays ==
  \A id \in Capabilities :
    records[id] # None /\ ~Open(records[id]) => records'[id] = records[id]

SettledNeverChange == [][SettledStays]_vars

(***************************************************************************)
(* "Raised for every unusable capability without disclosing why it         *)
(* failed": no claim may end in anything but EnrollmentCapabilityNotFound, *)
(* so a row that the UPDATE of a claim admits must not fail a constraint.  *)
(***************************************************************************)
OnlyNotFoundRaised ==
  \A c \in Callers :
    backend = "sqlite" /\ calls[c].op = "claim" /\ Claimable(calls[c]) =>
      MeetsUnique(calls[c])
=============================================================================
