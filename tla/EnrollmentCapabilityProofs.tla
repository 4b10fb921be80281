--------------------- MODULE EnrollmentCapabilityProofs ---------------------
(***************************************************************************)
(* Enrolment capabilities are used once, and claims hold, for any number   *)
(* of callers, flows and capabilities, any lifetimes and any clock.        *)
(***************************************************************************)
EXTENDS EnrollmentCapability, TLAPS

\* The ids given out so far are those of the stored records.
RecordsIssued == \A id \in Capabilities : records[id] # None <=> id <= issued

\* A waiting call carries the arguments its operation takes.
CallsOK ==
  \A c \in Callers :
    /\ calls[c].op = "issue" => calls[c].purpose \in Purposes /\ calls[c].ttl \in TTLs
    /\ calls[c].op \in {"claim", "revoke"} =>
         calls[c].id \in Capabilities /\ calls[c].id <= issued
    /\ calls[c].op \in {"claim", "consume", "release"} => calls[c].flow_id \in Flows

\* The inductive invariant.
IInv ==
  /\ TypeOK
  /\ RecordsIssued
  /\ CallsOK
  /\ UsedOnce
  /\ ClaimsHold


\* The initial states satisfy the invariant.
LEMMA InitInv == Init => IInv
<1> SUFFICES ASSUME Init PROVE IInv
  OBVIOUS
<1>1. TypeOK
  BY CapabilityAssumption
  DEF Init, TypeOK, Time, Capabilities, Call, Idle, Operations
<1>2. RecordsIssued
  BY CapabilityAssumption DEF Init, RecordsIssued, Capabilities
<1>3. CallsOK
  BY DEF Init, CallsOK, Idle
<1>4. UsedOnce /\ ClaimsHold
  BY DEF Init, UsedOnce, ClaimsHold
<1> QED
  BY <1>1, <1>2, <1>3, <1>4 DEF IInv

\* A call that has returned leaves the other callers' calls as they were.
LEMMA ReturnCalls ==
  ASSUME IInv, NEW c \in Callers, Return(c), issued' \in Nat, issued <= issued'
  PROVE  calls' \in [Callers -> Call] /\ CallsOK'
<1>1. calls' = [calls EXCEPT ![c] = Idle] /\ calls \in [Callers -> Call]
  BY DEF Return, IInv, TypeOK
<1>2. Idle \in Call /\ Idle.op = "idle"
  BY CapabilityAssumption DEF Idle, Call, Operations, Time
<1>3. issued \in Nat
  BY CapabilityAssumption DEF IInv, TypeOK
<1>4. ASSUME NEW d \in Callers
      PROVE  /\ calls'[d].op = "issue" =>
                  calls'[d].purpose \in Purposes /\ calls'[d].ttl \in TTLs
             /\ calls'[d].op \in {"claim", "revoke"} =>
                  calls'[d].id \in Capabilities /\ calls'[d].id <= issued'
             /\ calls'[d].op \in {"claim", "consume", "release"} =>
                  calls'[d].flow_id \in Flows
  <2>1. CASE d = c
    BY <1>1, <1>2, <2>1
  <2>2. CASE d # c
    BY <1>1, <1>3, <2>2, CapabilityAssumption DEF IInv, CallsOK, Capabilities
  <2> QED
    BY <2>1, <2>2
<1> QED
  BY <1>1, <1>2, <1>4 DEF CallsOK

\* issue stores a record that nobody has claimed or spent.
LEMMA IssueInv == ASSUME IInv, NEW c \in Callers, Issue(c) PROVE IInv'
<1> DEFINE new == issued + 1
           record == [purpose |-> calls[c].purpose,
                      expires_at |-> calls[c].at + calls[c].ttl,
                      claimed_flow_id |-> None, claimed_at |-> None,
                      consumed_at |-> None, revoked_at |-> None]
<1>1. /\ issued \in Nat /\ issued' = new /\ new \in Capabilities
      /\ issued' \in 0 .. MaxCapabilities
      /\ records' = [records EXCEPT ![new] = record]
      /\ Return(c) /\ UNCHANGED <<backend, now, granted, spent>>
  BY CapabilityAssumption DEF Issue, IInv, TypeOK, Capabilities
<1>2. record \in Capability /\ record # None
  <2>1. /\ calls[c].purpose \in Purposes /\ calls[c].ttl \in Nat /\ calls[c].at \in Nat
    <3>1. calls[c] \in Call /\ calls[c].op = "issue"
      BY DEF Issue, IInv, TypeOK
    <3>2. calls[c].at \in Nat
      BY <3>1, CapabilityAssumption DEF Call, Time
    <3>3. calls[c].purpose \in Purposes /\ calls[c].ttl \in TTLs
      BY <3>1 DEF IInv, CallsOK
    <3> QED
      BY <3>2, <3>3, CapabilityAssumption
  <2>2. record \in Capability
    BY <2>1 DEF Capability, Stamp
  <2> QED
    BY <2>2, NoneAssumption
<1> HIDE DEF record
<1>3. /\ calls' \in [Callers -> Call] /\ CallsOK'
  BY <1>1, ReturnCalls
<1>4. /\ records' \in [Capabilities -> Capability \cup {None}]
      /\ records[new] = None /\ records'[new] = record
      /\ \A id \in Capabilities : id # new => records'[id] = records[id]
  BY <1>1, <1>2 DEF IInv, TypeOK, RecordsIssued
<1>5. TypeOK'
  BY <1>1, <1>3, <1>4 DEF IInv, TypeOK
<1>6. RecordsIssued'
  <2> SUFFICES ASSUME NEW id \in Capabilities
               PROVE  records'[id] # None <=> id <= issued'
    BY DEF RecordsIssued
  <2>1. id \in Nat /\ (records[id] # None <=> id <= issued)
    BY DEF Capabilities, IInv, RecordsIssued
  <2> QED
    BY <1>1, <1>2, <1>4, <2>1
<1>7. record.claimed_flow_id = None /\ record.consumed_at = None /\ record.revoked_at = None
  BY DEF record
<1>8. UsedOnce'
  BY <1>1, <1>2, <1>4, <1>7 DEF IInv, UsedOnce, Open, TypeOK
<1>9. ClaimsHold'
  BY <1>1, <1>2, <1>4, <1>7, CapabilityAssumption DEF IInv, ClaimsHold
<1> QED
  BY <1>3, <1>5, <1>6, <1>8, <1>9 DEF IInv

\* The record a waiting claim names is stored, and so are the ids of its call.
LEMMA ClaimArguments ==
  ASSUME IInv, NEW c \in Callers, calls[c].op \in {"claim", "revoke"}
  PROVE  /\ calls[c].id \in Capabilities /\ records[calls[c].id] \in Capability
         /\ records[calls[c].id] # None
         /\ calls[c].at \in Time /\ calls[c].at # None
  BY CapabilityAssumption, NoneAssumption
  DEF IInv, TypeOK, CallsOK, RecordsIssued, Call, Time

\* claim gives the capability to the flow, if no other flow holds it.
LEMMA ClaimInv == ASSUME IInv, NEW c \in Callers, Claim(c) PROVE IInv'
<1>1. /\ calls[c].op = "claim" /\ Return(c)
      /\ UNCHANGED <<backend, now, issued, spent>>
      /\ issued \in Nat
  BY CapabilityAssumption DEF Claim, IInv, TypeOK
<1>2. calls' \in [Callers -> Call] /\ CallsOK'
  BY <1>1, ReturnCalls
<1>3. CASE ~ClaimAccepted(calls[c])
  <2>1. UNCHANGED <<records, granted>>
    BY <1>3 DEF Claim
  <2> QED
    BY <1>1, <1>2, <2>1
    DEF IInv, TypeOK, RecordsIssued, UsedOnce, ClaimsHold, Open
<1>4. CASE ClaimAccepted(calls[c])
  <2> DEFINE id == calls[c].id
             f == calls[c].flow_id
             record == records[id]
  <2>1. /\ id \in Capabilities /\ f \in Flows /\ f # None
        /\ record \in Capability /\ record # None
        /\ calls[c].at \in Time /\ calls[c].at # None
    BY <1>1, ClaimArguments, CapabilityAssumption DEF IInv, CallsOK
  <2>2. /\ records' = [records EXCEPT ![id] = Claimed(record, calls[c])]
        /\ granted' = granted \cup {<<id, f>>}
        /\ Open(record) /\ record.claimed_flow_id \in {None, f}
        /\ backend = "sqlite" => ClaimedBy(f) \subseteq {id}
    BY <1>4 DEF Claim, ClaimAccepted, Claimable, MeetsUnique
  <2>3. /\ Claimed(record, calls[c]) \in Capability
        /\ Claimed(record, calls[c]).claimed_flow_id = f
        /\ Open(Claimed(record, calls[c]))
    BY <2>1, <2>2 DEF Claimed, Capability, Stamp, Open
  <2>4. /\ records' \in [Capabilities -> Capability \cup {None}]
        /\ records'[id] = Claimed(record, calls[c]) /\ records'[id] # None
        /\ records'[id].claimed_flow_id = f /\ Open(records'[id])
        /\ \A other \in Capabilities : other # id => records'[other] = records[other]
    BY <2>1, <2>2, <2>3, NoneAssumption DEF IInv, TypeOK
  <2> HIDE DEF id, f, record
  <2>5. TypeOK'
    BY <1>1, <1>2, <2>1, <2>2, <2>4 DEF IInv, TypeOK
  <2>6. RecordsIssued'
    BY <1>1, <2>1, <2>4 DEF IInv, RecordsIssued, record
  <2>7. UsedOnce'
    <3>1. ASSUME NEW other \in Capabilities
          PROVE  /\ spent'[other] <= 1
                 /\ spent'[other] = 1 <=> records'[other] # None /\ ~Open(records'[other])
                 /\ records'[other] # None /\ records'[other].consumed_at # None =>
                      \E g \in Flows : <<other, g>> \in granted'
      <4>1. CASE other = id
        BY <1>1, <2>1, <2>2, <2>4, <4>1 DEF IInv, UsedOnce, record, Open
      <4>2. CASE other # id
        BY <1>1, <2>2, <2>4, <4>2 DEF IInv, UsedOnce
      <4> QED
        BY <4>1, <4>2
    <3> QED
      BY <3>1 DEF UsedOnce, Open
  <2>8. ClaimsHold'
    <3>1. ASSUME NEW other \in Capabilities, NEW g \in Flows
          PROVE  <<other, g>> \in granted' <=>
                   records'[other] # None /\ records'[other].claimed_flow_id = g
      <4>1. <<other, g>> \in granted <=>
              records[other] # None /\ records[other].claimed_flow_id = g
        BY DEF IInv, ClaimsHold
      <4>2. CASE other = id
        BY <2>1, <2>2, <2>4, <4>1, <4>2, CapabilityAssumption DEF record
      <4>3. CASE other # id
        BY <2>2, <2>4, <4>1, <4>3
      <4> QED
        BY <4>2, <4>3
    <3> QED
      BY <3>1 DEF ClaimsHold
  <2> QED
    BY <1>2, <2>5, <2>6, <2>7, <2>8 DEF IInv
<1> QED
  BY <1>3, <1>4

\* consume spends an open capability in the hands of the flow.
LEMMA ConsumeInv == ASSUME IInv, NEW c \in Callers, Consume(c) PROVE IInv'
<1>1. /\ calls[c].op = "consume" /\ Return(c)
      /\ UNCHANGED <<backend, now, issued, granted>>
      /\ issued \in Nat
  BY CapabilityAssumption DEF Consume, IInv, TypeOK
<1>2. calls' \in [Callers -> Call] /\ CallsOK'
  BY <1>1, ReturnCalls
<1>3. CASE UNCHANGED <<records, spent>>
  BY <1>1, <1>2, <1>3
  DEF IInv, TypeOK, RecordsIssued, UsedOnce, ClaimsHold, Open
<1>4. ASSUME NEW id \in Capabilities, Consumable(id, calls[c]),
             records' = [records EXCEPT ![id].consumed_at = calls[c].at],
             spent' = [spent EXCEPT ![id] = @ + 1]
      PROVE  IInv'
  <2>1. /\ records[id] \in Capability /\ records[id] # None /\ Open(records[id])
        /\ calls[c].flow_id \in Flows /\ records[id].claimed_flow_id = calls[c].flow_id
        /\ calls[c].at \in Time /\ calls[c].at # None
    BY <1>1, <1>4, CapabilityAssumption
    DEF IInv, TypeOK, CallsOK, Consumable, IsFirstClaimed, ClaimedBy, Call, Time
  <2> DEFINE record == [records[id] EXCEPT !.consumed_at = calls[c].at]
  <2>2. /\ record \in Capability /\ record.claimed_flow_id = records[id].claimed_flow_id
        /\ record.consumed_at # None /\ ~Open(record) /\ record # None
    BY <2>1, NoneAssumption DEF Capability, Stamp, Open
  <2>3. /\ records' \in [Capabilities -> Capability \cup {None}]
        /\ records'[id] = record
        /\ \A other \in Capabilities : other # id => records'[other] = records[other]
    BY <1>4, <2>2 DEF IInv, TypeOK
  <2>4. /\ spent' \in [Capabilities -> Nat] /\ spent'[id] = 1
        /\ \A other \in Capabilities : other # id => spent'[other] = spent[other]
    <3>1. spent[id] \in Nat /\ spent[id] <= 1 /\ spent[id] # 1
      BY <2>1 DEF IInv, TypeOK, UsedOnce
    <3> QED
      BY <1>4, <3>1 DEF IInv, TypeOK
  <2> HIDE DEF record
  <2>5. TypeOK'
    BY <1>1, <1>2, <2>3, <2>4 DEF IInv, TypeOK
  <2>6. RecordsIssued'
    BY <1>1, <2>1, <2>2, <2>3 DEF IInv, RecordsIssued
  <2>7. \E f \in Flows : <<id, f>> \in granted
    BY <2>1 DEF IInv, ClaimsHold
  <2>8. UsedOnce'
    BY <1>1, <2>2, <2>3, <2>4, <2>7 DEF IInv, UsedOnce, Open
  <2>9. ClaimsHold'
    <3>1. ASSUME NEW other \in Capabilities, NEW g \in Flows
          PROVE  <<other, g>> \in granted' <=>
                   records'[other] # None /\ records'[other].claimed_flow_id = g
      <4>1. <<other, g>> \in granted <=>
              records[other] # None /\ records[other].claimed_flow_id = g
        BY DEF IInv, ClaimsHold
      <4>2. CASE other = id
        BY <1>1, <2>1, <2>2, <2>3, <4>1, <4>2
      <4>3. CASE other # id
        BY <1>1, <2>1, <2>2, <2>3, <4>1, <4>3
      <4> QED
        BY <4>2, <4>3
    <3> QED
      BY <3>1 DEF ClaimsHold
  <2> QED
    BY <1>2, <2>5, <2>6, <2>8, <2>9 DEF IInv
<1> QED
  BY <1>3, <1>4 DEF Consume

\* release takes an open capability from the flow that holds it.
LEMMA ReleaseInv == ASSUME IInv, NEW c \in Callers, Release(c) PROVE IInv'
<1> DEFINE f == calls[c].flow_id
<1>1. /\ calls[c].op = "release" /\ Return(c)
      /\ UNCHANGED <<backend, now, issued, spent>>
      /\ issued \in Nat
  BY CapabilityAssumption DEF Release, IInv, TypeOK
<1>2. calls' \in [Callers -> Call] /\ CallsOK'
  BY <1>1, ReturnCalls
<1>3. CASE UNCHANGED <<records, granted>>
  BY <1>1, <1>2, <1>3
  DEF IInv, TypeOK, RecordsIssued, UsedOnce, ClaimsHold, Open
<1>4. ASSUME NEW id \in Capabilities, Releasable(id, f),
             records' = [records EXCEPT ![id].claimed_flow_id = None, ![id].claimed_at = None],
             granted' = granted \ {<<id, f>>}
      PROVE  IInv'
  <2>1. /\ records[id] \in Capability /\ records[id] # None /\ Open(records[id])
        /\ f \in Flows /\ records[id].claimed_flow_id = f
    BY <1>1, <1>4
    DEF IInv, TypeOK, CallsOK, Releasable, IsFirstClaimed, ClaimedBy
  <2> DEFINE record == [records[id] EXCEPT !.claimed_flow_id = None, !.claimed_at = None]
  <2>2. /\ record \in Capability /\ record # None
        /\ record.claimed_flow_id = None /\ Open(record)
    BY <2>1, NoneAssumption DEF Capability, Stamp, Open
  <2>3. /\ records' \in [Capabilities -> Capability \cup {None}]
        /\ records'[id] = record
        /\ \A other \in Capabilities : other # id => records'[other] = records[other]
    BY <1>4, <2>2 DEF IInv, TypeOK
  <2> HIDE DEF record, f
  <2>4. TypeOK'
    BY <1>1, <1>2, <1>4, <2>3 DEF IInv, TypeOK
  <2>5. RecordsIssued'
    BY <1>1, <2>1, <2>2, <2>3 DEF IInv, RecordsIssued
  <2>6. UsedOnce'
    <3>1. ASSUME NEW other \in Capabilities
          PROVE  /\ spent'[other] <= 1
                 /\ spent'[other] = 1 <=> records'[other] # None /\ ~Open(records'[other])
                 /\ records'[other] # None /\ records'[other].consumed_at # None =>
                      \E g \in Flows : <<other, g>> \in granted'
      <4>1. CASE other = id
        BY <1>1, <2>1, <2>2, <2>3, <4>1 DEF IInv, UsedOnce, Open
      <4>2. CASE other # id
        BY <1>1, <1>4, <2>3, <4>2 DEF IInv, UsedOnce
      <4> QED
        BY <4>1, <4>2
    <3> QED
      BY <3>1 DEF UsedOnce, Open
  <2>7. ClaimsHold'
    <3>1. ASSUME NEW other \in Capabilities, NEW g \in Flows
          PROVE  <<other, g>> \in granted' <=>
                   records'[other] # None /\ records'[other].claimed_flow_id = g
      <4>1. <<other, g>> \in granted <=>
              records[other] # None /\ records[other].claimed_flow_id = g
        BY DEF IInv, ClaimsHold
      <4>2. CASE other = id
        BY <1>4, <2>1, <2>2, <2>3, <4>1, <4>2, CapabilityAssumption
      <4>3. CASE other # id
        BY <1>4, <2>3, <4>1, <4>3
      <4> QED
        BY <4>2, <4>3
    <3> QED
      BY <3>1 DEF ClaimsHold
  <2> QED
    BY <1>2, <2>4, <2>5, <2>6, <2>7 DEF IInv
<1> QED
  BY <1>3, <1>4 DEF Release

\* revoke spends an open capability, whoever holds it.
LEMMA RevokeInv == ASSUME IInv, NEW c \in Callers, Revoke(c) PROVE IInv'
<1> DEFINE id == calls[c].id
<1>1. /\ calls[c].op = "revoke" /\ Return(c)
      /\ UNCHANGED <<backend, now, issued, granted>>
      /\ issued \in Nat
  BY CapabilityAssumption DEF Revoke, IInv, TypeOK
<1>2. calls' \in [Callers -> Call] /\ CallsOK'
  BY <1>1, ReturnCalls
<1>3. CASE ~Open(records[id])
  <2>1. UNCHANGED <<records, spent>>
    BY <1>3 DEF Revoke
  <2> QED
    BY <1>1, <1>2, <2>1
    DEF IInv, TypeOK, RecordsIssued, UsedOnce, ClaimsHold, Open
<1>4. CASE Open(records[id])
  <2>1. /\ id \in Capabilities /\ records[id] \in Capability /\ records[id] # None
        /\ calls[c].at \in Time /\ calls[c].at # None
    BY <1>1, ClaimArguments
  <2> DEFINE record == [records[id] EXCEPT !.revoked_at = calls[c].at]
  <2>2. /\ record \in Capability /\ record.claimed_flow_id = records[id].claimed_flow_id
        /\ record.consumed_at = None /\ ~Open(record) /\ record # None
    BY <1>4, <2>1, NoneAssumption DEF Capability, Stamp, Open
  <2>3. /\ records' = [records EXCEPT ![id].revoked_at = calls[c].at]
        /\ spent' = [spent EXCEPT ![id] = @ + 1]
    BY <1>4 DEF Revoke
  <2>4. /\ records' \in [Capabilities -> Capability \cup {None}]
        /\ records'[id] = record
        /\ \A other \in Capabilities : other # id => records'[other] = records[other]
    BY <2>1, <2>2, <2>3 DEF IInv, TypeOK
  <2>5. /\ spent' \in [Capabilities -> Nat] /\ spent'[id] = 1
        /\ \A other \in Capabilities : other # id => spent'[other] = spent[other]
    <3>1. spent[id] \in Nat /\ spent[id] <= 1 /\ spent[id] # 1
      BY <1>4, <2>1 DEF IInv, TypeOK, UsedOnce
    <3> QED
      BY <2>1, <2>3, <3>1 DEF IInv, TypeOK
  <2> HIDE DEF record, id
  <2>6. TypeOK'
    BY <1>1, <1>2, <2>4, <2>5 DEF IInv, TypeOK
  <2>7. RecordsIssued'
    BY <1>1, <2>1, <2>2, <2>4 DEF IInv, RecordsIssued
  <2>8. UsedOnce'
    BY <1>1, <2>1, <2>2, <2>4, <2>5 DEF IInv, UsedOnce, Open
  <2>9. ClaimsHold'
    <3>1. ASSUME NEW other \in Capabilities, NEW g \in Flows
          PROVE  <<other, g>> \in granted' <=>
                   records'[other] # None /\ records'[other].claimed_flow_id = g
      <4>1. <<other, g>> \in granted <=>
              records[other] # None /\ records[other].claimed_flow_id = g
        BY DEF IInv, ClaimsHold
      <4>2. CASE other = id
        BY <1>1, <2>1, <2>2, <2>4, <4>1, <4>2
      <4>3. CASE other # id
        BY <1>1, <2>1, <2>2, <2>4, <4>1, <4>3
      <4> QED
        BY <4>2, <4>3
    <3> QED
      BY <3>1 DEF ClaimsHold
  <2> QED
    BY <1>2, <2>6, <2>7, <2>8, <2>9 DEF IInv
<1> QED
  BY <1>3, <1>4

\* A call that begins names issued capabilities and carries its arguments.
LEMMA BeginCallInv ==
  ASSUME IInv, NEW c \in Callers,
         NEW call \in Issuing \cup Claiming \cup ByFlow \cup Revoking, BeginCall(c, call)
  PROVE  IInv'
<1>1. now \in Time
  BY DEF IInv, TypeOK
<1>2. /\ calls' = [calls EXCEPT ![c] = call]
      /\ UNCHANGED <<backend, now, records, issued, granted, spent>>
      /\ call.id # None => call.id <= issued
  BY DEF BeginCall
<1>3. /\ call \in Call
      /\ call.op = "issue" => call.purpose \in Purposes /\ call.ttl \in TTLs
      /\ call.op \in {"claim", "revoke"} => call.id \in Capabilities
      /\ call.op \in {"claim", "consume", "release"} => call.flow_id \in Flows
  <2>1. CASE call \in Issuing
    BY <1>1, <2>1 DEF Issuing, Call, Operations
  <2>2. CASE call \in Claiming
    BY <1>1, <2>2 DEF Claiming, Call, Operations
  <2>3. CASE call \in ByFlow
    BY <1>1, <2>3 DEF ByFlow, Call, Operations
  <2>4. CASE call \in Revoking
    BY <1>1, <2>4 DEF Revoking, Call, Operations
  <2> QED
    BY <2>1, <2>2, <2>3, <2>4
<1>4. call.id \in Capabilities => call.id # None
  BY CapabilityAssumption DEF Capabilities
<1>5. calls' \in [Callers -> Call] /\ CallsOK'
  BY <1>2, <1>3, <1>4 DEF IInv, TypeOK, CallsOK
<1> QED
  BY <1>2, <1>5
  DEF IInv, TypeOK, RecordsIssued, UsedOnce, ClaimsHold, Open

\* Every step keeps the invariant.
LEMMA StepInv == IInv /\ [Next]_vars => IInv'
<1> SUFFICES ASSUME IInv, [Next]_vars PROVE IInv'
  OBVIOUS
<1>1. CASE UNCHANGED vars
  BY <1>1
  DEF vars, IInv, TypeOK, RecordsIssued, CallsOK, UsedOnce, ClaimsHold, Open
<1>2. CASE Tick
  <2>1. now' \in Time /\ UNCHANGED <<backend, records, issued, calls, granted, spent>>
    BY <1>2, CapabilityAssumption DEF Tick, IInv, TypeOK, Time
  <2>2. TypeOK'
    BY <2>1 DEF IInv, TypeOK
  <2> QED
    BY <2>1, <2>2
    DEF IInv, RecordsIssued, CallsOK, UsedOnce, ClaimsHold, Open
<1>3. ASSUME NEW c \in Callers,
             \/ \E call \in Issuing \cup Claiming \cup ByFlow \cup Revoking : BeginCall(c, call)
             \/ Issue(c) \/ Claim(c) \/ Consume(c) \/ Release(c) \/ Revoke(c)
      PROVE  IInv'
  BY <1>3, BeginCallInv, IssueInv, ClaimInv, ConsumeInv, ReleaseInv, RevokeInv
<1> QED
  BY <1>1, <1>2, <1>3 DEF Next

\* The inductive invariant holds in every reachable state.
LEMMA Invariant == Spec => []IInv
BY InitInv, StepInv, PTL DEF Spec

\* Both capability stores hold only well-formed records.
THEOREM CapabilityTypeCorrect == Spec => []TypeOK
<1>1. IInv => TypeOK
  BY DEF IInv
<1> QED
  BY <1>1, Invariant, PTL

\* At most one consume or revoke of a capability ever succeeds, and what is
\* consumed was in the hands of a flow.
THEOREM CapabilityUsedOnce == Spec => []UsedOnce
<1>1. IInv => UsedOnce
  BY DEF IInv
<1> QED
  BY <1>1, Invariant, PTL

\* A capability stays with the flow that claimed it, and with it alone, until
\* that flow's release succeeds.
THEOREM CapabilityClaimsHold == Spec => []ClaimsHold
<1>1. IInv => ClaimsHold
  BY DEF IInv
<1> QED
  BY <1>1, Invariant, PTL

\* No step changes a capability that was consumed or revoked.
THEOREM SettledCapabilitiesNeverChange == Spec => SettledNeverChange
<1>1. IInv /\ [Next]_vars => [SettledStays]_vars
  <2> SUFFICES ASSUME IInv, Next, NEW id \in Capabilities,
                      records[id] # None, ~Open(records[id])
               PROVE  records'[id] = records[id]
    BY DEF SettledStays
  <2>1. ASSUME NEW c \in Callers, Issue(c)
        PROVE  records'[id] = records[id]
    <3>1. issued \in Nat /\ issued < MaxCapabilities /\ issued + 1 # id
      BY <2>1, CapabilityAssumption DEF Issue, IInv, TypeOK, RecordsIssued, Capabilities
    <3> QED
      BY <2>1, <3>1 DEF Issue, IInv, TypeOK
  <2>2. ASSUME NEW c \in Callers, Claim(c)
        PROVE  records'[id] = records[id]
    BY <2>2 DEF Claim, ClaimAccepted, Claimable, IInv, TypeOK
  <2>3. ASSUME NEW c \in Callers, Consume(c)
        PROVE  records'[id] = records[id]
    BY <2>3 DEF Consume, Consumable, IInv, TypeOK
  <2>4. ASSUME NEW c \in Callers, Release(c)
        PROVE  records'[id] = records[id]
    BY <2>4 DEF Release, Releasable, IInv, TypeOK
  <2>5. ASSUME NEW c \in Callers, Revoke(c)
        PROVE  records'[id] = records[id]
    BY <2>5 DEF Revoke, IInv, TypeOK
  <2> QED
    BY <2>1, <2>2, <2>3, <2>4, <2>5 DEF Next, BeginCall, Tick
<1> QED
  BY <1>1, Invariant, PTL DEF Spec, SettledNeverChange
=============================================================================
