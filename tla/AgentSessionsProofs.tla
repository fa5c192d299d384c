------------------------ MODULE AgentSessionsProofs ------------------------
(***************************************************************************)
(* Proofs about AgentSessions, for any sets of specifications, processes   *)
(* and inbox signatures and any number of disturbances.  The inductive     *)
(* invariant says which process and which specification may be where: in   *)
(* the slot (SlotInv), under construction (BuildInv), claimed (ClaimInv),  *)
(* in the way of the service's end (EndInv) or written to (WriteInv).      *)
(***************************************************************************)
EXTENDS AgentSessions, SequenceTheorems, TLAPS

Ledgers == [profile : {Profile[d] : d \in Specs} \cup {Default}, attempts : Nat,
            exhausted : BOOLEAN]

Writes == [kind : {"none", "steer", "turn"}, proc : Procs \cup {NoProc},
           items : Inboxes, taken : BOOLEAN, current : BOOLEAN]

ClaimTypes == [spec : Specs \cup {Removed}, cancelled : BOOLEAN]

(* TypeOK, with its sets of records named. *)
Typed ==
  /\ desired \in Specs \cup {Removed}
  /\ caller \in {"none", "waiting", "failing"}
  /\ session \in SessionTypes /\ claim \in ClaimTypes
  /\ builds \in [Owners -> BuildTypes]
  /\ live \subseteq Procs /\ reaping \subseteq Procs
  /\ ledger \in Ledgers
  /\ inbox \in Inboxes
  /\ writing \in Writes
  /\ turning \in {"none", "running", "hung", "ended"}
  /\ events \in Seq(Kinds) /\ Len(events) <= EventCap
  /\ moved \in BOOLEAN
  /\ status \in Statuses
  /\ closing \in {"open", "canceled", "closing", "closed"}
  /\ left \in 0..Disturbances

(* The slot: what a dead generation may look like, and who restarts it. *)
SlotInv ==
  /\ Resident => session.spec = desired /\ desired \in Specs
  /\ ~Resident => session = NoSession
  /\ session.parked => session.dead /\ ~session.rejected /\ session.state = "disconnected"
  /\ session.rejected => session.dead /\ session.state = "failed"
  /\ session.dead <=> session.state \in {"failed", "disconnected"}
  /\ session.state = "failed" => session.proc \notin live
  /\ session.state = "disconnected" /\ ~session.parked
       => ~session.reading /\ session.proc \notin live
  /\ Resident /\ ~session.parked => ~Busy(session.proc)
  /\ closing = "open" /\ session.parked => Busy(session.proc)

(* The constructions: which process an owner has, and which generation it replaces. *)
BuildOK(o) ==
  /\ builds[o].step # "building" => builds[o].proc = NoProc
  /\ builds[o].step \in {"building", "returned"} => builds[o].spec \in Specs
  /\ builds[o].proc # NoProc => builds[o].proc # session.proc /\ ~Busy(builds[o].proc)

Replaces(p) ==
  builds[p].step \in {"building", "returned"} /\ session.proc = p
    => /\ p \notin live
       /\ builds[p].step = "building" /\ builds[p].current => builds[p].spec = session.spec

OwnProcs ==
  \A o, w \in Owners : builds[o].proc = builds[w].proc /\ builds[o].proc # NoProc => o = w

BuildInv ==
  /\ \A o \in Owners : BuildOK(o)
  /\ OwnProcs
  /\ \A p \in Procs : Replaces(p)

(* The claim. *)
ClaimInv ==
  /\ Busy(Fresh) => Claimed
  /\ Claimed /\ Resident => builds[Fresh].step = "returned" /\ builds[Fresh].current
  /\ Claimed /\ ~claim.cancelled /\ (builds[Fresh].step # "returned" \/ ~builds[Fresh].current)
       => claim.spec = desired
  /\ builds[Fresh].step = "building" /\ builds[Fresh].current => builds[Fresh].spec = claim.spec

(* The end of the service, and of a write. *)
EndInv ==
  /\ closing \in {"closing", "closed"} => ~Resident
  /\ closing = "closed" => reaping = {} /\ ~Claimed /\ \A o \in Owners : ~Busy(o)

WriteInv == writing.kind # "none" => writing.proc \in Procs

IInv == Typed /\ SlotInv /\ BuildInv /\ ClaimInv /\ EndInv /\ WriteInv /\ NoOrphan

\* ------------------------------------------------------------------- types

LEMMA SessionIs ==
  ASSUME NEW p \in Procs \cup {NoProc}, NEW d \in Specs \cup {Removed}
  PROVE  Session(p, d) \in SessionTypes
BY DEF Session, SessionTypes, Statuses, Inboxes, NoItems

LEMMA BuildIs ==
  ASSUME NEW step \in {"none", "parked", "building", "returned"}, NEW d \in Specs \cup {Removed}
  PROVE  Build(step, d) \in BuildTypes
BY DEF Build, BuildTypes

LEMMA TypesAre ==
  ASSUME Typed
  PROVE  /\ session \in SessionTypes /\ ledger \in Ledgers /\ writing \in Writes
         /\ claim \in ClaimTypes
         /\ builds \in [Owners -> BuildTypes]
         /\ \A o \in Owners : builds[o] \in BuildTypes
         /\ left \in 0..Disturbances /\ desired \in Specs \cup {Removed}
         /\ Fresh \in Owners /\ Procs \subseteq Owners
BY DEF Typed, Owners

LEMMA ReturnedIs ==
  ASSUME Typed, NEW o \in Owners, NEW err \in BOOLEAN
  PROVE  Returned(o, err) \in BuildTypes
<1>1. builds[o] \in BuildTypes
  BY TypesAre
<1> QED
  BY <1>1 DEF Returned, BuildTypes

LEMMA NoLedgerIs == NoLedger \in Ledgers
BY SessionAssumption DEF NoLedger, Ledgers

LEMMA LedgerIs ==
  ASSUME Typed, NEW d \in Specs
  PROVE  NextAttempt(d) \in Ledgers /\ RecordFailure(d) \in Ledgers
<1>1. ledger \in Ledgers
  BY TypesAre
<1>2. ASSUME NEW l \in Ledgers, NEW x \in BOOLEAN PROVE [l EXCEPT !.exhausted = x] \in Ledgers
  BY DEF Ledgers
<1>3. NextAttempt(d) \in Ledgers
  <2>1. ledger.attempts \in Nat /\ ledger.exhausted \in BOOLEAN
    BY <1>1 DEF Ledgers
  <2> DEFINE n == IF ledger.profile = Profile[d] THEN ledger.attempts ELSE 0
             m == n + 1
             x == ledger.profile = Profile[d] /\ ledger.exhausted
  <2>2. m \in Nat
    BY <2>1
  <2>3. x \in BOOLEAN
    OBVIOUS
  <2>4. NextAttempt(d) = [profile |-> Profile[d], attempts |-> m, exhausted |-> x]
    BY Zenon DEF NextAttempt
  <2> HIDE DEF m, x
  <2> QED
    BY <2>2, <2>3, <2>4 DEF Ledgers
<1> QED
  BY <1>2, <1>3 DEF RecordFailure

LEMMA CorpseIs ==
  ASSUME Typed, NEW state \in {"failed", "disconnected"}, NEW parked \in BOOLEAN
  PROVE  Corpse(state, parked) \in SessionTypes
BY DEF Typed, Corpse, SessionTypes, Statuses, Inboxes, NoItems

LEMMA FencedIs ==
  ASSUME Typed
  PROVE  Fenced \in Writes
BY DEF Typed, Fenced, Writes

LEMMA DisturbIs ==
  ASSUME Typed, NEW happens, Disturb(happens)
  PROVE  left' \in 0..Disturbances
BY SessionAssumption DEF Typed, Disturb

LEMMA TypesInitially == Init => Typed
<1> HAVE Init
<1>1. NoSession \in SessionTypes /\ NoBuild \in BuildTypes /\ NoLedger \in Ledgers
  BY SessionIs, BuildIs, NoLedgerIs DEF NoSession, NoBuild
<1>2. NoClaim \in ClaimTypes
  BY DEF NoClaim, Claim, ClaimTypes
<1>3. NoItems \in Inboxes /\ NoWrite \in Writes
  BY DEF NoItems, Inboxes, NoWrite, Write, Writes
<1>4. Disturbances \in 0..Disturbances /\ <<>> \in Seq(Kinds) /\ Len(<<>>) <= EventCap
  BY SessionAssumption
<1> QED
  BY <1>1, <1>2, <1>3, <1>4 DEF Init, Typed, Statuses

LEMMA Respec ==
  ASSUME NEW s \in SessionTypes, NEW d \in Specs \cup {Removed}
  PROVE  [s EXCEPT !.spec = d] \in SessionTypes
BY DEF SessionTypes

LEMMA Rebuilt ==
  ASSUME Typed, NEW o \in Owners, NEW b \in BuildTypes
  PROVE  [builds EXCEPT ![o] = b] \in [Owners -> BuildTypes]
BY TypesAre

LEMMA Outdated ==
  ASSUME Typed, NEW o \in Owners
  PROVE  [builds[o] EXCEPT !.current = FALSE] \in BuildTypes
<1>1. builds[o] \in BuildTypes
  BY TypesAre
<1> QED
  BY <1>1 DEF BuildTypes

LEMMA ClaimsIs ==
  ASSUME Typed, NEW d \in Specs, Claims(d)
  PROVE  /\ claim' \in ClaimTypes
         /\ builds' \in [Owners -> BuildTypes]
         /\ caller' = "waiting"
<1>1. claim' \in ClaimTypes
  BY DEF Typed, ClaimTypes, Claims, Claim
<1> QED
  BY <1>1, TypesAre, Rebuilt, Outdated DEF Claims

LEMMA EndClaimIs ==
  ASSUME Typed, NEW err, EndClaim(err)
  PROVE  /\ claim' \in ClaimTypes
         /\ builds' \in [Owners -> BuildTypes]
         /\ caller' \in {"none", "waiting", "failing"}
<1>1. claim' \in ClaimTypes
  BY DEF EndClaim, NoClaim, Claim, ClaimTypes
<1>2. NoBuild \in BuildTypes
  BY BuildIs DEF NoBuild
<1> QED
  BY <1>1, <1>2, TypesAre, Rebuilt DEF EndClaim, Typed

LEMMA EmptyIs ==
  /\ NoSession \in SessionTypes /\ NoBuild \in BuildTypes /\ NoLedger \in Ledgers
  /\ NoWrite \in Writes /\ <<>> \in Seq(Kinds) /\ Len(<<>>) <= EventCap
BY SessionIs, BuildIs, NoLedgerIs, SessionAssumption
   DEF NoSession, NoBuild, NoWrite, Write, Writes, NoItems, Inboxes

LEMMA TypedReconcile ==
  ASSUME Typed, NEW d \in Specs, Reconcile(d) \/ EnsureRefused(d)
  PROVE  Typed'
<1>1. /\ [session EXCEPT !.spec = d] \in SessionTypes
      /\ NoSession \in SessionTypes /\ NoLedger \in Ledgers
      /\ <<>> \in Seq(Kinds) /\ Len(<<>>) <= EventCap
  BY Respec, TypesAre, EmptyIs
<1>2. left' \in 0..Disturbances /\ desired' = d
  BY DisturbIs
     DEF Reconcile, EnsureRefused, Reconciling, EnsureLive, EnsureParked, ReplaceFailed, EnsureClaim,
         EnsureNew, EnsureBackoff, EnsureGivenUp
<1>3. CASE EnsureLive(d)
  BY <1>1, <1>2, <1>3, TypesAre DEF EnsureLive, KeepLedger, Typed
<1>4. CASE EnsureParked(d)
  <2>1. RefreshDesiredSpec(d) \in [Owners -> BuildTypes]
    <3>1. session.proc \in Owners
      BY <1>4 DEF EnsureParked, Resident, Typed, SessionTypes, Owners
    <3> QED
      BY <3>1, TypesAre, Rebuilt, Outdated DEF RefreshDesiredSpec
  <2> QED
    BY <1>1, <1>2, <1>4, <2>1, TypesAre DEF EnsureParked, KeepLedger, Typed
<1>5. CASE ReplaceFailed(d)
  BY <1>1, <1>2, <1>5, ClaimsIs DEF ReplaceFailed, Typed
<1>6. CASE EnsureClaim(d)
  BY <1>1, <1>2, <1>6, ClaimsIs, TypesAre DEF EnsureClaim, KeepLedger, Typed
<1>7. CASE EnsureNew(d)
  BY <1>1, <1>2, <1>7, ClaimsIs, TypesAre DEF EnsureNew, Typed
<1>8. CASE EnsureBackoff(d)
  BY <1>2, <1>8 DEF EnsureBackoff, Typed
<1>9. CASE EnsureGivenUp(d)
  BY <1>2, <1>9 DEF EnsureGivenUp, Typed, Statuses
<1>10. CASE EnsureRefused(d)
  BY <1>2, <1>10 DEF EnsureRefused, Typed
<1> QED
  BY <1>3, <1>4, <1>5, <1>6, <1>7, <1>8, <1>9, <1>10 DEF Reconcile

LEMMA TypedSlot ==
  ASSUME Typed, Remove \/ DropCorpse \/ Preempted \/ ReportError \/ Cancel \/ Shutdown
                   \/ ShutdownReturns \/ \E p \in Procs : Reap(p) \/ Crash(p)
  PROVE  Typed'
<1>1. /\ NoSession \in SessionTypes /\ NoLedger \in Ledgers
      /\ <<>> \in Seq(Kinds) /\ Len(<<>>) <= EventCap
  BY EmptyIs
<1>2. Resident => session.proc \in Procs
  BY DEF Resident, Typed, SessionTypes
<1>3. CASE Remove
  <2>1. left' \in 0..Disturbances /\ desired' = Removed
    BY <1>3, DisturbIs DEF Remove, Reconciling
  <2>2. claim' \in ClaimTypes
    BY <1>3 DEF Remove, Typed, ClaimTypes
  <2> QED
    BY <1>1, <1>2, <1>3, <2>1, <2>2 DEF Remove, Typed
<1>4. CASE DropCorpse
  BY <1>1, <1>4 DEF DropCorpse, Typed
<1>5. CASE Preempted
  BY <1>5, DisturbIs DEF Preempted, Typed
<1>6. CASE ReportError
  BY <1>6 DEF ReportError, Typed, Statuses
<1>7. CASE Cancel
  BY <1>7 DEF Cancel, Typed
<1>8. CASE Shutdown
  BY <1>1, <1>2, <1>8 DEF Shutdown, Typed
<1>9. CASE ShutdownReturns
  BY <1>9 DEF ShutdownReturns, Typed
<1>10. ASSUME NEW p \in Procs, Reap(p) PROVE Typed'
  BY <1>10 DEF Reap, Typed
<1>11. ASSUME NEW p \in Procs, Crash(p) PROVE Typed'
  <2>1. left' \in 0..Disturbances
    BY <1>11, DisturbIs DEF Crash
  <2> QED
    BY <1>11, <2>1 DEF Crash, Typed
<1> QED
  BY <1>3, <1>4, <1>5, <1>6, <1>7, <1>8, <1>9, <1>10, <1>11

LEMMA TypedConstruction ==
  ASSUME Typed, BuildInv, NEW o \in Owners,
         \/ \E q \in Procs : Spawn(o, q)
         \/ Unavailable(o) \/ ConstructionFails(o) \/ PublishSession(o) \/ Discard(o)
  PROVE  Typed'
<1>1. /\ Returned(o, TRUE) \in BuildTypes /\ Returned(o, FALSE) \in BuildTypes
      /\ <<>> \in Seq(Kinds) /\ Len(<<>>) <= EventCap
  BY ReturnedIs, EmptyIs
<1>2. builds[o] \in BuildTypes
  BY TypesAre
<1>3. ASSUME NEW q \in Procs, Spawn(o, q) PROVE Typed'
  <2>1. [builds[o] EXCEPT !.proc = q] \in BuildTypes
    BY <1>2 DEF BuildTypes
  <2> QED
    BY <1>3, <2>1, Rebuilt DEF Spawn, Typed
<1>4. CASE Unavailable(o)
  BY <1>1, <1>4, Rebuilt, DisturbIs DEF Unavailable, Typed, Statuses
<1>5. CASE ConstructionFails(o)
  BY <1>1, <1>5, Rebuilt, DisturbIs DEF ConstructionFails, Typed
<1>6. CASE PublishSession(o)
  <2>1. Session(builds[o].proc, builds[o].spec) \in SessionTypes
    BY <1>2, SessionIs DEF BuildTypes
  <2> QED
    BY <1>1, <1>6, <2>1, Rebuilt DEF PublishSession, Typed, Statuses
<1>7. CASE Discard(o)
  BY <1>1, <1>7, Rebuilt DEF Discard, Typed
<1> QED
  BY <1>3, <1>4, <1>5, <1>6, <1>7

LEMMA TypedOwner ==
  ASSUME Typed, BuildInv, SlotInv,
         FreshBegins \/ FreshEnds \/ \E p \in Procs : RestartBegins(p) \/ RestartEnds(p)
  PROVE  Typed'
<1>1. NoBuild \in BuildTypes /\ Fresh \in Owners /\ Procs \subseteq Owners
      /\ Build("parked", Removed) \in BuildTypes
  BY EmptyIs, TypesAre, BuildIs
<1>2. CASE FreshBegins
  <2>1. Build("building", claim.spec) \in BuildTypes
    BY TypesAre, BuildIs DEF ClaimTypes
  <2> QED
    BY <1>1, <1>2, <2>1, Rebuilt, EndClaimIs DEF FreshBegins, Typed
<1>3. CASE FreshEnds
  <2>1. builds[Fresh].step = "returned" => builds[Fresh].spec \in Specs
    BY <1>1 DEF BuildInv, BuildOK
  <2>2. ledger' \in Ledgers
    BY <1>3, <2>1, LedgerIs, TypesAre DEF FreshEnds
  <2> QED
    BY <1>1, <1>3, <2>2, Rebuilt, EndClaimIs DEF FreshEnds, Typed
<1>4. ASSUME NEW p \in Procs, RestartBegins(p) PROVE Typed'
  <2>1. Build("building", session.spec) \in BuildTypes
    BY BuildIs DEF Typed, SessionTypes
  <2>2. builds' \in [Owners -> BuildTypes]
    BY <1>1, <1>4, <2>1, Rebuilt DEF RestartBegins
  <2> QED
    BY <1>4, <2>2 DEF RestartBegins, Typed
<1>5. ASSUME NEW p \in Procs, RestartEnds(p) PROVE Typed'
  <2>1. session.proc = p => session.spec \in Specs
    BY SessionAssumption DEF SlotInv, Resident
  <2>2. ledger' \in Ledgers
    BY <1>5, <2>1, LedgerIs, TypesAre DEF RestartEnds
  <2>3. builds' \in [Owners -> BuildTypes]
    BY <1>1, <1>5, Rebuilt DEF RestartEnds, RestartAgain
  <2>4. GiveUp(p) \in SessionTypes
    BY DEF GiveUp, Typed, SessionTypes, Statuses
  <2>5. session' \in SessionTypes /\ status' \in Statuses
    BY <1>5, <2>4, TypesAre DEF RestartEnds, Statuses, Typed
  <2> QED
    BY <1>5, <2>2, <2>3, <2>5 DEF RestartEnds, Typed
<1> QED
  BY <1>2, <1>3, <1>4, <1>5

LEMMA WriteIs ==
  ASSUME NEW kind \in {"steer", "turn"}, NEW p \in Procs \cup {NoProc}, NEW x \in Inboxes
  PROVE  Write(kind, p, x) \in Writes
BY DEF Write, Writes

LEMMA JoinedIs ==
  ASSUME NEW old \in Inboxes, NEW items \in Inboxes
  PROVE  Joined(old, items) \in Inboxes
BY DEF Joined, Inboxes

LEMMA TypedNotify ==
  ASSUME Typed, NotifyBusy \/ NotifyStalled \/ NotifyIdle \/ (\E failed \in BOOLEAN : SteerEnds(failed))
  PROVE  Typed'
<1>1. /\ session \in SessionTypes /\ session.proc \in Procs \cup {NoProc}
      /\ inbox \in Inboxes /\ "for_me" \in Boxes /\ inbox["for_me"] \in Sigs \cup {NoSig}
      /\ session.steered \in Sigs \cup {NoSig}
  BY SessionAssumption DEF Typed, SessionTypes, Inboxes
<1>2. ASSUME NEW x \in Sigs \cup {NoSig}
      PROVE  /\ [session EXCEPT !.state = "working", !.steered = x] \in SessionTypes
             /\ [session EXCEPT !.steered = x] \in SessionTypes
  BY <1>1 DEF SessionTypes, Statuses
<1>3. CASE NotifyBusy
  <2>1. session' \in SessionTypes
    BY <1>1, <1>2, <1>3 DEF NotifyBusy, ForMe
  <2>2. SteerItems \in Inboxes
    BY <1>1 DEF SteerItems, ForMe, Inboxes
  <2>3. writing' \in Writes
    BY <1>1, <1>3, <2>2, WriteIs, TypesAre DEF NotifyBusy
  <2> QED
    BY <1>3, <2>1, <2>3 DEF NotifyBusy, Typed, Statuses
<1>4. CASE NotifyStalled
  <2>1. Corpse("disconnected", TRUE) \in SessionTypes
    BY CorpseIs
  <2>2. session.proc \in Owners
    BY <1>1, <1>4 DEF NotifyStalled, Notifying, Resident, Owners
  <2>3. builds' \in [Owners -> BuildTypes]
    BY <1>4, <2>2, Rebuilt, BuildIs DEF NotifyStalled
  <2> QED
    BY <1>4, <2>1, <2>3 DEF NotifyStalled, Typed, Statuses
<1>5. CASE NotifyIdle
  <2>1. session' \in SessionTypes
    BY <1>1, <1>5 DEF NotifyIdle, SessionTypes, Statuses
  <2>2. writing' \in Writes
    BY <1>1, <1>5, WriteIs DEF NotifyIdle
  <2> QED
    BY <1>5, <2>1, <2>2 DEF NotifyIdle, Typed
<1>6. ASSUME NEW failed \in BOOLEAN, SteerEnds(failed) PROVE Typed'
  <2>1. session' \in SessionTypes
    BY <1>1, <1>2, <1>6 DEF SteerEnds
  <2>2. left' \in 0..Disturbances /\ NoWrite \in Writes
    BY <1>6, DisturbIs, EmptyIs DEF SteerEnds
  <2> QED
    BY <1>6, <2>1, <2>2 DEF SteerEnds, Typed
<1> QED
  BY <1>3, <1>4, <1>5, <1>6

LEMMA TypedTurn ==
  ASSUME Typed, TakeTurn \/ StartTurnEnds \/ StartTurnFails
  PROVE  Typed'
<1>1. CASE TakeTurn
  <2>1. [writing EXCEPT !.taken = TRUE] \in Writes
    BY TypesAre DEF Writes
  <2>2. session \in SessionTypes /\ session.told \in Inboxes /\ writing.items \in Inboxes
    BY TypesAre DEF SessionTypes, Writes
  <2>3. \A x \in Inboxes : [session EXCEPT !.told = x, !.credited = FALSE] \in SessionTypes
    BY <2>2 DEF SessionTypes
  <2>4. session' \in SessionTypes
    BY <1>1, <2>2, <2>3, JoinedIs DEF TakeTurn
  <2> QED
    BY <1>1, <2>1, <2>4 DEF TakeTurn, Typed
<1>2. ASSUME NEW state \in {"working", "idle"}, NEW turn \in BOOLEAN, TurnAnswered(state, turn),
             left' \in 0..Disturbances
      PROVE  Typed'
  <2>1. /\ session \in SessionTypes /\ NoItems \in Inboxes /\ session.active \in Inboxes
        /\ NoWrite \in Writes
    BY EmptyIs DEF Typed, SessionTypes, NoItems, Inboxes
  <2>2. \A x \in Inboxes :
          [session EXCEPT !.state = state, !.turn = turn, !.active = x] \in SessionTypes
    BY <2>1 DEF SessionTypes, Statuses
  <2>3. session' \in SessionTypes
    BY <1>2, <2>1, <2>2 DEF TurnAnswered
  <2> QED
    BY <1>2, <2>1, <2>3 DEF TurnAnswered, Typed, Statuses
<1>3. CASE StartTurnEnds
  BY <1>2, <1>3, DisturbIs DEF StartTurnEnds
<1>4. CASE StartTurnFails
  BY <1>2, <1>4, DisturbIs DEF StartTurnFails
<1> QED
  BY <1>1, <1>3, <1>4

LEMMA TypedRuntime ==
  ASSUME Typed, \/ \E silent \in BOOLEAN : Heartbeat(silent)
                \/ \E kind \in Kinds : Emit(kind)
                \/ Frame \/ Hang \/ \E items \in Inboxes : ChangeInbox(items)
  PROVE  Typed'
<1>1. ASSUME NEW silent \in BOOLEAN, Heartbeat(silent) PROVE Typed'
  <2>1. session \in SessionTypes /\ session.state \in Statuses
    BY DEF Typed, SessionTypes
  <2>2. \A x \in Statuses : [session EXCEPT !.state = x] \in SessionTypes
    BY <2>1 DEF SessionTypes
  <2> DEFINE state == IF moved THEN "working" ELSE IF silent THEN "stalled" ELSE session.state
  <2>3. state \in Statuses
    BY <2>1 DEF Statuses
  <2>4. session' = [session EXCEPT !.state = state] /\ status' = state
    BY <1>1 DEF Heartbeat
  <2> HIDE DEF state
  <2>5. session' \in SessionTypes /\ status' \in Statuses
    BY <2>2, <2>3, <2>4
  <2> QED
    BY <1>1, <2>5 DEF Heartbeat, Typed
<1>2. ASSUME NEW kind \in Kinds, Emit(kind) PROVE Typed'
  <2>1. left' \in 0..Disturbances
    BY <1>2, DisturbIs DEF Emit
  <2>2. events' \in Seq(Kinds) /\ Len(events') <= EventCap
    BY <1>2, SessionAssumption DEF Emit, Typed
  <2>3. moved' \in BOOLEAN /\ turning' \in {"none", "running", "hung", "ended"}
    BY <1>2 DEF Emit, Watched
  <2> QED
    BY <1>2, <2>1, <2>2, <2>3 DEF Emit, Typed
<1>3. CASE Frame
  BY <1>3 DEF Frame, Typed
<1>4. CASE Hang
  <2>1. left' \in 0..Disturbances
    BY <1>4, DisturbIs DEF Hang
  <2> QED
    BY <1>4, <2>1 DEF Hang, Typed
<1>5. ASSUME NEW items \in Inboxes, ChangeInbox(items) PROVE Typed'
  <2>1. left' \in 0..Disturbances
    BY <1>5, DisturbIs DEF ChangeInbox
  <2> QED
    BY <1>5, <2>1 DEF ChangeInbox, Typed
<1> QED
  BY <1>1, <1>2, <1>3, <1>4, <1>5

LEMMA TypedEvent ==
  ASSUME Typed, SlotInv, ConsumeEvent \/ StreamEnds
  PROVE  Typed'
<1>1. /\ session \in SessionTypes /\ Fenced \in Writes /\ NoLedger \in Ledgers
      /\ ledger \in Ledgers
  BY TypesAre, FencedIs, EmptyIs
<1>2. CASE ConsumeEvent
  <2> DEFINE kind == Head(events)
  <2>1. events' \in Seq(Kinds) /\ Len(events') <= EventCap
    <3>1. events \in Seq(Kinds) /\ events # <<>> /\ events' = Tail(events)
      BY <1>2 DEF ConsumeEvent, Typed
    <3>2. Tail(events) \in Seq(Kinds) /\ Len(Tail(events)) = Len(events) - 1
      BY <3>1
    <3>3. Len(events) <= EventCap /\ Len(events) \in Nat
      BY <3>1 DEF Typed
    <3> QED
      BY <3>1, <3>2, <3>3, SessionAssumption
  <2>2. [Corpse("failed", FALSE) EXCEPT !.rejected = TRUE] \in SessionTypes
    <3>1. Corpse("failed", FALSE) \in SessionTypes
      BY CorpseIs
    <3> QED
      BY <3>1 DEF SessionTypes
  <2>3. ASSUME MarkWorking PROVE session' \in SessionTypes /\ status' \in Statuses
    BY <1>1, <2>3 DEF MarkWorking, SessionTypes, Statuses
  <2>4. ASSUME NEW x, MarkIdle(x) PROVE session' \in SessionTypes /\ status' \in Statuses
    <3>1. session.delivered \in Inboxes /\ session.active \in Inboxes
      BY <1>1 DEF SessionTypes
    <3>2. DeliveredBy(x) \in Inboxes /\ NoItems \in Inboxes
      BY <3>1, JoinedIs DEF DeliveredBy, Inboxes, NoItems
    <3>3. (session.credited \/ LateIdle(x)) \in BOOLEAN
      BY <1>1 DEF SessionTypes, LateIdle
    <3>4. \A d \in Inboxes, c \in BOOLEAN :
            [session EXCEPT !.state = "idle", !.turn = FALSE, !.active = NoItems,
               !.steered = NoSig, !.delivered = d, !.credited = c] \in SessionTypes
      BY <1>1, <3>2 DEF SessionTypes, Statuses
    <3> QED
      BY <2>4, <3>2, <3>3, <3>4 DEF MarkIdle, Statuses
  <2>5. session' \in SessionTypes /\ status' \in Statuses
    <3>1. CASE session.dead
      BY <1>1, <1>2, <3>1 DEF ConsumeEvent, Typed
    <3>2. CASE ~session.dead /\ kind = "started"
      BY <1>2, <2>3, <3>2 DEF ConsumeEvent, Rejects
    <3>3. CASE ~session.dead /\ kind # "started" /\ Rejects(kind)
      BY <1>2, <2>2, <3>3 DEF ConsumeEvent, Statuses
    <3>4. CASE ~session.dead /\ kind # "started" /\ ~Rejects(kind)
      BY <1>2, <2>4, <3>4 DEF ConsumeEvent
    <3> QED
      BY <3>1, <3>2, <3>3, <3>4
  <2>6. ledger' \in Ledgers /\ writing' \in Writes /\ moved' \in BOOLEAN /\ live' \subseteq Procs
    BY <1>1, <1>2 DEF ConsumeEvent, Typed
  <2> QED
    BY <1>2, <2>1, <2>5, <2>6 DEF ConsumeEvent, Typed
<1>3. CASE StreamEnds
  <2>1. session.proc \in Procs /\ session.spec \in Specs
    BY <1>1, <1>3 DEF StreamEnds, SlotInv, Resident, SessionTypes
  <2>2. CASE RestartsGeneration
    <3>1. [Corpse("disconnected", TRUE) EXCEPT !.reading = FALSE] \in SessionTypes
      <4>1. Corpse("disconnected", TRUE) \in SessionTypes
        BY CorpseIs
      <4> QED
        BY <4>1 DEF SessionTypes
    <3>2. ledger' \in Ledgers
      BY <2>1, <2>2, LedgerIs DEF RestartsGeneration
    <3>3. builds' \in [Owners -> BuildTypes]
      BY <2>1, <2>2, Rebuilt, BuildIs, TypesAre DEF RestartsGeneration, Owners
    <3>4. session' \in SessionTypes /\ status' \in Statuses
      BY <2>2, <3>1 DEF RestartsGeneration, Statuses
    <3> QED
      BY <1>1, <1>3, <3>2, <3>3, <3>4 DEF StreamEnds, Typed
  <2>3. CASE ClaimedGeneration
    <3>1. session' \in SessionTypes
      <4>1. \A x \in Statuses : [session EXCEPT !.reading = FALSE, !.rejected = FALSE, !.state = x]
                                  \in SessionTypes
        BY <1>1 DEF SessionTypes
      <4> QED
        BY <2>3, <4>1 DEF ClaimedGeneration, Statuses
    <3>2. status' \in Statuses
      BY <2>3 DEF ClaimedGeneration, Statuses, Typed
    <3>3. ledger' \in Ledgers /\ builds' \in [Owners -> BuildTypes]
      BY <1>1, <2>3, TypesAre DEF ClaimedGeneration
    <3> QED
      BY <1>1, <1>3, <3>1, <3>2, <3>3 DEF StreamEnds, Typed
  <2> QED
    BY <1>3, <2>2, <2>3 DEF StreamEnds
<1> QED
  BY <1>2, <1>3

LEMMA TypesKept == Typed /\ SlotInv /\ BuildInv /\ [Next]_vars => Typed'
<1>1. CASE UNCHANGED vars
  BY <1>1 DEF vars, Typed
<1> QED
  BY <1>1, TypedReconcile, TypedSlot, TypedConstruction, TypedOwner, TypedNotify, TypedTurn,
     TypedRuntime, TypedEvent DEF Next, Stopped

\* ----------------------------------------------------- steps that move nothing

Core == SlotInv /\ BuildInv /\ ClaimInv /\ EndInv /\ WriteInv /\ NoOrphan

Awake == {"idle", "working", "stalled"}

(* A step that moves no process and no specification; some may have stopped. *)
Soft ==
  /\ UNCHANGED <<desired, claim, builds, reaping, closing>>
  /\ live' \subseteq live
  /\ session' # session => Resident
  /\ session'.proc = session.proc /\ session'.spec = session.spec
  /\ session'.dead = session.dead /\ session'.parked = session.parked
  /\ session'.reading = session.reading /\ session'.rejected = session.rejected
  /\ session'.state = session.state \/ (~session.dead /\ session'.state \in Awake)
  /\ WriteInv'

LEMMA SoftStep ==
  ASSUME Typed, Core, Soft
  PROVE  Core'
<1>1. SlotInv'
  BY DEF Core, SlotInv, Soft, Resident, Busy, Awake
<1>2. BuildInv'
  <2>1. ASSUME NEW o \in Owners PROVE BuildOK(o)'
    BY DEF Core, BuildInv, BuildOK, Soft, Busy
  <2>2. OwnProcs' /\ \A p \in Procs : Replaces(p)'
    BY DEF Core, BuildInv, OwnProcs, Replaces, Soft
  <2> QED
    BY <2>1, <2>2 DEF BuildInv
<1>3. ClaimInv'
  BY DEF Core, ClaimInv, Soft, Claimed, Resident, Busy
<1>4. EndInv'
  BY DEF Core, EndInv, Soft, Claimed, Resident, Busy
<1>5. NoOrphan'
  <2>1. \A o \in Owners : builds'[o].proc = builds[o].proc
    BY DEF Soft
  <2> QED
    BY <2>1 DEF Core, NoOrphan, Soft
<1> QED
  BY <1>1, <1>2, <1>3, <1>4, <1>5 DEF Core, Soft

LEMMA SameSession ==
  ASSUME Core, session' = session, UNCHANGED <<desired, claim, builds, reaping, closing, writing>>,
         live' \subseteq live
  PROVE  Soft
BY DEF Soft, Core, WriteInv

LEMMA QuietSteps ==
  ASSUME Typed, Core,
         \/ Preempted \/ ReportError \/ TakeTurn \/ Frame \/ Hang
         \/ \E p \in Procs : Crash(p)
         \/ \E kind \in Kinds : Emit(kind)
         \/ \E items \in Inboxes : ChangeInbox(items)
         \/ UNCHANGED vars
  PROVE  Core'
<1>1. CASE Preempted
  BY <1>1, SameSession, SoftStep DEF Preempted
<1>2. CASE ReportError
  BY <1>2, SameSession, SoftStep DEF ReportError
<1>3. CASE TakeTurn
  <2>1. WriteInv'
    BY <1>3, TypesAre DEF TakeTurn, Core, WriteInv, Writes
  <2>2. Resident
    BY <1>3, SessionAssumption DEF TakeTurn, Typed, Resident
  <2>3. /\ session'.proc = session.proc /\ session'.spec = session.spec
        /\ session'.dead = session.dead /\ session'.parked = session.parked
        /\ session'.reading = session.reading /\ session'.rejected = session.rejected
        /\ session'.state = session.state
    BY <1>3, TypesAre DEF TakeTurn, SessionTypes
  <2> QED
    BY <1>3, <2>1, <2>2, <2>3, SoftStep DEF TakeTurn, Soft
<1>4. CASE Frame
  BY <1>4, SameSession, SoftStep DEF Frame
<1>5. CASE Hang
  BY <1>5, SameSession, SoftStep DEF Hang
<1>6. ASSUME NEW p \in Procs, Crash(p) PROVE Core'
  BY <1>6, SameSession, SoftStep DEF Crash
<1>7. ASSUME NEW kind \in Kinds, Emit(kind) PROVE Core'
  BY <1>7, SameSession, SoftStep DEF Emit
<1>8. ASSUME NEW items \in Inboxes, ChangeInbox(items) PROVE Core'
  BY <1>8, SameSession, SoftStep DEF ChangeInbox
<1>9. CASE UNCHANGED vars
  BY <1>9, SameSession, SoftStep DEF vars
<1> QED
  BY <1>1, <1>2, <1>3, <1>4, <1>5, <1>6, <1>7, <1>8, <1>9

LEMMA AliveIs ==
  ASSUME Typed, Core, ~session.dead
  PROVE  session.state \in Awake /\ ~session.parked /\ ~session.rejected
BY DEF Typed, SessionTypes, Statuses, Core, SlotInv, Awake

LEMMA WritesGoSomewhere ==
  ASSUME Typed, Core, writing.kind # "none"
  PROVE  writing.proc # NoProc
BY SessionAssumption DEF Core, WriteInv

LEMMA SoftSteps ==
  ASSUME Typed, Core,
         \/ NotifyBusy \/ NotifyIdle \/ StartTurnEnds \/ StartTurnFails
         \/ \E failed \in BOOLEAN : SteerEnds(failed)
         \/ \E silent \in BOOLEAN : Heartbeat(silent)
  PROVE  Core'
<1>1. /\ session \in SessionTypes /\ NoWrite.kind = "none"
      /\ Resident => session.proc \in Procs
  BY TypesAre DEF NoWrite, Write, Resident, SessionTypes
<1>2. CASE NotifyBusy
  <2>1. WriteInv'
    BY <1>1, <1>2 DEF NotifyBusy, Notifying, Write, Core, WriteInv
  <2> QED
    BY <1>1, <1>2, <2>1, SoftStep DEF NotifyBusy, Notifying, Soft, SessionTypes, Awake
<1>3. CASE NotifyIdle
  <2>1. WriteInv'
    BY <1>1, <1>3 DEF NotifyIdle, Notifying, Write, WriteInv
  <2> QED
    BY <1>1, <1>3, <2>1, SoftStep DEF NotifyIdle, Notifying, Soft, SessionTypes, Awake
<1>4. ASSUME NEW state \in Awake, NEW turn, TurnAnswered(state, turn), writing.kind = "turn"
      PROVE  Core'
  <2>1. WriteInv'
    BY <1>1, <1>4 DEF TurnAnswered, WriteInv
  <2>2. FenceHolds => Resident /\ ~session.dead
    BY <1>4, WritesGoSomewhere DEF FenceHolds, Resident
  <2> QED
    BY <1>1, <1>4, <2>1, <2>2, SoftStep DEF TurnAnswered, Soft, SessionTypes
<1>5. CASE StartTurnEnds
  BY <1>4, <1>5 DEF StartTurnEnds, Awake
<1>6. CASE StartTurnFails
  BY <1>4, <1>6 DEF StartTurnFails, Awake
<1>7. ASSUME NEW failed \in BOOLEAN, SteerEnds(failed) PROVE Core'
  <2>1. WriteInv'
    BY <1>1, <1>7 DEF SteerEnds, WriteInv
  <2>2. session.proc = writing.proc => Resident
    BY <1>7, WritesGoSomewhere DEF SteerEnds, Resident
  <2> QED
    BY <1>1, <1>7, <2>1, <2>2, SoftStep DEF SteerEnds, Soft, SessionTypes
<1>8. ASSUME NEW silent \in BOOLEAN, Heartbeat(silent) PROVE Core'
  <2>1. WriteInv' /\ Resident /\ ~session.dead
    BY <1>8 DEF Heartbeat, Core, WriteInv, Watched
  <2>2. session.state \in Awake
    BY <2>1, AliveIs
  <2>3. PICK x \in Awake : session' = [session EXCEPT !.state = x]
    BY <1>8, <2>2 DEF Heartbeat, Awake
  <2> QED
    BY <1>1, <1>8, <2>1, <2>3, SoftStep DEF Heartbeat, Soft, SessionTypes
<1> QED
  BY <1>2, <1>3, <1>5, <1>6, <1>7, <1>8

\* -------------------------------------------------------- an empty slot, a row

LEMMA Nothing ==
  /\ NoSession.proc = NoProc /\ ~NoSession.dead /\ ~NoSession.parked /\ ~NoSession.rejected
  /\ NoSession.state = "idle" /\ NoSession.spec = Removed
BY DEF NoSession, Session

LEMMA Vacated ==
  ASSUME session' = NoSession
  PROVE  SlotInv'
BY Nothing DEF SlotInv, Resident

(* Nothing is built by an owner that does nothing. *)
LEMMA Claiming ==
  ASSUME Typed, Core, NEW d \in Specs, Claims(d)
  PROVE  /\ claim'.spec = d
         /\ \A o \in Owners : /\ builds'[o].step = builds[o].step
                              /\ builds'[o].spec = builds[o].spec
                              /\ builds'[o].proc = builds[o].proc
                              /\ o # Fresh => builds'[o] = builds[o]
         /\ Claimed /\ claim.spec # d => ~builds'[Fresh].current
<1>1. claim'.spec = d
  BY TypesAre DEF Claims, Claim, ClaimTypes
<1>2. builds[Fresh] \in BuildTypes /\ Fresh \in Owners /\ builds \in [Owners -> BuildTypes]
  BY TypesAre
<1> QED
  BY <1>1, <1>2 DEF Claims, BuildTypes

LEMMA SlotSteps ==
  ASSUME Typed, Core, Remove \/ DropCorpse \/ Shutdown
  PROVE  Core'
<1>1. session' = NoSession /\ session'.proc = NoProc /\ ~Resident'
  BY Nothing DEF Remove, DropCorpse, Shutdown, Resident
<1>2. SlotInv'
  BY <1>1, Vacated
<1>3. builds' = builds /\ live' = live /\ writing' = writing
  BY DEF Remove, DropCorpse, Shutdown
<1>4. BuildInv'
  BY <1>1, <1>3, SessionAssumption DEF Core, BuildInv, BuildOK, Replaces, OwnProcs, Busy
<1>5. WriteInv'
  BY <1>3 DEF Core, WriteInv
<1>6. claim'.spec = claim.spec
  BY TypesAre DEF Remove, DropCorpse, Shutdown, ClaimTypes
<1>7. \A o \in Owners : builds'[o].proc = builds[o].proc
  BY <1>3
<1>8. CASE Remove
  <2>1. ClaimInv'
    <3>1. Claimed' => claim'.cancelled
      BY <1>6, <1>8, TypesAre DEF Remove, Claimed, ClaimTypes
    <3> QED
      BY <1>1, <1>3, <1>6, <3>1 DEF Core, ClaimInv, Claimed, Busy
  <2>2. EndInv'
    BY <1>8 DEF Remove, Reconciling, EndInv
  <2>3. NoOrphan'
    BY <1>3, <1>7, <1>8, SessionAssumption DEF Remove, Reconciling, Core, NoOrphan, Resident, Typed
  <2> QED
    BY <1>2, <1>4, <1>5, <2>1, <2>2, <2>3 DEF Core
<1>9. CASE DropCorpse
  <2>1. session.proc \notin live
    BY <1>9 DEF DropCorpse, GateClosed, Core, SlotInv
  <2>2. ClaimInv'
    BY <1>1, <1>3, <1>9 DEF DropCorpse, Core, ClaimInv, Claimed, Busy
  <2>3. EndInv'
    BY <1>9 DEF DropCorpse, EndInv
  <2>4. NoOrphan'
    BY <1>3, <1>7, <1>9, <2>1 DEF DropCorpse, Core, NoOrphan
  <2> QED
    BY <1>2, <1>4, <1>5, <2>2, <2>3, <2>4 DEF Core
<1>10. CASE Shutdown
  <2>1. ClaimInv'
    BY <1>1, <1>3, <1>10 DEF Shutdown, Core, ClaimInv, Claimed, Busy
  <2>2. EndInv'
    BY <1>1, <1>10 DEF Shutdown, EndInv
  <2>3. NoOrphan'
    BY <1>3, <1>7, <1>10, SessionAssumption DEF Shutdown, Core, NoOrphan, Resident, Typed
  <2> QED
    BY <1>2, <1>4, <1>5, <2>1, <2>2, <2>3 DEF Core
<1> QED
  BY <1>8, <1>9, <1>10

LEMMA EndSteps ==
  ASSUME Typed, Core, Cancel \/ ShutdownReturns \/ \E p \in Procs : Reap(p)
  PROVE  Core'
<1>1. /\ desired' = desired /\ session' = session /\ claim' = claim /\ builds' = builds
      /\ writing' = writing /\ live' \subseteq live /\ (closing' = "open" => closing = "open")
  BY DEF Cancel, ShutdownReturns, Reap
<1>2. SlotInv'
  BY <1>1 DEF Core, SlotInv, Resident, Busy
<1>3. BuildInv' /\ ClaimInv' /\ WriteInv'
  BY <1>1 DEF Core, BuildInv, BuildOK, Replaces, OwnProcs, ClaimInv, WriteInv, Resident, Claimed, Busy
<1>4. \A o \in Owners : builds'[o].proc = builds[o].proc
  BY <1>1
<1>5. CASE Cancel
  <2>1. EndInv' /\ NoOrphan'
    BY <1>4, <1>5 DEF Cancel, EndInv, Core, NoOrphan
  <2> QED
    BY <1>2, <1>3, <2>1 DEF Core
<1>6. CASE ShutdownReturns
  <2>1. EndInv'
    BY <1>6 DEF ShutdownReturns, EndInv, Core, Resident, Claimed, Busy
  <2>2. session.proc = NoProc /\ \A o \in Owners : builds[o].proc = NoProc
    BY <1>6 DEF ShutdownReturns, Core, EndInv, Resident, BuildInv, BuildOK, Busy
  <2>3. live = {}
    BY <1>6, <2>2, SessionAssumption DEF ShutdownReturns, Core, NoOrphan, Typed
  <2>4. NoOrphan'
    BY <1>6, <2>3 DEF ShutdownReturns, NoOrphan
  <2> QED
    BY <1>2, <1>3, <2>1, <2>4 DEF Core
<1>7. ASSUME NEW p \in Procs, Reap(p) PROVE Core'
  <2>1. EndInv'
    BY <1>7 DEF Reap, Core, EndInv, Resident, Claimed, Busy
  <2>2. NoOrphan'
    BY <1>4, <1>7 DEF Reap, Core, NoOrphan
  <2> QED
    BY <1>2, <1>3, <2>1, <2>2 DEF Core
<1> QED
  BY <1>5, <1>6, <1>7

LEMMA ReconcileSteps ==
  ASSUME Typed, Core, NEW d \in Specs, Reconcile(d) \/ EnsureRefused(d)
  PROVE  Core'
<1>1. /\ desired' = d /\ closing' = closing /\ closing \in {"open", "canceled"}
      /\ reaping' = reaping /\ live' = live /\ writing' = writing
  BY DEF Reconcile, EnsureRefused, Reconciling, EnsureLive, EnsureParked, ReplaceFailed, EnsureClaim,
         EnsureNew, EnsureBackoff, EnsureGivenUp
<1>2. WriteInv' /\ EndInv'
  BY <1>1 DEF Core, WriteInv, EndInv
<1>3. d # Removed
  BY SessionAssumption
<1>4. ASSUME \A o \in Owners : builds'[o].proc = builds[o].proc,
             session'.proc = session.proc \/ session.proc \notin live
      PROVE  NoOrphan'
  BY <1>1, <1>4 DEF Core, NoOrphan
<1>5. ASSUME EnsureLive(d) \/ EnsureParked(d)
      PROVE  /\ session'.spec = d /\ session'.proc = session.proc /\ session'.state = session.state
             /\ session'.dead = session.dead /\ session'.parked = session.parked
             /\ session'.reading = session.reading /\ session'.rejected = session.rejected
             /\ Resident /\ Resident' /\ claim' = claim
  BY <1>5, TypesAre DEF EnsureLive, EnsureParked, SessionTypes, Resident
<1>6. CASE EnsureLive(d)
  <2>1. builds' = builds /\ ~Busy(session.proc)
    <3>1. ~session.dead
      BY <1>6 DEF EnsureLive, GateClosed, Core, SlotInv
    <3> QED
      BY <1>6, <3>1, AliveIs DEF EnsureLive, Core, SlotInv
  <2>2. SlotInv'
    BY <1>1, <1>5, <1>6, <2>1 DEF Core, SlotInv, Busy, Resident
  <2>3. BuildInv'
    BY <1>1, <1>5, <1>6, <2>1 DEF Core, BuildInv, BuildOK, Replaces, OwnProcs, Busy
  <2>4. ClaimInv'
    BY <1>5, <1>6, <2>1 DEF Core, ClaimInv, Claimed, Busy
  <2> QED
    BY <1>2, <1>4, <1>5, <1>6, <2>1, <2>2, <2>3, <2>4 DEF Core
<1>7. CASE EnsureParked(d)
  <2>1. session.proc \in Procs /\ session.proc # Fresh /\ session.proc \in Owners
    BY <1>5, <1>7, TypesAre, SessionAssumption DEF Resident, SessionTypes
  <2>2. /\ \A o \in Owners : /\ builds'[o].step = builds[o].step
                             /\ builds'[o].spec = builds[o].spec
                             /\ builds'[o].proc = builds[o].proc
                             /\ o # session.proc => builds'[o] = builds[o]
        /\ session.spec # d => ~builds'[session.proc].current
        /\ session.spec = d => builds' = builds
    <3>1. builds[session.proc] \in BuildTypes /\ builds \in [Owners -> BuildTypes]
      BY <2>1, TypesAre
    <3> QED
      BY <1>7, <2>1, <3>1 DEF EnsureParked, RefreshDesiredSpec, BuildTypes
  <2>3. SlotInv'
    BY <1>1, <1>5, <1>7, <2>1, <2>2 DEF Core, SlotInv, Busy, Resident
  <2>4. BuildInv'
    <3>1. \A o \in Owners : Busy(o)' <=> Busy(o)
      BY <2>2 DEF Busy
    <3>2. ASSUME NEW o \in Owners
          PROVE  BuildOK(o)'
      <4>1. builds[o].proc # NoProc => builds[o].proc \in Owners
        BY TypesAre DEF BuildTypes
      <4> QED
        BY <1>5, <1>7, <2>2, <4>1 DEF Core, BuildInv, BuildOK, Busy
    <3>3. OwnProcs'
      BY <2>2 DEF Core, BuildInv, OwnProcs
    <3>4. ASSUME NEW p \in Procs PROVE Replaces(p)'
      BY <1>1, <1>5, <1>7, <2>1, <2>2, TypesAre DEF Core, BuildInv, Replaces
    <3> QED
      BY <3>2, <3>3, <3>4 DEF BuildInv
  <2>5. ClaimInv'
    BY <1>5, <1>7, <2>1, <2>2, TypesAre DEF Core, ClaimInv, Claimed, Busy
  <2> QED
    BY <1>2, <1>4, <1>5, <1>7, <2>2, <2>3, <2>4, <2>5 DEF Core
<1>8. ASSUME Claims(d), session'.proc = NoProc, SlotInv',
             session.proc = NoProc \/ session.proc \notin live
      PROVE  Core'
  <2>1. /\ claim'.spec = d
        /\ \A o \in Owners : /\ builds'[o].step = builds[o].step
                             /\ builds'[o].spec = builds[o].spec
                             /\ builds'[o].proc = builds[o].proc
                             /\ o # Fresh => builds'[o] = builds[o]
        /\ Claimed /\ claim.spec # d => ~builds'[Fresh].current
    BY <1>8, Claiming
  <2>2. BuildInv'
    <3>1. ASSUME NEW o \in Owners
          PROVE  BuildOK(o)'
      <4>1. builds[o].proc # NoProc => builds[o].proc \in Owners
        BY TypesAre DEF BuildTypes
      <4> QED
        BY <1>8, <2>1, <4>1 DEF Core, BuildInv, BuildOK, Busy
    <3>2. OwnProcs'
      BY <2>1 DEF Core, BuildInv, OwnProcs
    <3>3. ASSUME NEW p \in Procs PROVE Replaces(p)'
      BY <1>8, SessionAssumption DEF Replaces
    <3> QED
      BY <3>1, <3>2, <3>3 DEF BuildInv
  <2>3. ClaimInv'
    <3>1. Claimed' /\ ~Resident' /\ claim'.spec = desired' /\ Fresh \in Owners
      BY <1>1, <1>3, <1>8, <2>1, TypesAre DEF Claimed, Resident
    <3>2. builds'[Fresh].step = "building" /\ builds'[Fresh].current
            => builds'[Fresh].spec = claim'.spec
      <4>1. CASE Claimed
        <5>1. claim.spec = d => builds' = builds
          BY <1>8, <4>1 DEF Claims
        <5> QED
          BY <2>1, <4>1, <5>1, TypesAre DEF Core, ClaimInv
      <4>2. CASE ~Claimed
        BY <2>1, <3>1, <4>2 DEF Core, ClaimInv, Busy
      <4> QED
        BY <4>1, <4>2
    <3> QED
      BY <3>1, <3>2 DEF ClaimInv
  <2>4. NoOrphan'
    BY <1>4, <1>8, <2>1
  <2> QED
    BY <1>2, <1>8, <2>2, <2>3, <2>4 DEF Core
<1>9. CASE ReplaceFailed(d)
  <2>1. session' = NoSession /\ session.proc \notin live /\ Claims(d)
    BY <1>9 DEF ReplaceFailed, Core, SlotInv
  <2> QED
    BY <1>8, <2>1, Nothing, Vacated
<1>10. ASSUME session' = session, ~Resident PROVE SlotInv' /\ session'.proc = NoProc
  <2>1. session' = NoSession
    BY <1>10 DEF Core, SlotInv
  <2> QED
    BY <2>1, Nothing, Vacated
<1>11. CASE EnsureClaim(d) \/ EnsureNew(d)
  BY <1>8, <1>10, <1>11 DEF EnsureClaim, EnsureNew, Resident
<1>12. CASE EnsureBackoff(d) \/ EnsureGivenUp(d) \/ EnsureRefused(d)
  <2>1. /\ session' = session /\ claim' = claim /\ builds' = builds /\ ~Resident /\ ~Claimed
    BY <1>12 DEF EnsureBackoff, EnsureGivenUp, EnsureRefused
  <2>2. SlotInv'
    BY <1>10, <2>1
  <2>3. BuildInv' /\ ClaimInv'
    BY <1>1, <2>1 DEF Core, BuildInv, BuildOK, Replaces, OwnProcs, ClaimInv, Claimed, Resident, Busy
  <2> QED
    BY <1>2, <1>4, <2>1, <2>2, <2>3 DEF Core
<1> QED
  BY <1>6, <1>7, <1>9, <1>11, <1>12 DEF Reconcile

\* ------------------------------------------------------------- constructions

LEMMA ReturnedHas ==
  ASSUME Typed, NEW o \in Owners, NEW err
  PROVE  /\ Returned(o, err).step = "returned" /\ Returned(o, err).proc = NoProc
         /\ Returned(o, err).spec = builds[o].spec /\ Returned(o, err).current = builds[o].current
<1>1. builds[o] \in BuildTypes
  BY TypesAre
<1> QED
  BY <1>1 DEF Returned, BuildTypes

LEMMA ProcsOfBuilds ==
  ASSUME Typed, NEW o \in Owners
  PROVE  builds[o].proc # NoProc => builds[o].proc \in Procs /\ builds[o].proc \in Owners
BY TypesAre DEF BuildTypes

(* A construction that returns without a session leaves no process. *)
LEMMA ComesBack ==
  ASSUME Typed, Core, NEW o \in Owners, NEW err, builds[o].step = "building",
         builds' = [builds EXCEPT ![o] = Returned(o, err)],
         live' \subseteq live, builds[o].proc \notin live',
         UNCHANGED <<desired, session, claim, reaping, writing, closing>>
  PROVE  Core'
<1>1. /\ builds'[o].step = "returned" /\ builds'[o].proc = NoProc
      /\ builds'[o].spec = builds[o].spec /\ builds'[o].current = builds[o].current
      /\ \A w \in Owners : w # o => builds'[w] = builds[w]
  BY TypesAre, ReturnedHas
<1>2. \A w \in Owners : Busy(w)' <=> Busy(w)
  BY <1>1 DEF Busy
<1>3. Resident => session.proc \in Owners
  BY TypesAre DEF Resident, SessionTypes
<1>4. SlotInv'
  BY <1>1, <1>3 DEF Core, SlotInv, Resident, Busy
<1>5. BuildInv'
  <2>1. ASSUME NEW w \in Owners PROVE BuildOK(w)'
    BY <1>1, ProcsOfBuilds DEF Core, BuildInv, BuildOK, Busy
  <2>2. OwnProcs'
    BY <1>1 DEF Core, BuildInv, OwnProcs
  <2>3. ASSUME NEW p \in Procs PROVE Replaces(p)'
    BY <1>1, TypesAre DEF Core, BuildInv, Replaces
  <2> QED
    BY <2>1, <2>2, <2>3 DEF BuildInv
<1>6. ClaimInv'
  BY <1>1, TypesAre DEF Core, ClaimInv, Claimed, Resident, Busy
<1>7. EndInv'
  BY <1>2 DEF Core, EndInv, Claimed, Resident, Busy
<1>8. NoOrphan'
  <2>1. \A w \in Owners : builds'[w].proc = builds[w].proc \/ builds[w].proc \notin live'
    BY <1>1
  <2> QED
    BY <2>1 DEF Core, NoOrphan
<1> QED
  BY <1>4, <1>5, <1>6, <1>7, <1>8 DEF Core, WriteInv

LEMMA SpawnStep ==
  ASSUME Typed, Core, NEW o \in Owners, NEW q \in Procs, Spawn(o, q)
  PROVE  Core'
<1>1. /\ builds'[o].step = "building" /\ builds'[o].proc = q
      /\ builds'[o].spec = builds[o].spec /\ builds'[o].current = builds[o].current
      /\ \A w \in Owners : w # o => builds'[w] = builds[w]
  <2>1. builds[o] \in BuildTypes
    BY TypesAre
  <2> QED
    BY <2>1, TypesAre DEF Spawn, BuildTypes
<1>2. /\ builds[o].step = "building" /\ builds[o].proc = NoProc /\ q # session.proc
      /\ ~Busy(q) /\ \A w \in Owners : builds[w].proc # q
      /\ live' = live \cup {q}
      /\ UNCHANGED <<desired, session, claim, reaping, writing, closing>>
  BY DEF Spawn, Unused
<1>3. \A w \in Owners : Busy(w)' <=> Busy(w)
  BY <1>1, <1>2 DEF Busy
<1>4. Resident => session.proc \in Owners
  BY TypesAre DEF Resident, SessionTypes
<1>5. SlotInv'
  <2>1. session.proc \in live' <=> session.proc \in live
    BY <1>2
  <2>2. Resident => builds'[session.proc].step = builds[session.proc].step
    BY <1>1, <1>2, <1>4
  <2>3. session.parked => Resident
    BY Nothing DEF Core, SlotInv
  <2> QED
    BY <1>2, <2>1, <2>2, <2>3 DEF Core, SlotInv, Resident, Busy
<1>6. BuildInv'
  <2>1. ASSUME NEW w \in Owners PROVE BuildOK(w)'
    BY <1>1, <1>2, ProcsOfBuilds, TypesAre DEF Core, BuildInv, BuildOK, Busy
  <2>2. OwnProcs'
    BY <1>1, <1>2 DEF Core, BuildInv, OwnProcs
  <2>3. ASSUME NEW p \in Procs PROVE Replaces(p)'
    BY <1>1, <1>2, TypesAre DEF Core, BuildInv, Replaces
  <2> QED
    BY <2>1, <2>2, <2>3 DEF BuildInv
<1>7. ClaimInv'
  BY <1>1, <1>2, TypesAre DEF Core, ClaimInv, Claimed, Resident, Busy
<1>8. EndInv' /\ closing # "closed"
  BY <1>2 DEF Core, EndInv, Claimed, Resident, Busy
<1>9. NoOrphan'
  <2>1. q \in {builds'[w].proc : w \in Owners}
    BY <1>1
  <2>2. ASSUME NEW p \in live
        PROVE  p = session'.proc \/ p \in reaping' \/ \E w \in Owners : p = builds'[w].proc
    <3>1. p # NoProc
      BY SessionAssumption DEF Typed
    <3> QED
      BY <1>1, <1>2, <3>1 DEF Core, NoOrphan
  <2> QED
    BY <1>2, <1>8, <2>1, <2>2 DEF NoOrphan
<1> QED
  BY <1>2, <1>5, <1>6, <1>7, <1>8, <1>9 DEF Core, WriteInv

(* What is admitted was built from what is desired. *)
LEMMA AdmittedSpec ==
  ASSUME Typed, Core, NEW o \in Owners, PublishSession(o)
  PROVE  builds[o].spec = desired /\ desired \in Specs
<1>1. CASE o = Fresh
  BY <1>1, TypesAre DEF PublishSession, Admitted, Core, ClaimInv, Busy, BuildInv, BuildOK
<1>2. CASE o # Fresh
  <2>1. o \in Procs /\ session.proc = o /\ Resident
    BY <1>2, SessionAssumption DEF PublishSession, Admitted, Owners, Resident
  <2> QED
    BY <2>1 DEF PublishSession, Admitted, Core, SlotInv, BuildInv, Replaces
<1> QED
  BY <1>1, <1>2

LEMMA PublishStep ==
  ASSUME Typed, Core, NEW o \in Owners, PublishSession(o)
  PROVE  Core'
<1>1. PICK q : q = builds[o].proc
  OBVIOUS
<1>2. /\ q \in Procs /\ q \in Owners /\ q # NoProc /\ q # o /\ ~Busy(q) /\ q # session.proc
      /\ builds[o].step = "building" /\ builds[o].current /\ closing = "open"
      /\ UNCHANGED <<desired, claim, live, reaping, writing, closing>>
  BY <1>1, ProcsOfBuilds DEF PublishSession, Admitted, Core, BuildInv, BuildOK, Busy
<1>3. /\ builds'[o].step = "returned" /\ builds'[o].proc = NoProc
      /\ builds'[o].spec = builds[o].spec /\ builds'[o].current
      /\ \A w \in Owners : w # o => builds'[w] = builds[w]
  BY <1>2, TypesAre, ReturnedHas DEF PublishSession
<1>4. /\ session'.proc = q /\ session'.spec = desired /\ desired \in Specs
      /\ ~session'.dead /\ ~session'.parked /\ ~session'.rejected /\ session'.state = "idle"
  BY <1>1, AdmittedSpec DEF PublishSession, Session
<1>5. \A w \in Owners : Busy(w)' <=> Busy(w)
  BY <1>2, <1>3 DEF Busy
<1>6. SlotInv'
  BY <1>2, <1>4, <1>5 DEF SlotInv, Resident
<1>7. session.proc \notin live
  <2>1. CASE o = Fresh
    BY <2>1, SessionAssumption DEF PublishSession, Admitted, Typed
  <2>2. CASE o # Fresh
    BY <1>2, <2>2 DEF PublishSession, Admitted, Owners, Core, BuildInv, Replaces
  <2> QED
    BY <2>1, <2>2
<1>8. BuildInv'
  <2>1. ASSUME NEW w \in Owners PROVE BuildOK(w)'
    <3>1. w # o => builds[w].proc # q
      BY <1>1, <1>2 DEF Core, BuildInv, OwnProcs
    <3> QED
      BY <1>2, <1>3, <1>4, <3>1, ProcsOfBuilds DEF Core, BuildInv, BuildOK, Busy
  <2>2. OwnProcs'
    BY <1>3 DEF Core, BuildInv, OwnProcs
  <2>3. ASSUME NEW p \in Procs PROVE Replaces(p)'
    BY <1>2, <1>4, <1>5 DEF Replaces, Busy
  <2> QED
    BY <2>1, <2>2, <2>3 DEF BuildInv
<1>9. ClaimInv'
  <2>1. CASE o = Fresh
    BY <1>2, <1>3, <2>1, TypesAre DEF Core, ClaimInv, Claimed, Busy
  <2>2. CASE o # Fresh
    <3>1. Resident /\ builds'[Fresh] = builds[Fresh]
      BY <1>3, <2>2, SessionAssumption, TypesAre DEF PublishSession, Admitted, Owners, Resident
    <3> QED
      BY <1>2, <3>1 DEF Core, ClaimInv, Claimed, Busy
  <2> QED
    BY <2>1, <2>2
<1>10. EndInv'
  BY <1>2 DEF EndInv
<1>11. NoOrphan'
  <2>1. \A w \in Owners : builds'[w].proc = builds[w].proc \/ builds[w].proc = session'.proc
    BY <1>1, <1>3, <1>4
  <2> QED
    BY <1>2, <1>7, <2>1 DEF Core, NoOrphan
<1> QED
  BY <1>2, <1>6, <1>8, <1>9, <1>10, <1>11 DEF Core, WriteInv

LEMMA ConstructionSteps ==
  ASSUME Typed, Core, NEW o \in Owners,
         \/ \E q \in Procs : Spawn(o, q)
         \/ Unavailable(o) \/ ConstructionFails(o) \/ PublishSession(o) \/ Discard(o)
  PROVE  Core'
<1>1. CASE Unavailable(o)
  <2>1. NoProc \notin live
    BY SessionAssumption DEF Typed
  <2> QED
    BY <1>1, <2>1, ComesBack DEF Unavailable
<1>2. CASE ConstructionFails(o)
  BY <1>2, ComesBack DEF ConstructionFails
<1>3. CASE Discard(o)
  BY <1>3, ComesBack DEF Discard
<1> QED
  BY <1>1, <1>2, <1>3, SpawnStep, PublishStep

\* ------------------------------------------------------------------ owners

LEMMA EndClaimStep ==
  ASSUME Typed, Core, NEW err, EndClaim(err),
         UNCHANGED <<desired, session, live, reaping, writing, closing>>,
         builds[Fresh].proc = NoProc
  PROVE  Core'
<1>1. /\ builds'[Fresh].step = "none" /\ builds'[Fresh].proc = NoProc /\ ~Claimed'
      /\ \A w \in Owners : w # Fresh => builds'[w] = builds[w]
  <2>1. NoBuild.step = "none" /\ NoBuild.proc = NoProc /\ NoClaim.spec = Removed
    BY DEF NoBuild, Build, NoClaim, Claim
  <2> QED
    BY <2>1, TypesAre DEF EndClaim, Claimed
<1>2. Resident => session.proc \in Owners /\ session.proc # Fresh
  BY TypesAre, SessionAssumption DEF Resident, SessionTypes
<1>3. session.parked => Resident
  BY Nothing DEF Core, SlotInv
<1>4. SlotInv'
  BY <1>1, <1>2, <1>3 DEF Core, SlotInv, Resident, Busy
<1>5. BuildInv'
  <2>1. ASSUME NEW w \in Owners PROVE BuildOK(w)'
    BY <1>1, ProcsOfBuilds DEF Core, BuildInv, BuildOK, Busy
  <2>2. OwnProcs'
    BY <1>1 DEF Core, BuildInv, OwnProcs
  <2>3. ASSUME NEW p \in Procs PROVE Replaces(p)'
    BY <1>1, TypesAre, SessionAssumption DEF Core, BuildInv, Replaces
  <2> QED
    BY <2>1, <2>2, <2>3 DEF BuildInv
<1>6. ClaimInv'
  BY <1>1 DEF ClaimInv, Busy
<1>7. EndInv'
  BY <1>1 DEF Core, EndInv, Claimed, Resident, Busy
<1>8. NoOrphan'
  <2>1. \A w \in Owners : builds'[w].proc = builds[w].proc
    BY <1>1
  <2> QED
    BY <2>1 DEF Core, NoOrphan
<1> QED
  BY <1>4, <1>5, <1>6, <1>7, <1>8 DEF Core, WriteInv

(* The construction of the claim is started, or is to be started again. *)
LEMMA FreshStep ==
  ASSUME Typed, Core, NEW b, builds' = [builds EXCEPT ![Fresh] = b],
         UNCHANGED <<desired, session, claim, live, reaping, writing, closing>>,
         builds[Fresh].proc = NoProc, b.proc = NoProc, Claimed, ~Resident,
         b.step \in {"none", "building"}, ~claim.cancelled, claim.spec = desired,
         b.step = "building" => b.spec = claim.spec /\ b.spec \in Specs
  PROVE  Core'
<1>1. builds'[Fresh] = b /\ \A w \in Owners : w # Fresh => builds'[w] = builds[w]
  BY TypesAre
<1>2. session = NoSession
  BY DEF Core, SlotInv
<1>3. SlotInv'
  BY <1>2, Vacated
<1>4. BuildInv'
  <2>1. ASSUME NEW w \in Owners PROVE BuildOK(w)'
    <3>1. builds[w].proc # NoProc => builds[w].proc \in Owners /\ builds[w].proc # Fresh
      BY ProcsOfBuilds, SessionAssumption
    <3> QED
      BY <1>1, <3>1 DEF Core, BuildInv, BuildOK, Busy
  <2>2. OwnProcs'
    BY <1>1 DEF Core, BuildInv, OwnProcs
  <2>3. ASSUME NEW p \in Procs PROVE Replaces(p)'
    BY <1>1, TypesAre, SessionAssumption DEF Core, BuildInv, Replaces
  <2> QED
    BY <2>1, <2>2, <2>3 DEF BuildInv
<1>5. ClaimInv'
  BY <1>1 DEF ClaimInv, Claimed, Resident, Busy
<1>6. EndInv'
  BY DEF Core, EndInv, Claimed, Resident
<1>7. NoOrphan'
  <2>1. \A w \in Owners : builds'[w].proc = builds[w].proc
    BY <1>1
  <2> QED
    BY <2>1 DEF Core, NoOrphan
<1> QED
  BY <1>3, <1>4, <1>5, <1>6, <1>7 DEF Core, WriteInv

LEMMA FreshSteps ==
  ASSUME Typed, Core, FreshBegins \/ FreshEnds
  PROVE  Core'
<1>1. CASE FreshBegins
  <2>1. builds[Fresh].proc = NoProc /\ builds[Fresh].step = "none" /\ ~Resident
    BY <1>1, TypesAre DEF FreshBegins, Busy, Core, BuildInv, BuildOK, ClaimInv
  <2>2. CASE closing # "open" \/ claim.cancelled
    BY <1>1, <2>1, <2>2, EndClaimStep DEF FreshBegins
  <2>3. CASE closing = "open" /\ ~claim.cancelled
    <3>1. claim.spec \in Specs /\ claim.spec = desired
      BY <1>1, <2>1, <2>3, TypesAre DEF FreshBegins, Claimed, ClaimTypes, Core, ClaimInv
    <3>2. PICK b : b = Build("building", claim.spec)
      OBVIOUS
    <3>3. b.step = "building" /\ b.proc = NoProc /\ b.spec = claim.spec
      BY <3>2 DEF Build
    <3>4. /\ builds' = [builds EXCEPT ![Fresh] = b] /\ Claimed
          /\ UNCHANGED <<desired, session, claim, live, reaping, writing, closing>>
      BY <1>1, <2>3, <3>2 DEF FreshBegins
    <3> QED
      BY <2>1, <2>3, <3>1, <3>3, <3>4, FreshStep
  <2> QED
    BY <2>2, <2>3
<1>2. CASE FreshEnds
  <2>1. builds[Fresh].proc = NoProc /\ builds[Fresh].step = "returned" /\ Claimed
    BY <1>2, TypesAre DEF FreshEnds, Core, BuildInv, BuildOK, ClaimInv, Busy
  <2> DEFINE over == Resident \/ closing # "open" \/ claim.cancelled
  <2>2. CASE ~over /\ ~builds[Fresh].current
    <3>1. claim.spec = desired
      BY <2>1, <2>2 DEF Core, ClaimInv
    <3>2. PICK b : b = NoBuild
      OBVIOUS
    <3>3. b.step = "none" /\ b.proc = NoProc
      BY <3>2 DEF NoBuild, Build
    <3>4. /\ builds' = [builds EXCEPT ![Fresh] = b]
          /\ UNCHANGED <<desired, session, claim, live, reaping, writing, closing>>
      BY <1>2, <2>2, <3>2 DEF FreshEnds
    <3> QED
      BY <2>1, <2>2, <3>1, <3>3, <3>4, FreshStep
  <2>3. CASE ~(~over /\ ~builds[Fresh].current)
    BY <1>2, <2>1, <2>3, EndClaimStep DEF FreshEnds
  <2> QED
    BY <2>2, <2>3
<1> QED
  BY <1>1, <1>2

(* The owner of a generation moves on. *)
LEMMA OwnerStep ==
  ASSUME Typed, Core, NEW p \in Procs, NEW b, builds' = [builds EXCEPT ![p] = b],
         Busy(p), builds[p].proc = NoProc, b.proc = NoProc, b.step # "returned",
         UNCHANGED <<desired, claim, reaping, writing, closing>>, live' \subseteq live,
         session'.proc = session.proc, session'.spec = session.spec, SlotInv',
         b.step = "building" => b.spec \in Specs /\ b.spec = session.spec /\ p \notin live'
  PROVE  Core'
<1>1. p \in Owners /\ p # Fresh /\ Fresh \in Owners
  BY TypesAre, SessionAssumption
<1>2. builds'[p] = b /\ \A w \in Owners : w # p => builds'[w] = builds[w]
  BY <1>1, TypesAre
<1>3. BuildInv'
  <2>1. ASSUME NEW w \in Owners PROVE BuildOK(w)'
    <3>1. builds[w].proc # NoProc => builds[w].proc \in Owners /\ builds[w].proc # p
      BY ProcsOfBuilds DEF Core, BuildInv, BuildOK
    <3> QED
      BY <1>2, <3>1 DEF Core, BuildInv, BuildOK, Busy
  <2>2. OwnProcs'
    BY <1>2 DEF Core, BuildInv, OwnProcs
  <2>3. ASSUME NEW q \in Procs PROVE Replaces(q)'
    BY <1>2, TypesAre DEF Core, BuildInv, Replaces
  <2> QED
    BY <2>1, <2>2, <2>3 DEF BuildInv
<1>4. ClaimInv'
  BY <1>1, <1>2 DEF Core, ClaimInv, Claimed, Resident, Busy
<1>5. closing # "closed"
  BY <1>1 DEF Core, EndInv
<1>6. EndInv'
  BY <1>5 DEF Core, EndInv, Resident
<1>7. NoOrphan'
  <2>1. \A w \in Owners : builds'[w].proc = builds[w].proc
    BY <1>2
  <2> QED
    BY <1>5, <2>1 DEF Core, NoOrphan
<1> QED
  BY <1>3, <1>4, <1>6, <1>7 DEF Core, WriteInv

LEMMA RestartBeginsStep ==
  ASSUME Typed, Core, NEW p \in Procs, RestartBegins(p)
  PROVE  Core'
<1> DEFINE mine == closing = "open" /\ session.proc = p /\ session.parked
<1>1. PICK b : b = IF mine THEN Build("building", session.spec) ELSE NoBuild
  OBVIOUS
<1>2. /\ b.proc = NoProc /\ b.step # "returned" /\ (mine <=> b.step = "building")
      /\ mine => b.spec = session.spec
  BY <1>1 DEF NoBuild, Build
<1>3. /\ builds' = [builds EXCEPT ![p] = b] /\ session' = session
      /\ UNCHANGED <<desired, claim, reaping, writing, closing>>
      /\ live' \subseteq live /\ (mine => p \notin live')
  BY <1>1 DEF RestartBegins
<1>4. p \in Owners /\ p # NoProc /\ Busy(p) /\ builds[p].proc = NoProc
  BY TypesAre, SessionAssumption DEF RestartBegins, Busy, Core, BuildInv, BuildOK
<1>5. builds'[p] = b /\ \A w \in Owners : w # p => builds'[w] = builds[w]
  BY <1>3, <1>4, TypesAre
<1>6. Resident => session.proc \in Owners
  BY TypesAre DEF Resident, SessionTypes
<1>7. session.parked => Resident
  BY Nothing DEF Core, SlotInv
<1>8. SlotInv'
  BY <1>2, <1>3, <1>4, <1>5, <1>6, <1>7 DEF Core, SlotInv, Resident, Busy
<1>9. mine => session.spec \in Specs
  BY <1>4 DEF Core, SlotInv, Resident
<1>10. b.step = "building" => b.spec \in Specs /\ b.spec = session.spec /\ p \notin live'
  BY <1>2, <1>3, <1>9
<1>11. /\ b.proc = NoProc /\ b.step # "returned" /\ builds' = [builds EXCEPT ![p] = b]
       /\ UNCHANGED <<desired, claim, reaping, writing, closing>> /\ live' \subseteq live
       /\ session'.proc = session.proc /\ session'.spec = session.spec
       /\ Busy(p) /\ builds[p].proc = NoProc
  BY <1>2, <1>3, <1>4
<1> QED
  BY <1>8, <1>10, <1>11, OwnerStep

LEMMA RestartEndsStep ==
  ASSUME Typed, Core, NEW p \in Procs, RestartEnds(p)
  PROVE  Core'
<1> DEFINE mine == session.proc = p /\ closing = "open" /\ session.parked
<1>1. p \in Owners /\ p # NoProc /\ Busy(p) /\ builds[p].proc = NoProc /\ builds[p].step = "returned"
  BY TypesAre, SessionAssumption DEF RestartEnds, Busy, Core, BuildInv, BuildOK
<1>2. PICK again \in BOOLEAN :
        /\ builds' = [builds EXCEPT ![p] = IF again THEN Build("parked", Removed) ELSE NoBuild]
        /\ again => mine
        /\ session' = IF mine /\ ~again THEN GiveUp(p) ELSE session
        /\ UNCHANGED <<desired, claim, live, reaping, writing, closing>>
  BY DEF RestartEnds, RestartAgain
<1>3. PICK b : b = IF again THEN Build("parked", Removed) ELSE NoBuild
  OBVIOUS
<1>4. /\ b.proc = NoProc /\ b.step \notin {"returned", "building"}
      /\ again <=> b.step # "none"
  BY <1>3 DEF NoBuild, Build
<1>5. builds'[p] = b /\ \A w \in Owners : w # p => builds'[w] = builds[w]
  BY <1>1, <1>2, <1>3, TypesAre
<1>6. Resident => session.proc \in Owners
  BY TypesAre DEF Resident, SessionTypes
<1>7. session.parked => Resident
  BY Nothing DEF Core, SlotInv
<1>8. CASE session' = session /\ (mine => again)
  <2>1. SlotInv'
    BY <1>1, <1>2, <1>4, <1>5, <1>6, <1>7, <1>8 DEF Core, SlotInv, Resident, Busy
  <2> QED
    BY <1>1, <1>2, <1>3, <1>4, <1>8, <2>1, OwnerStep
<1>9. CASE mine /\ ~again
  <2>1. /\ session'.proc = session.proc /\ session'.spec = session.spec /\ session'.dead = session.dead
        /\ ~session'.parked /\ session'.state = "failed" /\ session'.rejected = session.rejected
    BY <1>2, <1>9, TypesAre DEF GiveUp, SessionTypes
  <2>2. p \notin live /\ session.dead /\ Resident
    BY <1>1, <1>7, <1>9 DEF Core, SlotInv, BuildInv, Replaces
  <2>3. SlotInv'
    BY <1>1, <1>2, <1>4, <1>5, <1>9, <2>1, <2>2 DEF Core, SlotInv, Resident, Busy
  <2> QED
    BY <1>1, <1>2, <1>3, <1>4, <2>1, <2>3, OwnerStep
<1> QED
  BY <1>2, <1>8, <1>9
\* ------------------------------------------------------- the end of a generation

LEMMA FencedGoesOn ==
  ASSUME Typed, Core, writing' = Fenced
  PROVE  WriteInv'
BY TypesAre DEF Core, WriteInv, Fenced, Writes

(* A generation that nobody owned is given to a restarter. *)
LEMMA ParkStep ==
  ASSUME Typed, Core, Resident, ~session.parked,
         session'.proc = session.proc, session'.spec = session.spec, session'.dead,
         session'.parked, ~session'.rejected, session'.state = "disconnected",
         \/ builds' = [builds EXCEPT ![session.proc] = Build("parked", Removed)]
         \/ builds' = builds /\ closing # "open",
         UNCHANGED <<desired, claim, live, reaping, closing>>, WriteInv'
  PROVE  Core'
<1>1. PICK p : p = session.proc
  OBVIOUS
<1>2. p \in Procs /\ p \in Owners /\ p # Fresh /\ p # NoProc /\ ~Busy(p)
  BY <1>1, TypesAre, SessionAssumption DEF Resident, SessionTypes, Core, SlotInv
<1>3. /\ \A w \in Owners : w # p => builds'[w] = builds[w]
      /\ builds'[p].step \in {"none", "parked"} /\ builds'[p].proc = NoProc
      /\ closing = "open" => builds'[p].step = "parked"
      /\ builds[p].proc = NoProc
  <2>1. Build("parked", Removed).step = "parked" /\ Build("parked", Removed).proc = NoProc
    BY DEF Build
  <2>2. builds[p].step = "none" /\ builds[p].proc = NoProc
    BY <1>2 DEF Busy, Core, BuildInv, BuildOK
  <2> QED
    BY <1>1, <1>2, <2>1, <2>2, TypesAre
<1>4. SlotInv'
  BY <1>1, <1>2, <1>3 DEF Core, SlotInv, Resident, Busy
<1>5. BuildInv'
  <2>1. ASSUME NEW w \in Owners PROVE BuildOK(w)'
    <3>1. builds[w].proc # NoProc => builds[w].proc \in Owners /\ builds[w].proc # p
      BY <1>1, ProcsOfBuilds DEF Core, BuildInv, BuildOK
    <3> QED
      BY <1>3, <3>1 DEF Core, BuildInv, BuildOK, Busy
  <2>2. OwnProcs'
    BY <1>3 DEF Core, BuildInv, OwnProcs
  <2>3. ASSUME NEW q \in Procs PROVE Replaces(q)'
    BY <1>1, <1>3 DEF Replaces
  <2> QED
    BY <2>1, <2>2, <2>3 DEF BuildInv
<1>6. ClaimInv'
  <2>1. builds'[Fresh] = builds[Fresh]
    BY <1>2, <1>3, TypesAre
  <2> QED
    BY <2>1 DEF Core, ClaimInv, Claimed, Resident, Busy
<1>7. closing \notin {"closing", "closed"}
  BY DEF Core, EndInv
<1>8. EndInv'
  BY <1>7 DEF EndInv
<1>9. NoOrphan'
  <2>1. \A w \in Owners : builds'[w].proc = builds[w].proc
    BY <1>3
  <2> QED
    BY <1>7, <2>1 DEF Core, NoOrphan
<1> QED
  BY <1>4, <1>5, <1>6, <1>8, <1>9 DEF Core

(* A dead generation is settled, within the slot. *)
LEMMA SettleStep ==
  ASSUME Typed, Core, session'.proc = session.proc, session'.spec = session.spec, SlotInv',
         live' \subseteq live, UNCHANGED <<desired, claim, builds, reaping, closing>>, WriteInv'
  PROVE  Core'
<1>1. BuildInv'
  <2>1. ASSUME NEW w \in Owners PROVE BuildOK(w)'
    BY DEF Core, BuildInv, BuildOK, Busy
  <2>2. OwnProcs' /\ \A q \in Procs : Replaces(q)'
    BY DEF Core, BuildInv, OwnProcs, Replaces
  <2> QED
    BY <2>1, <2>2 DEF BuildInv
<1>2. ClaimInv' /\ EndInv'
  BY DEF Core, ClaimInv, EndInv, Claimed, Resident, Busy
<1>3. NoOrphan'
  <2>1. \A w \in Owners : builds'[w].proc = builds[w].proc
    OBVIOUS
  <2> QED
    BY <2>1 DEF Core, NoOrphan
<1> QED
  BY <1>1, <1>2, <1>3 DEF Core

LEMMA StalledStep ==
  ASSUME Typed, Core, NotifyStalled
  PROVE  Core'
<1>1. Resident /\ ~session.dead /\ session' = Corpse("disconnected", TRUE)
      /\ UNCHANGED <<desired, claim, live, reaping, closing, writing>>
      /\ builds' = [builds EXCEPT ![session.proc] = Build("parked", Removed)]
  BY DEF NotifyStalled, Notifying
<1>2. ~session.parked /\ ~session.rejected
  BY <1>1, AliveIs
<1>3. WriteInv'
  BY <1>1 DEF Core, WriteInv
<1>4. /\ session'.proc = session.proc /\ session'.spec = session.spec /\ session'.dead
      /\ session'.parked /\ ~session'.rejected /\ session'.state = "disconnected"
  BY <1>1, <1>2, TypesAre DEF Corpse, SessionTypes
<1> QED
  BY <1>1, <1>2, <1>3, <1>4, ParkStep

LEMMA EventStep ==
  ASSUME Typed, Core, ConsumeEvent
  PROVE  Core'
<1> DEFINE kind == Head(events)
<1>1. UNCHANGED <<desired, claim, builds, reaping, closing>> /\ Resident
  BY DEF ConsumeEvent
<1>2. CASE session.dead
  BY <1>1, <1>2, SameSession, SoftStep DEF ConsumeEvent, Rejects
<1>3. CASE ~session.dead /\ kind = "started"
  <2>1. MarkWorking /\ live' = live /\ writing' = Fenced
    BY <1>3 DEF ConsumeEvent, Rejects
  <2> QED
    BY <1>1, <1>3, <2>1, FencedGoesOn, TypesAre, SoftStep DEF MarkWorking, Soft, Awake, SessionTypes
<1>4. CASE ~session.dead /\ kind # "started" /\ ~Rejects(kind)
  <2>1. PICK x : MarkIdle(x) /\ live' = live /\ writing' = Fenced
    BY <1>4 DEF ConsumeEvent
  <2> QED
    BY <1>1, <1>4, <2>1, FencedGoesOn, TypesAre, SoftStep DEF MarkIdle, Soft, Awake, SessionTypes
<1>5. CASE ~session.dead /\ kind # "started" /\ Rejects(kind)
  <2>1. /\ session' = [Corpse("failed", FALSE) EXCEPT !.rejected = TRUE]
        /\ live' = live \ {session.proc} /\ writing' = Fenced
    BY <1>5 DEF ConsumeEvent
  <2>2. /\ session'.proc = session.proc /\ session'.spec = session.spec /\ session'.dead
        /\ ~session'.parked /\ session'.rejected /\ session'.state = "failed"
    BY <2>1, TypesAre DEF Corpse, SessionTypes
  <2>3. ~Busy(session.proc)
    BY <1>1, <1>5, AliveIs DEF Core, SlotInv
  <2>4. SlotInv'
    <3>1. session.spec = desired /\ desired \in Specs /\ session.proc # NoProc
      BY <1>1 DEF Core, SlotInv, Resident
    <3>2. builds' = builds /\ live' = live \ {session.proc}
      BY <1>1, <2>1
    <3>3. builds'[session'.proc].step = "none" /\ session'.proc \notin live'
      BY <2>2, <2>3, <3>2 DEF Busy
    <3> QED
      BY <1>1, <2>2, <3>1, <3>3 DEF SlotInv, Resident, Busy
  <2> QED
    BY <1>1, <2>1, <2>2, <2>4, FencedGoesOn, SettleStep
<1> QED
  BY <1>2, <1>3, <1>4, <1>5

LEMMA StreamStep ==
  ASSUME Typed, Core, StreamEnds
  PROVE  Core'
<1>1. /\ Resident /\ session.reading /\ session.proc \notin live /\ WriteInv'
      /\ UNCHANGED <<desired, claim, live, reaping, closing>>
  BY FencedGoesOn DEF StreamEnds
<1>2. CASE (~session.dead \/ (~session.rejected /\ ~session.parked)) /\ RestartsGeneration
  <2>1. ~session.parked /\ ~session.rejected
    BY <1>2, AliveIs
  <2>2. /\ session'.proc = session.proc /\ session'.spec = session.spec /\ session'.dead
        /\ session'.parked /\ ~session'.rejected /\ session'.state = "disconnected"
    BY <1>2, <2>1, TypesAre DEF RestartsGeneration, Corpse, SessionTypes
  <2>3. \/ builds' = [builds EXCEPT ![session.proc] = Build("parked", Removed)]
        \/ builds' = builds /\ closing # "open"
    BY <1>2 DEF RestartsGeneration
  <2> QED
    BY <1>1, <2>1, <2>2, <2>3, ParkStep
<1>3. CASE session.dead /\ ClaimedGeneration
  <2>1. /\ session'.proc = session.proc /\ session'.spec = session.spec /\ session'.dead
        /\ session'.parked = session.parked /\ ~session'.rejected /\ ~session'.reading
        /\ session'.state = IF session.rejected THEN "failed" ELSE "disconnected"
    BY <1>3, TypesAre DEF ClaimedGeneration, SessionTypes
  <2>2. builds' = builds
    BY <1>3 DEF ClaimedGeneration
  <2>3. SlotInv'
    BY <1>1, <1>3, <2>1, <2>2 DEF Core, SlotInv, Resident, Busy
  <2> QED
    BY <1>1, <2>1, <2>2, <2>3, SettleStep
<1> QED
  BY <1>2, <1>3 DEF StreamEnds

\* ------------------------------------------------------------------ theorems

LEMMA Initially == Init => IInv
<1> HAVE Init
<1>1. Typed
  BY TypesInitially
<1>2. /\ session = NoSession /\ session.proc = NoProc /\ writing.kind = "none" /\ ~Claimed
      /\ \A o \in Owners : builds[o].step = "none" /\ builds[o].proc = NoProc
      /\ live = {} /\ reaping = {} /\ closing = "open"
  BY Nothing DEF Init, NoWrite, Write, NoClaim, Claim, Claimed, NoBuild, Build
<1>3. SlotInv
  BY <1>2, Nothing DEF SlotInv, Resident
<1>4. BuildInv
  BY <1>2, TypesAre, <1>1 DEF BuildInv, BuildOK, OwnProcs, Replaces
<1>5. ClaimInv /\ EndInv /\ WriteInv /\ NoOrphan
  BY <1>1, <1>2, TypesAre DEF ClaimInv, EndInv, WriteInv, NoOrphan, Busy, Resident
<1> QED
  BY <1>1, <1>3, <1>4, <1>5 DEF IInv

LEMMA Inductive == IInv /\ [Next]_vars => IInv'
<1> SUFFICES ASSUME Typed, Core, [Next]_vars PROVE Typed' /\ Core'
  BY DEF IInv, Core
<1>1. Typed'
  BY TypesKept DEF Core
<1>2. Core'
  BY QuietSteps, SoftSteps, SlotSteps, EndSteps, ReconcileSteps, ConstructionSteps, FreshSteps,
     RestartBeginsStep, RestartEndsStep, StalledStep, EventStep, StreamStep DEF Next, Stopped
<1> QED
  BY <1>1, <1>2

LEMMA Invariance == Spec => []IInv
BY Initially, Inductive, PTL DEF Spec

(* Every behaviour of the supervisor keeps the slot, the claim, the          *)
(* constructions and the ledger of an agent in their types                   *)
(* (agent_sessions.go).                                                      *)
THEOREM SessionTypeCorrect == Spec => []TypeOK
<1>1. IInv => TypeOK
  BY DEF IInv, Typed, TypeOK, Ledgers, Writes, ClaimTypes
<1> QED
  BY <1>1, Invariance, PTL

(* Every running process is the resident one, under construction or about to *)
(* be stopped, and none is left once Shutdown has returned (startSession,    *)
(* Shutdown), for any number of processes and disturbances.                  *)
THEOREM NoProcessIsLost == Spec => []NoOrphan
<1>1. IInv => NoOrphan
  BY DEF IInv
<1> QED
  BY <1>1, Invariance, PTL

(* While the service runs, a dead generation is failed for good, has a       *)
(* restarter, or is dropped by the next caller (consumeEvents,               *)
(* launchRestartWorker, restartGateClosed).                                  *)
THEOREM CorpsesAreOwned == Spec => []OwnedCorpse
<1>1. IInv => OwnedCorpse
  BY DEF IInv, SlotInv, OwnedCorpse
<1> QED
  BY <1>1, Invariance, PTL

(* Only PublishSession puts a process into the slot. *)
LEMMA OnlyPublished ==
  ASSUME Typed, Core, [Next]_vars, session'.proc # session.proc, session'.proc # NoProc
  PROVE  session'.built = desired /\ desired # Removed
<1>1. session \in SessionTypes /\ NoSession.proc = NoProc
  BY TypesAre, Nothing
<1>2. ASSUME NEW d \in Specs, Reconcile(d) \/ EnsureRefused(d) PROVE FALSE
  <2>1. EnsureLive(d) \/ EnsureParked(d) => session'.proc = session.proc
    BY <1>1 DEF EnsureLive, EnsureParked, SessionTypes
  <2>2. ReplaceFailed(d) => session'.proc = NoProc
    BY <1>1 DEF ReplaceFailed
  <2>3. EnsureClaim(d) \/ EnsureNew(d) \/ EnsureBackoff(d) \/ EnsureGivenUp(d) \/ EnsureRefused(d)
          => session' = session
    BY DEF EnsureClaim, EnsureNew, EnsureBackoff, EnsureGivenUp, EnsureRefused
  <2> QED
    BY <1>2, <2>1, <2>2, <2>3 DEF Reconcile
<1>3. ASSUME NEW p \in Procs, Reap(p) \/ RestartBegins(p) \/ RestartEnds(p) \/ Crash(p) PROVE FALSE
  BY <1>1, <1>3 DEF Reap, RestartBegins, RestartEnds, Crash, GiveUp, SessionTypes
<1>4. ASSUME NEW o \in Owners,
             (\E q \in Procs : Spawn(o, q)) \/ Unavailable(o) \/ ConstructionFails(o) \/ Discard(o)
      PROVE  FALSE
  BY <1>4 DEF Spawn, Unavailable, ConstructionFails, Discard
<1>5. ASSUME Remove \/ DropCorpse \/ Preempted \/ ReportError \/ FreshBegins \/ FreshEnds
               \/ Cancel \/ Shutdown \/ ShutdownReturns \/ Stopped \/ Frame \/ Hang \/ TakeTurn
               \/ UNCHANGED vars
      PROVE  FALSE
  BY <1>1, <1>5 DEF Remove, DropCorpse, Preempted, ReportError, FreshBegins, FreshEnds, Cancel,
                    Shutdown, ShutdownReturns, Stopped, Frame, Hang, TakeTurn, SessionTypes, vars
<1>6. ASSUME NotifyBusy \/ NotifyStalled \/ NotifyIdle \/ StartTurnEnds \/ StartTurnFails
               \/ \E failed \in BOOLEAN : SteerEnds(failed)
      PROVE  FALSE
  BY <1>1, <1>6 DEF NotifyBusy, NotifyStalled, NotifyIdle, StartTurnEnds, StartTurnFails, SteerEnds,
                    TurnAnswered, Corpse, SessionTypes
<1>7. ASSUME ConsumeEvent PROVE FALSE
  <2> DEFINE kind == Head(events)
  <2>1. \/ session' = session \/ MarkWorking \/ MarkIdle(kind)
        \/ session' = [Corpse("failed", FALSE) EXCEPT !.rejected = TRUE]
    <3>1. CASE session.dead
      BY <1>7, <3>1 DEF ConsumeEvent
    <3>2. CASE ~session.dead /\ kind = "started"
      BY <1>7, <3>2 DEF ConsumeEvent, Rejects
    <3>3. CASE ~session.dead /\ kind # "started"
      BY <1>7, <3>3 DEF ConsumeEvent
    <3> QED
      BY <3>1, <3>2, <3>3
  <2> QED
    BY <1>1, <2>1 DEF MarkWorking, MarkIdle, Corpse, SessionTypes
<1>8. ASSUME StreamEnds PROVE FALSE
  BY <1>1, <1>8 DEF StreamEnds, RestartsGeneration, ClaimedGeneration, Corpse, SessionTypes
<1>9. ASSUME \/ \E silent \in BOOLEAN : Heartbeat(silent)
             \/ \E kind \in Kinds : Emit(kind)
             \/ \E items \in Inboxes : ChangeInbox(items)
      PROVE  FALSE
  BY <1>1, <1>9 DEF Heartbeat, Emit, ChangeInbox, SessionTypes
<1>10. ASSUME NEW o \in Owners, PublishSession(o)
       PROVE  session'.built = desired /\ desired # Removed
  <2>1. builds[o].spec = desired /\ desired \in Specs
    BY <1>10, AdmittedSpec
  <2> QED
    BY <1>10, <2>1, SessionAssumption DEF PublishSession, Session
<1> QED
  BY <1>2, <1>3, <1>4, <1>5, <1>6, <1>7, <1>8, <1>9, <1>10 DEF Next

(* Whatever is removed, retargeted and restarted meanwhile, a process enters *)
(* the slot only if it was built from the specification of the latest        *)
(* Reconcile (the conditional swap of startSession).                         *)
THEOREM SlotNeverStale == Spec => NeverStaleSpec
<1>1. IInv /\ [Next]_vars
        => [session'.proc # session.proc /\ session'.proc # NoProc
              => session'.built = desired /\ desired # Removed]_vars
  BY OnlyPublished DEF IInv, Core
<1> QED
  BY <1>1, Invariance, PTL DEF Spec, NeverStaleSpec
=============================================================================
