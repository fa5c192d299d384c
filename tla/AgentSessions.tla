--------------------------- MODULE AgentSessions ---------------------------
(***************************************************************************)
(* The supervisor of an agent's resident runtime process                   *)
(* (daemon/internal/syncer/agent_sessions.go): reconciliation with the     *)
(* desired agents, construction of a process by a fresh claim or by the    *)
(* restarter of a dead generation, turns and steering, the events of the   *)
(* runtime, stalls, the failure ledger, status updates and Shutdown.       *)
(*                                                                         *)
(* One agent is modelled: nothing is shared between agents but the lock,   *)
(* and an action is what a thread does while it holds the lock.  A         *)
(* revision or nonce that is captured and compared later (agentRev, rev,   *)
(* turnOpSeq) is a flag that says whether it has moved since.  Backoffs    *)
(* only delay, so time is left to the scheduler.  A process is modelled by *)
(* the events its driver passes on.                                        *)
(***************************************************************************)
EXTENDS Naturals, Sequences

CONSTANTS Specs,    \* desired agent specifications
          Removed,  \* no specification: the agent is not in the workspace
          Profile,  \* the model and reasoning effort of a specification
          Default,  \* the profile that names neither
          Named,    \* the profiles that name a model
          Procs,    \* runtime processes
          NoProc,
          Fresh,    \* the owner of a first construction; Procs own restarts
          Boxes,    \* the boxes of an inbox: "for_me" and "general"
          Sigs,     \* signatures of the pending items of an inbox box
          NoSig,    \* the signature of an empty box
          Cap,      \* explicitProfileConstructionAttemptCap
          EventCap, \* bound: events buffered between runtime and supervisor
          Disturbances  \* bound: faults, changes of the workspace and of the inbox

ASSUME SessionAssumption ==
  /\ Removed \notin Specs
  /\ NoProc \notin Procs /\ Fresh \notin Procs /\ Fresh # NoProc
  /\ "for_me" \in Boxes /\ NoSig \notin Sigs
  /\ Cap \in Nat \ {0} /\ EventCap \in Nat \ {0} /\ Disturbances \in Nat
  /\ Specs \subseteq DOMAIN Profile /\ Default \notin Named

VARIABLES
  desired,  \* the specification that the last Reconcile carried
  caller,   \* Reconcile's wait for a claim
  session,  \* the session slot of the agent
  claim,    \* the fresh-start claim
  builds,   \* the construction of each owner
  live,     \* running processes
  reaping,  \* processes that left the slot and are about to be stopped
  ledger,   \* restartAttempts
  inbox,    \* what is pending for the agent, per box
  writing,  \* the write to the runtime that the agent's worker waits for
  turning,  \* the resident runtime's own turn
  events,   \* events of the resident runtime not consumed yet
  moved,    \* did the runtime of a turn decode frames that were not observed yet?
  status,   \* the status enqueued last
  closing,  \* the service's end
  left      \* disturbances left

vars == <<desired, caller, session, claim, builds, live, reaping, ledger, inbox,
          writing, turning, events, moved, status, closing, left>>

Inboxes  == [Boxes -> Sigs \cup {NoSig}]
NoItems  == [b \in Boxes |-> NoSig]
Statuses == {"idle", "working", "stalled", "disconnected", "failed"}
Kinds    == {"started", "completed", "failed", "rejected", "idle"}
Owners   == Procs \cup {Fresh}

(***************************************************************************)
(* The slot, the claim, a construction, a write and the ledger.  Two       *)
(* fields of a session are histories: told is what the process itself took *)
(* in turns, and credited says that a late idle of the turn before marked  *)
(* work delivered that the process had not taken.                          *)
(***************************************************************************)
Session(p, spec) ==
  [proc |-> p, spec |-> spec, built |-> spec, state |-> "idle", dead |-> FALSE,
   parked |-> FALSE, reading |-> TRUE, rejected |-> FALSE, turn |-> FALSE,
   delivered |-> NoItems, active |-> NoItems, steered |-> NoSig,
   told |-> NoItems, credited |-> FALSE]

NoSession == Session(NoProc, Removed)
Resident  == session.proc # NoProc

Claim(spec) == [spec |-> spec, cancelled |-> FALSE]
NoClaim     == Claim(Removed)
Claimed     == claim.spec # Removed

Build(step, spec) ==
  [step |-> step, spec |-> spec, proc |-> NoProc, current |-> TRUE, err |-> FALSE]

NoBuild  == Build("none", Removed)
Busy(o)  == builds[o].step # "none"

Write(kind, p, items) ==
  [kind |-> kind, proc |-> p, items |-> items, taken |-> FALSE, current |-> TRUE]

NoWrite == Write("none", NoProc, NoItems)

Fenced == IF writing.kind = "none" THEN writing ELSE [writing EXCEPT !.current = FALSE]

NoLedger == [profile |-> Default, attempts |-> 0, exhausted |-> FALSE]

Explicit(spec)   == Profile[spec] # Default
NamesModel(spec) == Profile[spec] \in Named

\* Attempts are counted for one profile.  Each follows a fault, so that the
\* bound on disturbances bounds them.
NextAttempt(spec) ==
  LET n == IF ledger.profile = Profile[spec] THEN ledger.attempts ELSE 0
  IN  [profile |-> Profile[spec], attempts |-> n + 1,
       exhausted |-> ledger.profile = Profile[spec] /\ ledger.exhausted]

RecordFailure(spec) ==
  LET l == NextAttempt(spec)
  IN  [l EXCEPT !.exhausted = l.exhausted \/ (Explicit(spec) /\ l.attempts >= Cap)]

\* The fault, or the change of the workspace or of the inbox, is counted.
Disturb(happens) == /\ happens => left > 0
                    /\ left' = IF happens THEN left - 1 ELSE left

\* A process id stands for another process once nothing refers to it.
Unused(p) == /\ p \notin live \cup reaping
             /\ p # session.proc /\ p # writing.proc
             /\ ~Busy(p) /\ \A o \in Owners : builds[o].proc # p

Init ==
  /\ desired = Removed /\ caller = "none"
  /\ session = NoSession /\ claim = NoClaim
  /\ builds = [o \in Owners |-> NoBuild]
  /\ live = {} /\ reaping = {}
  /\ ledger = NoLedger
  /\ inbox = NoItems /\ writing = NoWrite
  /\ turning = "none" /\ events = <<>> /\ moved = FALSE
  /\ status = "disconnected"
  /\ closing = "open"
  /\ left = Disturbances

(***************************************************************************)
(* Reconcile.  Calls do not overlap, and each stops what it removed before *)
(* it returns.                                                             *)
(***************************************************************************)
Reconciling(d) ==
  /\ closing \in {"open", "canceled"} /\ caller = "none" /\ reaping = {}
  /\ desired' = d
  /\ Disturb(d # desired)

ProfileChanged(spec, d) == Profile[spec] # Profile[d]

KeepLedger(spec, d) == ledger' = IF ProfileChanged(spec, d) THEN NoLedger ELSE ledger

GateClosed == session.state = "failed" \/ (session.dead /\ session.parked)

\* A live session keeps its process; the specification is for the next one.
EnsureLive(d) ==
  /\ Reconciling(d) /\ Resident /\ ~GateClosed /\ session.state # "disconnected"
  /\ session' = [session EXCEPT !.spec = d]
  /\ KeepLedger(session.spec, d)
  /\ UNCHANGED <<caller, claim, builds, live, reaping, inbox, writing, turning,
                 events, moved, status, closing>>

RefreshKeepsBuild(d) == builds \* mutant: the revision is not bumped

\* The owner of a generation whose desired specification changed rebuilds.
RefreshDesiredSpec(d) ==
  IF session.spec = d THEN builds
  ELSE [builds EXCEPT ![session.proc] = [builds[session.proc] EXCEPT !.current = FALSE]]

EnsureParked(d) ==
  /\ Reconciling(d) /\ Resident /\ GateClosed
  /\ session.state = "failed" => ~ProfileChanged(session.spec, d)
  /\ session' = [session EXCEPT !.spec = d]
  /\ builds' = RefreshDesiredSpec(d)
  /\ KeepLedger(session.spec, d)
  /\ UNCHANGED <<caller, claim, live, reaping, inbox, writing, turning, events,
                 moved, status, closing>>

\* The claim is created, or retargeted if it is for something else.
Claims(d) ==
  /\ claim' = IF Claimed THEN [claim EXCEPT !.spec = d] ELSE Claim(d)
  /\ builds' = IF Claimed /\ claim.spec # d
               THEN [builds EXCEPT ![Fresh] = [builds[Fresh] EXCEPT !.current = FALSE]]
               ELSE builds
  /\ caller' = "waiting"

\* Another profile reopens a failed agent, whose process is stopped by now.
ReplaceFailed(d) ==
  /\ Reconciling(d) /\ Resident
  /\ session.state = "failed" /\ ProfileChanged(session.spec, d)
  /\ session' = NoSession
  /\ Claims(d)
  /\ ledger' = NoLedger
  /\ events' = <<>> /\ turning' = "none" /\ moved' = FALSE
  /\ UNCHANGED <<live, reaping, inbox, writing, status, closing>>

\* Any caller, a notification too, drops a corpse that nobody restarts.
DropCorpse ==
  /\ closing \in {"open", "canceled"}
  /\ Resident /\ ~GateClosed /\ session.state = "disconnected"
  /\ session' = NoSession
  /\ events' = <<>> /\ turning' = "none" /\ moved' = FALSE
  /\ UNCHANGED <<desired, caller, claim, builds, live, reaping, ledger, inbox, writing,
                 status, closing, left>>

EnsureClaim(d) ==
  /\ Reconciling(d) /\ ~Resident /\ Claimed
  /\ Claims(d)
  /\ KeepLedger(claim.spec, d)
  /\ UNCHANGED <<session, live, reaping, inbox, writing, turning, events, moved,
                 status, closing>>

GivenUp(d) == ledger.profile = Profile[d] /\ Explicit(d) /\ ledger.exhausted

EnsureNew(d) ==
  /\ Reconciling(d) /\ ~Resident /\ ~Claimed
  /\ closing = "open" /\ ~GivenUp(d)
  /\ Claims(d)
  /\ ledger' = IF ledger.profile # Profile[d] THEN NoLedger ELSE ledger
  /\ UNCHANGED <<session, live, reaping, inbox, writing, turning, events, moved,
                 status, closing>>

\* The failure ledger still backs off.
EnsureBackoff(d) ==
  /\ Reconciling(d) /\ ~Resident /\ ~Claimed
  /\ ledger.profile = Profile[d] /\ Explicit(d)
  /\ ledger.attempts > 0 /\ ~ledger.exhausted
  /\ UNCHANGED <<caller, session, claim, builds, live, reaping, ledger, inbox, writing,
                 turning, events, moved, status, closing>>

\* A caller that was cancelled before creates no claim.
EnsureRefused(d) ==
  /\ closing \in {"open", "canceled"} /\ caller = "none" /\ reaping = {}
  /\ desired' = d
  /\ ~Resident /\ ~Claimed
  /\ caller' = "failing"
  /\ Disturb(TRUE)
  /\ UNCHANGED <<session, claim, builds, live, reaping, ledger, inbox, writing, turning,
                 events, moved, status, closing>>

EnsureGivenUp(d) ==
  /\ Reconciling(d) /\ ~Resident /\ ~Claimed
  /\ GivenUp(d)
  /\ status' = "failed"
  /\ UNCHANGED <<caller, session, claim, builds, live, reaping, ledger, inbox,
                 writing, turning, events, moved, closing>>

\* The worker of an agent that left is cancelled and joined before.
WorkerJoined == writing = NoWrite

\* The agent left the workspace.
Remove ==
  /\ desired # Removed /\ Reconciling(Removed) /\ WorkerJoined
  /\ session' = NoSession
  /\ reaping' = IF Resident THEN {session.proc} ELSE {}
  /\ claim' = IF Claimed THEN [claim EXCEPT !.cancelled = TRUE] ELSE claim
  /\ ledger' = NoLedger
  /\ events' = <<>> /\ turning' = "none" /\ moved' = FALSE
  /\ UNCHANGED <<caller, builds, live, inbox, writing, status, closing>>

\* A newer snapshot or the service's end cancels the refresh that waits.
Preempted ==
  /\ caller = "waiting"
  /\ caller' = "failing"
  /\ Disturb(TRUE)
  /\ UNCHANGED <<desired, session, claim, builds, live, reaping, ledger, inbox,
                 writing, turning, events, moved, status, closing>>

\* Reconcile publishes the error it got, after it let go of the lock.
ReportError ==
  /\ caller = "failing"
  /\ caller' = "none"
  /\ status' = IF closing = "closed" THEN status
               ELSE IF ledger.exhausted THEN "failed" ELSE "disconnected"
  /\ UNCHANGED <<desired, session, claim, builds, live, reaping, ledger, inbox,
                 writing, turning, events, moved, closing, left>>

Reap(p) ==
  /\ p \in reaping
  /\ reaping' = reaping \ {p}
  /\ live' = live \ {p}
  /\ UNCHANGED <<desired, caller, session, claim, builds, ledger, inbox, writing,
                 turning, events, moved, status, closing, left>>

(***************************************************************************)
(* Construction.                                                           *)
(***************************************************************************)
EndClaim(err) ==
  /\ claim' = NoClaim
  /\ builds' = [builds EXCEPT ![Fresh] = NoBuild]
  /\ caller' = IF caller # "waiting" THEN caller ELSE IF err THEN "failing" ELSE "none"

FreshBegins ==
  /\ Claimed /\ ~Busy(Fresh)
  /\ IF closing # "open" \/ claim.cancelled
     THEN EndClaim(TRUE)
     ELSE /\ builds' = [builds EXCEPT ![Fresh] = Build("building", claim.spec)]
          /\ UNCHANGED <<claim, caller>>
  /\ UNCHANGED <<desired, session, live, reaping, ledger, inbox, writing, turning,
                 events, moved, status, closing, left>>

\* The restarter wakes, and stops the generation it replaces.
RestartBegins(p) ==
  LET mine == closing = "open" /\ session.proc = p /\ session.parked
  IN  /\ builds[p].step = "parked"
      /\ builds' = [builds EXCEPT ![p] = IF mine THEN Build("building", session.spec)
                                         ELSE NoBuild]
      /\ live' = IF mine THEN live \ {p} ELSE live
      /\ turning' = IF mine THEN "none" ELSE turning
      /\ UNCHANGED <<desired, caller, session, claim, reaping, ledger, inbox, writing,
                     events, moved, status, closing, left>>

Spawn(o, q) ==
  /\ builds[o].step = "building" /\ builds[o].proc = NoProc /\ Unused(q)
  /\ builds' = [builds EXCEPT ![o] = [builds[o] EXCEPT !.proc = q]]
  /\ live' = live \cup {q}
  /\ UNCHANGED <<desired, caller, session, claim, reaping, ledger, inbox, writing,
                 turning, events, moved, status, closing, left>>

Returned(o, err) == [builds[o] EXCEPT !.step = "returned", !.proc = NoProc, !.err = err]

\* The runtime or the profile is not available: a soft outcome.
Unavailable(o) ==
  /\ builds[o].step = "building" /\ builds[o].proc = NoProc
  /\ builds' = [builds EXCEPT ![o] = Returned(o, FALSE)]
  /\ status' = "disconnected"
  /\ Disturb(TRUE)
  /\ UNCHANGED <<desired, caller, session, claim, live, reaping, ledger, inbox,
                 writing, turning, events, moved, closing>>

ConstructionFailsLeaking(o) == \* mutant: the reap is armed after Start
  /\ builds[o].step = "building"
  /\ builds' = [builds EXCEPT ![o] = Returned(o, TRUE)]
  /\ Disturb(TRUE)
  /\ UNCHANGED <<desired, caller, session, claim, live, reaping, ledger, inbox, writing,
                 turning, events, moved, status, closing>>

ConstructionFails(o) ==
  /\ builds[o].step = "building"
  /\ builds' = [builds EXCEPT ![o] = Returned(o, TRUE)]
  /\ live' = live \ {builds[o].proc}
  /\ Disturb(TRUE)
  /\ UNCHANGED <<desired, caller, session, claim, reaping, ledger, inbox, writing,
                 turning, events, moved, status, closing>>

\* The conditional swap: the slot still holds what the construction replaces,
\* and what it was built from is still desired.
Admitted(o) ==
  /\ closing = "open"
  /\ session.proc = IF o = Fresh THEN NoProc ELSE o
  /\ builds[o].current
  /\ o = Fresh => ~claim.cancelled

PublishSession(o) ==
  /\ builds[o].step = "building" /\ builds[o].proc # NoProc
  /\ Admitted(o)
  /\ session' = Session(builds[o].proc, builds[o].spec)
  /\ builds' = [builds EXCEPT ![o] = Returned(o, FALSE)]
  /\ events' = <<>> /\ turning' = "none" /\ moved' = FALSE
  /\ status' = "idle"
  /\ UNCHANGED <<desired, caller, claim, live, reaping, ledger, inbox, writing, closing, left>>

Discard(o) ==
  /\ builds[o].step = "building" /\ builds[o].proc # NoProc
  /\ ~Admitted(o)
  /\ builds' = [builds EXCEPT ![o] = Returned(o, FALSE)]
  /\ live' = live \ {builds[o].proc}
  /\ UNCHANGED <<desired, caller, session, claim, reaping, ledger, inbox, writing,
                 turning, events, moved, status, closing, left>>

\* A retargeted claim is built again; only a genuine failure is recorded.
FreshEnds ==
  LET b       == builds[Fresh]
      over    == Resident \/ closing # "open" \/ claim.cancelled
      genuine == ~over /\ b.current /\ b.err
  IN  /\ b.step = "returned"
      /\ IF ~over /\ ~b.current
         THEN /\ builds' = [builds EXCEPT ![Fresh] = NoBuild]
              /\ UNCHANGED <<claim, caller>>
         ELSE EndClaim(~Resident /\ b.err)
      /\ ledger' = IF genuine THEN RecordFailure(b.spec) ELSE ledger
      /\ UNCHANGED <<desired, session, live, reaping, inbox, writing, turning, events,
                     moved, status, closing, left>>


\* Repeated until it succeeds, or is removed, or the ledger is exhausted.
RestartAgain(p, b) == Build("parked", Removed)

GiveUpParked(p) == session \* mutant: the restarter leaves without a verdict

\* The ledger is exhausted: only another profile starts the agent again.
GiveUp(p) == [session EXCEPT !.parked = FALSE, !.state = "failed"]

RestartEnds(p) ==
  LET b      == builds[p]
      mine   == session.proc = p /\ closing = "open" /\ session.parked
      l      == IF b.err THEN RecordFailure(session.spec) ELSE NextAttempt(session.spec)
      counts == mine /\ b.current
      ends   == counts /\ l.exhausted
  IN  /\ b.step = "returned"
      /\ builds' = [builds EXCEPT ![p] = IF mine /\ ~ends THEN RestartAgain(p, b) ELSE NoBuild]
      /\ ledger' = IF counts THEN l ELSE ledger
      /\ session' = IF ends THEN GiveUp(p) ELSE session
      /\ status' = IF ends THEN "failed" ELSE status
      /\ UNCHANGED <<desired, caller, claim, live, reaping, inbox, writing, turning,
                     events, moved, closing, left>>

(***************************************************************************)
(* Notifications: the agent's worker polls the inbox and hands it over.    *)
(***************************************************************************)
Notifying == /\ writing = NoWrite /\ Resident /\ ~session.dead /\ inbox # NoItems

News(held) == {b \in Boxes : inbox[b] # NoSig /\ inbox[b] # held[b]}

\* Frames decoded since the stall prove the runtime active.
Working == session.state = "working" \/ (session.state = "stalled" /\ moved)

\* The frames of an idle or dead session are never looked at.
Watched == ~session.dead /\ session.state \in {"working", "stalled"}

ForMeJoint == inbox \* mutant: the signature of all boxes together

ForMe == inbox["for_me"]

Steers == /\ session.turn /\ "for_me" \in News(session.active)
          /\ ForMe # session.steered

SteerItems == [b \in Boxes |-> IF b = "for_me" THEN ForMe ELSE NoSig]

NotifyBusy ==
  /\ Notifying /\ Working
  /\ Steers \/ session.state = "stalled"
  /\ session' = [session EXCEPT !.state = "working",
                   !.steered = IF Steers THEN ForMe ELSE session.steered]
  /\ writing' = IF Steers THEN Write("steer", session.proc, SteerItems) ELSE writing
  /\ status' = IF session.state = "stalled" THEN "working" ELSE status
  /\ moved' = IF session.state = "stalled" THEN FALSE ELSE moved
  /\ UNCHANGED <<desired, caller, claim, builds, live, reaping, ledger, inbox, turning,
                 events, closing, left>>

\* A failed steer gives its reservation back.
SteerEnds(failed) ==
  /\ writing.kind = "steer"
  /\ session' = IF /\ failed /\ session.proc = writing.proc /\ ~session.dead
                   /\ session.turn /\ session.steered = writing.items["for_me"]
                THEN [session EXCEPT !.steered = NoSig] ELSE session
  /\ writing' = NoWrite
  /\ Disturb(failed)
  /\ UNCHANGED <<desired, caller, claim, builds, live, reaping, ledger, inbox, turning,
                 events, moved, status, closing>>

Corpse(state, parked) ==
  [session EXCEPT !.dead = TRUE, !.state = state, !.parked = parked, !.turn = FALSE,
                  !.active = NoItems, !.steered = NoSig]

\* A wedged turn is replaced only for work that waits behind it.
NotifyStalled ==
  /\ Notifying /\ session.state = "stalled" /\ ~moved
  /\ News(session.active) \cap News(session.delivered) # {}
  /\ session' = Corpse("disconnected", TRUE)
  /\ builds' = [builds EXCEPT ![session.proc] = Build("parked", Removed)]
  /\ status' = "disconnected"
  /\ UNCHANGED <<desired, caller, claim, live, reaping, ledger, inbox, writing, turning,
                 events, moved, closing, left>>

NotifyIdle ==
  /\ Notifying /\ session.state = "idle"
  /\ News(session.delivered) # {}
  /\ session' = [session EXCEPT !.state = "working", !.active = inbox, !.steered = NoSig]
  /\ writing' = Write("turn", session.proc, inbox)
  /\ moved' = FALSE
  /\ UNCHANGED <<desired, caller, claim, builds, live, reaping, ledger, inbox, turning,
                 events, status, closing, left>>

\* The boxes that a prompt has nothing for stay as they were.
Joined(old, items) == [b \in Boxes |-> IF items[b] # NoSig THEN items[b] ELSE old[b]]

\* The runtime takes the turn, and may run it before its answer is handled.
TakeTurn ==
  /\ writing.kind = "turn" /\ ~writing.taken
  /\ writing.proc \in live /\ writing.proc = session.proc /\ turning # "hung"
  /\ writing' = [writing EXCEPT !.taken = TRUE]
  /\ session' = [session EXCEPT !.told = Joined(session.told, writing.items),
                                !.credited = FALSE]
  /\ turning' = "running"
  /\ UNCHANGED <<desired, caller, claim, builds, live, reaping, ledger, inbox,
                 events, moved, status, closing, left>>

\* The completion of a write counts only if nothing superseded it.
FenceHolds == session.proc = writing.proc /\ ~session.dead /\ writing.current

TurnAnswered(state, turn) ==
  /\ writing' = NoWrite
  /\ session' = IF FenceHolds THEN [session EXCEPT !.state = state, !.turn = turn,
                                      !.active = IF turn THEN session.active ELSE NoItems]
                ELSE session
  /\ status' = IF FenceHolds THEN state ELSE status
  /\ moved' = IF FenceHolds THEN FALSE ELSE moved
  /\ UNCHANGED <<desired, caller, claim, builds, live, reaping, ledger, inbox, turning,
                 events, closing>>

StartTurnEnds ==
  writing.kind = "turn" /\ writing.taken /\ TurnAnswered("working", TRUE) /\ Disturb(FALSE)

StartTurnFails ==
  writing.kind = "turn" /\ TurnAnswered("idle", FALSE) /\ Disturb(writing.proc \in live)

(***************************************************************************)
(* The events of the resident runtime, and its end.                        *)
(***************************************************************************)
MarkWorking ==
  /\ session' = [session EXCEPT !.state = "working", !.turn = TRUE]
  /\ status' = "working"

DeliveredBy(kind) == IF kind \in {"completed", "idle"}
                     THEN Joined(session.delivered, session.active) ELSE session.delivered

\* The idle of a turn that ended before the write, which the process has not taken.
LateIdle(kind) == kind = "idle" /\ writing.kind = "turn" /\ ~writing.taken

MarkIdle(kind) ==
  /\ session' = [session EXCEPT !.state = "idle", !.turn = FALSE, !.active = NoItems,
                   !.steered = NoSig, !.delivered = DeliveredBy(kind),
                   !.credited = session.credited \/ LateIdle(kind)]
  /\ status' = "idle"

Rejects(kind) == kind = "rejected" /\ ~session.dead /\ NamesModel(session.spec)

\* An event of a dead generation changes nothing but the ledger.
ConsumeEvent ==
  LET kind == Head(events)
  IN  /\ Resident /\ events # <<>>
      /\ events' = Tail(events)
      /\ ledger' = IF kind = "completed" THEN NoLedger ELSE ledger
      /\ IF session.dead THEN UNCHANGED <<session, status, writing, moved>>
         ELSE /\ writing' = Fenced
              /\ moved' = FALSE
              /\ CASE kind = "started" -> MarkWorking
                   [] Rejects(kind)    -> /\ session' = [Corpse("failed", FALSE)
                                                           EXCEPT !.rejected = TRUE]
                                          /\ status' = "failed"
                   [] OTHER            -> MarkIdle(kind)
      /\ live' = IF Rejects(kind) THEN live \ {session.proc} ELSE live
      /\ UNCHANGED <<desired, caller, claim, builds, reaping, inbox, turning, closing, left>>

\* The end of the event stream, for a generation whose end nobody claimed.
\* Its restarter is launched unless the service is ending.
RestartsGeneration ==
  /\ session' = [Corpse("disconnected", TRUE) EXCEPT !.reading = FALSE]
  /\ ledger' = NextAttempt(session.spec)
  /\ builds' = IF closing = "open"
               THEN [builds EXCEPT ![session.proc] = Build("parked", Removed)] ELSE builds
  /\ status' = "disconnected"

\* For a generation whose end was claimed: a rejection stays failed, a restarter
\* stays the owner, and a restarter that gave up may leave the corpse unowned.
ClaimedGeneration ==
  /\ session' = [session EXCEPT !.reading = FALSE, !.rejected = FALSE,
                   !.state = IF session.rejected THEN "failed" ELSE "disconnected"]
  /\ status' = IF session.rejected THEN "failed" ELSE status
  /\ UNCHANGED <<ledger, builds>>

\* A corpse that was not stopped by the supervisor but crashed is restarted.
StreamEnds ==
  /\ Resident /\ session.reading /\ session.proc \notin live /\ events = <<>>
  /\ \/ /\ ~session.dead \/ (~session.rejected /\ ~session.parked)
        /\ RestartsGeneration
     \/ session.dead /\ ClaimedGeneration
  /\ writing' = Fenced
  /\ moved' = FALSE
  /\ UNCHANGED <<desired, caller, claim, live, reaping, inbox, turning, events, closing, left>>

\* One tick of evaluateLiveness, short of or past the silence threshold.
Heartbeat(silent) ==
  /\ Resident /\ Watched
  /\ LET state == IF moved THEN "working" ELSE IF silent THEN "stalled" ELSE session.state
     IN  /\ session' = [session EXCEPT !.state = state]
         /\ status' = state
  /\ moved' = FALSE
  /\ UNCHANGED <<desired, caller, claim, builds, live, reaping, ledger, inbox, writing,
                 turning, events, closing, left>>

(***************************************************************************)
(* The runtime, as the drivers see it, and the agent's inbox.              *)
(***************************************************************************)
\* A turn ends once; the runtime may then say that it is idle, too.
Emit(kind) ==
  /\ session.proc \in live /\ Len(events) < EventCap
  /\ turning = IF kind = "idle" THEN "ended" ELSE "running"
  /\ kind = "rejected" => NamesModel(session.built)
  /\ events' = Append(events, kind)
  /\ turning' = CASE kind = "started" -> "running" [] kind = "idle" -> "none"
                   [] OTHER -> "ended"
  /\ moved' = Watched
  /\ Disturb(kind \in {"failed", "rejected"})
  /\ UNCHANGED <<desired, caller, session, claim, builds, live, reaping, ledger, inbox,
                 writing, status, closing>>

Frame ==
  /\ session.proc \in live /\ turning = "running" /\ Watched
  /\ moved' = TRUE
  /\ UNCHANGED <<desired, caller, session, claim, builds, live, reaping, ledger, inbox,
                 writing, turning, events, status, closing, left>>

Hang ==
  /\ turning = "running"
  /\ turning' = "hung"
  /\ Disturb(TRUE)
  /\ UNCHANGED <<desired, caller, session, claim, builds, live, reaping, ledger, inbox,
                 writing, events, moved, status, closing>>

Crash(p) ==
  /\ p \in live
  /\ live' = live \ {p}
  /\ turning' = IF p = session.proc THEN "none" ELSE turning
  /\ Disturb(TRUE)
  /\ UNCHANGED <<desired, caller, session, claim, builds, reaping, ledger, inbox, writing,
                 events, moved, status, closing>>

ChangeInbox(items) ==
  /\ items # inbox
  /\ inbox' = items
  /\ Disturb(TRUE)
  /\ UNCHANGED <<desired, caller, session, claim, builds, live, reaping, ledger, writing,
                 turning, events, moved, status, closing>>

(***************************************************************************)
(* The end of the service.                                                 *)
(***************************************************************************)
Cancel ==
  /\ closing = "open"
  /\ closing' = "canceled"
  /\ UNCHANGED <<desired, caller, session, claim, builds, live, reaping, ledger, inbox,
                 writing, turning, events, moved, status, left>>

Shutdown ==
  /\ closing = "canceled"
  /\ closing' = "closing"
  /\ session' = NoSession
  /\ reaping' = reaping \cup (IF Resident THEN {session.proc} ELSE {})
  /\ events' = <<>> /\ turning' = "none" /\ moved' = FALSE
  /\ UNCHANGED <<desired, caller, claim, builds, live, ledger, inbox, writing, status, left>>

ShutdownReturns ==
  /\ closing = "closing" /\ reaping = {} /\ ~Claimed /\ \A o \in Owners : ~Busy(o)
  /\ closing' = "closed"
  /\ UNCHANGED <<desired, caller, session, claim, builds, live, reaping, ledger, inbox,
                 writing, turning, events, moved, status, left>>

\* The service has ended; a Shutdown that hangs would be a deadlock.
Stopped == closing = "closed" /\ UNCHANGED vars

(***************************************************************************)
(* The specification.                                                      *)
(***************************************************************************)
Reconcile(d) == \/ EnsureLive(d) \/ EnsureParked(d) \/ ReplaceFailed(d)
                \/ EnsureClaim(d) \/ EnsureNew(d) \/ EnsureBackoff(d) \/ EnsureGivenUp(d)

Next ==
  \/ \E d \in Specs : Reconcile(d) \/ EnsureRefused(d)
  \/ Remove \/ DropCorpse \/ Preempted \/ ReportError
  \/ \E p \in Procs : Reap(p) \/ RestartBegins(p) \/ RestartEnds(p) \/ Crash(p)
  \/ \E o \in Owners : \/ \E q \in Procs : Spawn(o, q)
                       \/ Unavailable(o) \/ ConstructionFails(o)
                       \/ PublishSession(o) \/ Discard(o)
  \/ FreshBegins \/ FreshEnds
  \/ NotifyBusy \/ NotifyStalled \/ NotifyIdle
  \/ \E failed \in BOOLEAN : SteerEnds(failed)
  \/ TakeTurn \/ StartTurnEnds \/ StartTurnFails
  \/ ConsumeEvent \/ StreamEnds
  \/ \E silent \in BOOLEAN : Heartbeat(silent)
  \/ \E kind \in Kinds : Emit(kind)
  \/ Frame \/ Hang
  \/ \E items \in Inboxes : ChangeInbox(items)
  \/ Cancel \/ Shutdown \/ ShutdownReturns \/ Stopped

Spec == Init /\ [][Next]_vars

\* The service refreshes its workspace again and again, the supervisor's steps
\* end, the agent's worker polls, and a turn that does not hang ends.
Fairness ==
  /\ \A d \in Specs : WF_vars(desired = d /\ Reconcile(d))
  /\ WF_vars(DropCorpse) /\ WF_vars(ReportError)
  /\ \A p \in Procs : /\ WF_vars(Reap(p)) /\ WF_vars(RestartBegins(p))
                      /\ WF_vars(RestartEnds(p))
  /\ \A o \in Owners : /\ WF_vars(\E q \in Procs : Spawn(o, q))
                       /\ WF_vars(PublishSession(o) \/ Discard(o))
  /\ WF_vars(FreshBegins) /\ WF_vars(FreshEnds)
  /\ WF_vars(NotifyBusy) /\ WF_vars(NotifyStalled) /\ WF_vars(NotifyIdle)
  /\ WF_vars(SteerEnds(FALSE)) /\ WF_vars(TakeTurn) /\ WF_vars(StartTurnEnds)
  /\ WF_vars(StartTurnFails /\ writing.proc \notin live)
  /\ WF_vars(ConsumeEvent) /\ WF_vars(StreamEnds)
  /\ WF_vars(Heartbeat(TRUE)) /\ SF_vars(Emit("completed"))

FairSpec == Spec /\ Fairness

(***************************************************************************)
(* Properties.                                                             *)
(***************************************************************************)
SessionTypes ==
  [proc : Procs \cup {NoProc}, spec : Specs \cup {Removed}, built : Specs \cup {Removed},
   state : Statuses, dead : BOOLEAN, parked : BOOLEAN, reading : BOOLEAN,
   rejected : BOOLEAN, turn : BOOLEAN, delivered : Inboxes, active : Inboxes,
   steered : Sigs \cup {NoSig}, told : Inboxes, credited : BOOLEAN]

BuildTypes ==
  [step : {"none", "parked", "building", "returned"}, spec : Specs \cup {Removed},
   proc : Procs \cup {NoProc}, current : BOOLEAN, err : BOOLEAN]

\* Types of the slot, the claim, the constructions and the runtime.
TypeOK ==
  /\ desired \in Specs \cup {Removed}
  /\ caller \in {"none", "waiting", "failing"}
  /\ session \in SessionTypes
  /\ claim \in [spec : Specs \cup {Removed}, cancelled : BOOLEAN]
  /\ builds \in [Owners -> BuildTypes]
  /\ live \subseteq Procs /\ reaping \subseteq Procs
  /\ ledger \in [profile : {Profile[d] : d \in Specs} \cup {Default}, attempts : Nat,
                 exhausted : BOOLEAN]
  /\ inbox \in Inboxes
  /\ writing \in [kind : {"none", "steer", "turn"}, proc : Procs \cup {NoProc},
                  items : Inboxes, taken : BOOLEAN, current : BOOLEAN]
  /\ turning \in {"none", "running", "hung", "ended"}
  /\ events \in Seq(Kinds) /\ Len(events) <= EventCap
  /\ moved \in BOOLEAN
  /\ status \in Statuses
  /\ closing \in {"open", "canceled", "closing", "closed"}
  /\ left \in 0..Disturbances

\* Every running process is the resident one, under construction or about to be
\* stopped, and none is left once Shutdown has returned: removal, retargeting,
\* replacement and shutdown lose no process (startSession, Shutdown).
NoOrphan ==
  /\ live \subseteq {session.proc} \cup {builds[o].proc : o \in Owners} \cup reaping
  /\ closing = "closed" => live = {}

\* While the service runs, a dead generation is failed for good, or has a
\* restarter that will replace it, or is one that the next caller drops: no agent
\* is silently stranded (consumeEvents, launchRestartWorker, restartGateClosed).
OwnedCorpse ==
  closing = "open" /\ session.dead =>
    \/ session.state = "failed" /\ ~session.parked
    \/ session.state = "disconnected" /\ session.parked /\ Busy(session.proc)
    \/ session.state = "disconnected" /\ ~session.parked /\ ~session.reading

\* A process enters the slot only if it was built from the specification that
\* the latest Reconcile carried, and never for an agent that was removed
\* (the conditional swap of startSession).
NeverStaleSpec ==
  [][session'.proc # session.proc /\ session'.proc # NoProc
       => session'.built = desired /\ desired # Removed]_vars

\* The supervisor takes it for delivered, and the process did take it, or else a
\* late idle was taken for the end of the turn that was to hand it over.
Delivered(b) == /\ inbox[b] = session.delivered[b]
                /\ inbox[b] = session.told[b] \/ session.credited

\* Work the resident runtime was told about, or that can be seen not to be done.
Heard == \/ \A b \in Boxes : inbox[b] = NoSig \/ Delivered(b)
         \/ session.state = "stalled" /\ turning = "hung"
         \/ session.state = "failed"
         \/ ~Resident /\ GivenUp(desired)

=============================================================================
