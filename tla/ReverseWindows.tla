--------------------------- MODULE ReverseWindows ---------------------------
(***************************************************************************)
(* One document that is deleted and brought back through the file system.  *)
(* A user removes its file in the directory of an origin (the primary      *)
(* workspace or one agent's workspace); the origin's daemon asks the       *)
(* backend to set the tombstone and to open a window of five minutes; when *)
(* the file comes back within the window, the daemon proves that the       *)
(* backend has its content and consumes the window, which removes the      *)
(* tombstone.  The daemon keeps its intent in SQLite and resumes it after  *)
(* lost answers and restarts; the backend keeps one window row per         *)
(* document and recognises requests it has already carried out.            *)
(*                                                                         *)
(* A file is the number of the write that produced it: its bytes and its   *)
(* inode.  A CRDT state vector is the set of writes captured in it.        *)
(* Operation ids are fresh: the n-th id an origin draws is n.              *)
(***************************************************************************)
EXTENDS Integers, FiniteSets

CONSTANTS
    Origins,      \* daemon and scope: the workspaces with a file of the document
    NoOne,        \* the origin of a window that was never opened
    MaxWrites,    \* bound on the writes of users
    MaxDeletes,   \* bound on the deletions by users
    MaxOthers,    \* bound on what browsers do to the root document
    MaxFaults     \* bound on lost answers, failed waits and restarts

ASSUME OriginsAssumption == NoOne \notin Origins

ASSUME BoundsAssumption ==
    MaxWrites \in Nat /\ MaxDeletes \in Nat /\ MaxOthers \in Nat /\ MaxFaults \in Nat

VARIABLES
    \* The backend.
    deleted,      \* the tombstone of the document's root entry
    claimed,      \* another active root entry has the same path
    window,       \* the row of document_reverse_windows
    expired,      \* reverse_until of the row has passed
    content,      \* the writes in the backend's copy of the document
    late,         \* requests nobody waits for any more
    \* Each origin.
    file,         \* the file at the document's path, or Absent
    captured,     \* the writes in the local copy of the document
    mirror,       \* the local copy of the root document
    projected,    \* the root projection holds the entry as active
    tracked,      \* the file has been there since it was tracked
    intent,       \* the row of root_local_delete_intents
    pc,           \* where the reconcile loop waits
    seen,         \* the file observed before that wait
    reply,        \* the answer that has arrived, if any
    ops,          \* operation ids drawn
    \* The environment.
    writes, deletes, others, faults

backend == <<deleted, claimed, window, expired, content, late>>
disk    == <<file, captured, tracked>>
root    == <<mirror, projected>>
loop    == <<intent, pc, seen, reply, ops>>
env     == <<writes, deletes, others, faults>>
vars    == <<backend, disk, root, loop, env>>

Absent == -1
Versions == 0 .. MaxWrites

Accepted == {"window_open", "content_syncing", "restore_pending", "projection_pending"}
Phases == Accepted \union {"none", "tombstone_pending"}
Statuses == {"none", "accepted", "replayed", "conflict", "refused", "gone", "unproven"}

Root == [deleted |-> deleted, claimed |-> claimed]
NoWindow == [gen |-> 0, origin |-> NoOne, op |-> 0, consumed |-> FALSE, restore |-> 0]
NoReply == [status |-> "none", gen |-> 0]

(* The columns of an intent that a phase does not use are null. *)
Row(phase, op, expected) ==
    [phase |-> phase, op |-> op, expected |-> expected, tried |-> FALSE, gen |-> 0,
     restore |-> 0, observed |-> Absent, frontier |-> {}, overdue |-> FALSE]
NoIntent == Row("none", 0, 0)

Requests ==
    [kind : {"open", "consume"}, origin : Origins, op : Nat, gen : Nat,
     restore : Nat, frontier : SUBSET Versions]

(* Types, and the states of the loop that a phase admits. *)
TypeOK ==
    /\ deleted \in BOOLEAN /\ claimed \in BOOLEAN /\ expired \in BOOLEAN
    /\ window \in [gen : Nat, origin : Origins \union {NoOne}, op : Nat,
                   consumed : BOOLEAN, restore : Nat]
    /\ content \in SUBSET Versions
    /\ late \subseteq Requests
    /\ file \in [Origins -> Versions \union {Absent}]
    /\ captured \in [Origins -> SUBSET Versions]
    /\ mirror \in [Origins -> [deleted : BOOLEAN, claimed : BOOLEAN]]
    /\ projected \in [Origins -> BOOLEAN] /\ tracked \in [Origins -> BOOLEAN]
    /\ intent \in [Origins -> [phase : Phases, op : Nat, expected : Nat, tried : BOOLEAN,
                               gen : Nat, restore : Nat, observed : Versions \union {Absent},
                               frontier : SUBSET Versions, overdue : BOOLEAN]]
    /\ pc \in [Origins -> {"idle", "opening", "observed", "awaiting", "consuming", "projecting",
                         "finalizing"}]
    /\ seen \in [Origins -> Versions \union {Absent}]
    /\ reply \in [Origins -> [status : Statuses, gen : Nat]]
    /\ ops \in [Origins -> Nat]
    /\ writes \in 0 .. MaxWrites /\ deletes \in 0 .. MaxDeletes
    /\ others \in 0 .. MaxOthers /\ faults \in 0 .. MaxFaults

(* Every origin has projected the document and captured its first content. *)
Init ==
    /\ deleted = FALSE /\ claimed = FALSE /\ expired = FALSE
    /\ window = NoWindow
    /\ content = {0} /\ late = {}
    /\ file = [o \in Origins |-> 0]
    /\ captured = [o \in Origins |-> {0}]
    /\ mirror = [o \in Origins |-> Root]
    /\ projected = [o \in Origins |-> TRUE]
    /\ tracked = [o \in Origins |-> TRUE]
    /\ intent = [o \in Origins |-> NoIntent]
    /\ pc = [o \in Origins |-> "idle"]
    /\ seen = [o \in Origins |-> Absent]
    /\ reply = [o \in Origins |-> NoReply]
    /\ ops = [o \in Origins |-> 0]
    /\ writes = 0 /\ deletes = 0 /\ others = 0 /\ faults = 0
-----------------------------------------------------------------------------
(* The backend's transactions. *)

(* Mutant: any request of the origin counts as already carried out. *)
HeldByOrigin(r) == window.gen > 0 /\ window.origin = r.origin

(* The row carries the request's origin and tombstone operation. *)
Held(r) == window.gen > 0 /\ window.origin = r.origin /\ window.op = r.op

(* The request restores what the row says was restored. *)
Restored(r) == window.consumed /\ window.gen = r.gen /\ window.restore = r.restore

(* Mutant: the expected generation is not compared. *)
OpenUncompared(r) ==
    IF Held(r) THEN "replayed" ELSE IF deleted THEN "refused" ELSE "accepted"

(* The early returns of OpenOrReplaceReverseWindow, in their order. *)
OpenStatus(r) ==
    IF Held(r) THEN "replayed"
    ELSE IF r.gen # window.gen THEN "conflict"
    ELSE IF deleted THEN "refused"
    ELSE "accepted"

OpenOrReplaceReverseWindow(r) ==
    \/ /\ OpenStatus(r) = "accepted"
       /\ deleted' = TRUE
       /\ window' = [gen |-> window.gen + 1, origin |-> r.origin, op |-> r.op,
                     consumed |-> FALSE, restore |-> 0]
       /\ expired' = FALSE
    \/ /\ OpenStatus(r) # "accepted"
       /\ UNCHANGED <<deleted, window, expired>>

(* Mutant: nobody looks whether the window has been consumed. *)
ConsumeAgain(r) ==
    IF ~Held(r) \/ window.gen # r.gen THEN "refused"
    ELSE IF expired THEN "gone"
    ELSE IF ~(r.frontier \subseteq content) THEN "unproven"
    ELSE IF ~deleted \/ claimed THEN "refused"
    ELSE "accepted"

(* The early returns of ConsumeReverseWindow, in their order. *)
ConsumeStatus(r) ==
    IF ~Held(r) THEN "refused"
    ELSE IF Restored(r) THEN "replayed"
    ELSE IF window.consumed \/ window.gen # r.gen THEN "refused"
    ELSE IF expired THEN "gone"
    ELSE IF ~(r.frontier \subseteq content) THEN "unproven"
    ELSE IF ~deleted \/ claimed THEN "refused"
    ELSE "accepted"

ConsumeReverseWindow(r) ==
    \/ /\ ConsumeStatus(r) = "accepted"
       /\ deleted' = FALSE
       /\ window' = [window EXCEPT !.consumed = TRUE, !.restore = r.restore]
       /\ UNCHANGED expired
    \/ /\ ConsumeStatus(r) # "accepted"
       /\ UNCHANGED <<deleted, window, expired>>

(* What an origin that waits for an answer has asked. *)
Request(o) ==
    IF pc[o] = "opening"
    THEN [kind |-> "open", origin |-> o, op |-> intent[o].op, gen |-> intent[o].expected,
          restore |-> 0, frontier |-> {}]
    ELSE [kind |-> "consume", origin |-> o, op |-> intent[o].op, gen |-> intent[o].gen,
          restore |-> intent[o].restore, frontier |-> intent[o].frontier]

Unanswered(o) == pc[o] \in {"opening", "consuming"} /\ reply[o] = NoReply

(* The generation in an answer is the row's: the one just accepted, the one *)
(* accepted before, or the one in the way.                                  *)
Answered(o, status) ==
    reply' = [reply EXCEPT ![o] = [status |-> status, gen |-> window'.gen]]

HandleOpen(o) ==
    /\ Unanswered(o) /\ pc[o] = "opening"
    /\ OpenOrReplaceReverseWindow(Request(o))
    /\ Answered(o, OpenStatus(Request(o)))
    /\ UNCHANGED <<claimed, content, late, disk, root, intent, pc, seen, ops, env>>

HandleConsume(o) ==
    /\ Unanswered(o) /\ pc[o] = "consuming"
    /\ ConsumeReverseWindow(Request(o))
    /\ Answered(o, ConsumeStatus(Request(o)))
    /\ UNCHANGED <<claimed, content, late, disk, root, intent, pc, seen, ops, env>>

(* A request arrives after its sender has given up. *)
HandleLate(r) ==
    /\ r \in late
    /\ late' = late \ {r}
    /\ \/ r.kind = "open" /\ OpenOrReplaceReverseWindow(r)
       \/ r.kind = "consume" /\ ConsumeReverseWindow(r)
    /\ UNCHANGED <<claimed, content, disk, root, loop, env>>

(* The deadline of an open window passes on the backend's clock. *)
Expire ==
    /\ window.gen > 0 /\ ~window.consumed /\ ~expired
    /\ expired' = TRUE
    /\ UNCHANGED <<deleted, claimed, window, content, late, disk, root, loop, env>>

(* The document's socket carries local updates to the backend. *)
Deliver(o) ==
    /\ content' = content \union captured[o]
    /\ UNCHANGED <<deleted, claimed, window, expired, late, disk, root, loop, env>>
-----------------------------------------------------------------------------
(* The transitions of an intent's row; each is one SQLite statement or      *)
(* transaction that requires the row to be as its caller loaded it.         *)

BeginRow(op) == Row("tombstone_pending", op, 0)
AttemptedRow(row) == [row EXCEPT !.tried = TRUE]

(* Never the same operation with another expected generation. *)
ConflictRow(op, gen) == Row("tombstone_pending", op, gen)
AcceptedRow(row, gen) == [row EXCEPT !.phase = "window_open", !.tried = FALSE, !.gen = gen]
RestoringRow(row, op, version) ==
    [row EXCEPT !.phase = "content_syncing", !.restore = op, !.observed = version]

(* A new observation voids the proof but keeps the restore operation. *)
ObservedRow(row, version) ==
    [row EXCEPT !.phase = "content_syncing", !.observed = version, !.frontier = {}]
ReadyRow(row, frontier) == [row EXCEPT !.phase = "restore_pending", !.frontier = frontier]
ProjectingRow(row) == [row EXCEPT !.phase = "projection_pending"]
MergedRow(row, version) == [row EXCEPT !.observed = version]
AbsenceRow(op, gen) == Row("tombstone_pending", op, gen)
-----------------------------------------------------------------------------
(* The daemon of an origin: one pass of its loop at a time. *)

Idle(o, phase) == pc[o] = "idle" /\ intent[o].phase = phase
Become(o, row) == intent' = [intent EXCEPT ![o] = row]
Goto(o, place) == pc' = [pc EXCEPT ![o] = place]
Draw(o) == ops' = [ops EXCEPT ![o] = ops[o] + 1]
Forget(o) == seen' = [seen EXCEPT ![o] = Absent]
Done(o) == /\ Goto(o, "idle")
           /\ reply' = [reply EXCEPT ![o] = NoReply]

(* beginSemanticRootLocalDelete: a tracked file is gone. *)
BeginDelete(o) ==
    /\ Idle(o, "none")
    /\ file[o] = Absent /\ tracked[o] /\ projected[o]
    /\ Become(o, BeginRow(ops[o] + 1))
    /\ Draw(o)
    /\ UNCHANGED <<backend, disk, root, pc, seen, reply, env>>

(* The file is back before the first request: the deletion is forgotten. *)
CancelDelete(o) ==
    /\ Idle(o, "tombstone_pending") /\ ~intent[o].tried /\ file[o] # Absent
    /\ Become(o, NoIntent)
    /\ UNCHANGED <<backend, disk, root, pc, seen, reply, ops, env>>

SendOpen(o) ==
    /\ Idle(o, "tombstone_pending") /\ (intent[o].tried \/ file[o] = Absent)
    /\ Become(o, AttemptedRow(intent[o]))
    /\ Goto(o, "opening")
    /\ UNCHANGED <<backend, disk, root, seen, reply, ops, env>>

AcceptWindow(o) ==
    /\ pc[o] = "opening" /\ reply[o].status \in {"accepted", "replayed"}
    /\ Become(o, AcceptedRow(intent[o], reply[o].gen))
    /\ Done(o)
    /\ UNCHANGED <<backend, disk, root, seen, ops, env>>

ReplaceAfterConflict(o) ==
    /\ pc[o] = "opening" /\ reply[o].status = "conflict"
    /\ Become(o, ConflictRow(ops[o] + 1, reply[o].gen))
    /\ Draw(o)
    /\ Done(o)
    /\ UNCHANGED <<backend, disk, root, seen, env>>

(* Errors are returned and the whole request is repeated in a later pass:   *)
(* a refused tombstone, and a restore whose content has not arrived.        *)
RetryLater(o) ==
    /\ \/ pc[o] = "opening" /\ reply[o].status = "refused"
       \/ pc[o] = "consuming" /\ reply[o].status = "unproven"
    /\ Done(o)
    /\ UNCHANGED <<backend, disk, root, intent, seen, ops, env>>

(* finalizeRootLocalDeleteIntent: the decision, and after it the end of the *)
(* intent. What is at the path by then goes to the recovery directory,      *)
(* unless the path belongs to another document.                             *)
Decide(o, reason) ==
    /\ Goto(o, "finalizing")
    /\ reply' = [reply EXCEPT ![o] = [status |-> reason, gen |-> 0]]
    /\ UNCHANGED <<backend, disk, root, intent, seen, ops, env>>

FinalizeIntent(o) ==
    /\ pc[o] \in {"finalizing", "consuming"} /\ reply[o].status \in {"gone", "refused"}
    /\ file' = [file EXCEPT ![o] =
                  IF reply[o].status = "refused" /\ mirror[o].claimed THEN file[o] ELSE Absent]
    /\ Become(o, NoIntent)
    /\ Done(o)
    /\ UNCHANGED <<backend, captured, tracked, root, seen, ops, env>>

(* reconcileOpenRootDeleteWindow *)
CloseWindow(o) ==
    /\ Idle(o, "window_open")
    /\ \/ file[o] # Absent /\ mirror[o].claimed /\ Decide(o, "refused")
       \/ file[o] = Absent /\ intent[o].overdue /\ Decide(o, "gone")

BeginRestore(o) ==
    /\ Idle(o, "window_open") /\ file[o] # Absent /\ ~mirror[o].claimed
    /\ Become(o, RestoringRow(intent[o], ops[o] + 1, file[o]))
    /\ Draw(o)
    /\ UNCHANGED <<backend, disk, root, pc, seen, reply, env>>

(* Mutant: the deadline is not checked while content is synchronised. *)
CloseClaimedContent(o) ==
    /\ Idle(o, "content_syncing")
    /\ mirror[o].claimed /\ Decide(o, "refused")

(* reconcileRootDeleteContent *)
CloseContent(o) ==
    /\ Idle(o, "content_syncing")
    /\ \/ intent[o].overdue /\ Decide(o, "gone")
       \/ ~intent[o].overdue /\ mirror[o].claimed /\ Decide(o, "refused")

ObserveContent(o) ==
    /\ Idle(o, "content_syncing") /\ ~intent[o].overdue /\ ~mirror[o].claimed
    /\ file[o] # Absent
    /\ Become(o, ObservedRow(intent[o], file[o]))
    /\ seen' = [seen EXCEPT ![o] = file[o]]
    /\ Goto(o, "observed")
    /\ UNCHANGED <<backend, disk, root, reply, ops, env>>

(* Mutant: a file that has gone is captured like any other. *)
CaptureMissing(o) ==
    /\ pc[o] = "observed"
    /\ captured' = [captured EXCEPT ![o] = captured[o] \union {file[o]}]
    /\ Goto(o, "awaiting")
    /\ UNCHANGED <<backend, file, tracked, root, intent, seen, reply, ops, env>>

(* reconcileDocumentIDs captures the file as it is now, not as observed. *)
CaptureContent(o) ==
    /\ pc[o] = "observed"
    /\ captured' = [captured EXCEPT ![o] = captured[o] \union ({file[o]} \ {Absent})]
    /\ Goto(o, "awaiting")
    /\ UNCHANGED <<backend, file, tracked, root, intent, seen, reply, ops, env>>

(* Mutant: the content is taken for proven when it has been sent. *)
ContentSent(o) ==
    /\ pc[o] = "awaiting" /\ file[o] = seen[o]
    /\ \/ /\ intent[o].phase = "content_syncing"
          /\ Become(o, ReadyRow(intent[o], captured[o]))
          /\ Goto(o, "idle")
       \/ /\ intent[o].phase = "projection_pending"
          /\ Become(o, MergedRow(intent[o], file[o]))
          /\ Goto(o, "projecting")
    /\ Forget(o)
    /\ UNCHANGED <<backend, disk, root, reply, ops, env>>

(* awaitBackendStateVector has returned and the file is looked at again. *)
ContentProven(o) ==
    /\ pc[o] = "awaiting" /\ captured[o] \subseteq content /\ file[o] = seen[o]
    /\ \/ /\ intent[o].phase = "content_syncing"
          /\ Become(o, ReadyRow(intent[o], captured[o]))
          /\ Goto(o, "idle")
       \/ /\ intent[o].phase = "projection_pending"
          /\ Become(o, MergedRow(intent[o], file[o]))
          /\ Goto(o, "projecting")
    /\ Forget(o)
    /\ UNCHANGED <<backend, disk, root, reply, ops, env>>

ContentMoved(o) ==
    /\ pc[o] = "awaiting" /\ captured[o] \subseteq content /\ file[o] # seen[o]
    /\ Become(o, IF intent[o].phase = "content_syncing" /\ file[o] # Absent
                 THEN ObservedRow(intent[o], file[o])
                 ELSE intent[o])
    /\ Goto(o, "idle")
    /\ Forget(o)
    /\ UNCHANGED <<backend, disk, root, reply, ops, env>>

(* reconcilePendingRootRestore *)
CloseRestore(o) ==
    /\ Idle(o, "restore_pending")
    /\ \/ mirror[o].claimed /\ Decide(o, "refused")
       \/ ~mirror[o].claimed /\ file[o] = Absent /\ intent[o].overdue /\ Decide(o, "gone")

(* Mutant: changed content starts a restore of its own. *)
RestartRestore(o) ==
    /\ Idle(o, "restore_pending") /\ ~mirror[o].claimed
    /\ file[o] \notin {Absent, intent[o].observed}
    /\ Become(o, [ObservedRow(intent[o], file[o]) EXCEPT !.restore = ops[o] + 1])
    /\ Draw(o)
    /\ UNCHANGED <<backend, disk, root, pc, seen, reply, env>>

RefreshObservation(o) ==
    /\ Idle(o, "restore_pending") /\ ~mirror[o].claimed
    /\ file[o] \notin {Absent, intent[o].observed}
    /\ Become(o, ObservedRow(intent[o], file[o]))
    /\ UNCHANGED <<backend, disk, root, pc, seen, reply, ops, env>>

SendConsume(o) ==
    /\ Idle(o, "restore_pending") /\ ~mirror[o].claimed
    /\ file[o] = intent[o].observed
    /\ Goto(o, "consuming")
    /\ UNCHANGED <<backend, disk, root, intent, seen, reply, ops, env>>

AcceptRestore(o) ==
    /\ pc[o] = "consuming" /\ reply[o].status \in {"accepted", "replayed"}
    /\ Become(o, ProjectingRow(intent[o]))
    /\ Done(o)
    /\ UNCHANGED <<backend, disk, root, seen, ops, env>>
-----------------------------------------------------------------------------
(* reconcileRootNamespace, on the root updates m that have arrived. *)

Restoring(o, m) == intent[o].phase = "projection_pending" /\ ~m.deleted

Mirrored(o, m) == mirror' = [mirror EXCEPT ![o] = m]

(* prepareRootReverseProjection: the restored file is gone again. *)
ReplaceAfterAbsence(o, m) ==
    /\ pc[o] = "idle" /\ Restoring(o, m) /\ file[o] = Absent
    /\ Mirrored(o, m)
    /\ Become(o, AbsenceRow(ops[o] + 1, intent[o].gen))
    /\ Draw(o)
    /\ UNCHANGED <<backend, disk, projected, pc, seen, reply, env>>

(* The restored file has changed: its content is merged first. *)
MergeContent(o, m) ==
    /\ pc[o] = "idle" /\ Restoring(o, m) /\ file[o] \notin {Absent, intent[o].observed}
    /\ Mirrored(o, m)
    /\ seen' = [seen EXCEPT ![o] = file[o]]
    /\ Goto(o, "observed")
    /\ UNCHANGED <<backend, disk, projected, intent, reply, ops, env>>

PrepareProjection(o, m) ==
    /\ pc[o] = "idle" /\ Restoring(o, m) /\ file[o] = intent[o].observed
    /\ Mirrored(o, m)
    /\ Goto(o, "projecting")
    /\ UNCHANGED <<backend, disk, projected, intent, seen, reply, ops, env>>

(* The projection is stored; with it goes the intent, if the file is still  *)
(* the one that was proven.                                                 *)
StoreProjection(o) ==
    /\ pc[o] = "projecting"
    /\ projected' = [projected EXCEPT ![o] = TRUE]
    /\ Become(o, IF file[o] = intent[o].observed THEN NoIntent ELSE intent[o])
    /\ Goto(o, "idle")
    /\ UNCHANGED <<backend, disk, mirror, seen, reply, ops, env>>

(* Without a restore to project: a removed entry takes its file along,      *)
(* unless an intent holds on to it (projectRootRemovedEntry); a clean file  *)
(* is deleted and any other archived.                                       *)
ProjectRoot(o, m) ==
    /\ pc[o] = "idle" /\ ~Restoring(o, m)
    /\ Mirrored(o, m)
    /\ projected' = [projected EXCEPT ![o] = ~m.deleted]
    /\ LET removed == projected[o] /\ m.deleted /\ intent[o].phase = "none"
       IN  /\ file' = [file EXCEPT ![o] = IF removed THEN Absent ELSE file[o]]
           /\ tracked' = [tracked EXCEPT ![o] = tracked[o] /\ ~removed]
    /\ UNCHANGED <<backend, captured, loop, env>>

ReconcileRootNamespace(o, m) ==
    ReplaceAfterAbsence(o, m) \/ MergeContent(o, m) \/ PrepareProjection(o, m)
        \/ ProjectRoot(o, m)

(* An active document without a file is written to disk. *)
Materialize(o) ==
    /\ Idle(o, "none") /\ projected[o] /\ ~tracked[o]
    /\ file' = [file EXCEPT ![o] = IF file[o] = Absent THEN 0 ELSE file[o]]
    /\ tracked' = [tracked EXCEPT ![o] = TRUE]
    /\ UNCHANGED <<backend, captured, root, loop, env>>

(* reverse_until passes on the daemon's clock, which need not be the        *)
(* backend's.                                                               *)
Overdue(o) ==
    /\ intent[o].phase \in Accepted \ {"projection_pending"} /\ ~intent[o].overdue
    /\ Become(o, [intent[o] EXCEPT !.overdue = TRUE])
    /\ UNCHANGED <<backend, disk, root, pc, seen, reply, ops, env>>
-----------------------------------------------------------------------------
(* Users, browsers and faults. *)

UserDelete(o) ==
    /\ deletes < MaxDeletes /\ file[o] # Absent
    /\ deletes' = deletes + 1
    /\ file' = [file EXCEPT ![o] = Absent]
    /\ UNCHANGED <<backend, captured, tracked, root, loop, writes, others, faults>>

UserWrite(o) ==
    /\ writes < MaxWrites
    /\ writes' = writes + 1
    /\ file' = [file EXCEPT ![o] = writes + 1]
    /\ UNCHANGED <<backend, captured, tracked, root, loop, deletes, others, faults>>

(* A browser deletes the document, or puts another one at its path. *)
BrowserDelete ==
    /\ others < MaxOthers /\ ~deleted
    /\ others' = others + 1
    /\ deleted' = TRUE
    /\ UNCHANGED <<claimed, window, expired, content, late, disk, root, loop,
                   writes, deletes, faults>>

BrowserClaim ==
    /\ others < MaxOthers /\ ~claimed
    /\ others' = others + 1
    /\ claimed' = TRUE
    /\ UNCHANGED <<deleted, window, expired, content, late, disk, root, loop,
                   writes, deletes, faults>>

(* An answer is lost, a wait fails or the daemon is started anew: the pass  *)
(* ends, and what it has asked may still arrive.                            *)
Abandon(o) ==
    /\ faults < MaxFaults /\ pc[o] # "idle"
    /\ faults' = faults + 1
    /\ late' = late \union (IF Unanswered(o) THEN {Request(o)} ELSE {})
    /\ Done(o)
    /\ Forget(o)
    /\ UNCHANGED <<deleted, claimed, window, expired, content, disk, root, intent, ops,
                   writes, deletes, others>>
-----------------------------------------------------------------------------
Drive(o) ==
    \/ BeginDelete(o) \/ CancelDelete(o) \/ SendOpen(o) \/ AcceptWindow(o)
    \/ ReplaceAfterConflict(o) \/ RetryLater(o)
    \/ CloseWindow(o) \/ BeginRestore(o)
    \/ CloseContent(o) \/ ObserveContent(o) \/ CaptureContent(o)
    \/ ContentProven(o) \/ ContentMoved(o)
    \/ CloseRestore(o) \/ RefreshObservation(o) \/ SendConsume(o)
    \/ AcceptRestore(o) \/ FinalizeIntent(o)
    \/ StoreProjection(o) \/ Materialize(o)

Handle(o) == HandleOpen(o) \/ HandleConsume(o)

Reconcile(o) == \E m \in {mirror[o], Root} : ReconcileRootNamespace(o, m)

Next ==
    \/ \E o \in Origins :
          Drive(o) \/ Handle(o) \/ Reconcile(o) \/ Deliver(o) \/ Overdue(o)
             \/ UserDelete(o) \/ UserWrite(o) \/ Abandon(o)
    \/ \E r \in late : HandleLate(r)
    \/ Expire \/ BrowserDelete \/ BrowserClaim

Spec == Init /\ [][Next]_vars

(* The loop runs, the backend answers, the sockets deliver, clocks advance. *)
(* Every pass of the loop reconciles the intents and then the root, so the  *)
(* root gets its turn although requests are repeated in between.            *)
FairSpec ==
    /\ Spec
    /\ WF_vars(Expire)
    /\ \A o \in Origins :
          /\ WF_vars(Drive(o)) /\ WF_vars(Handle(o)) /\ WF_vars(Deliver(o))
          /\ WF_vars(Overdue(o)) /\ SF_vars(ReconcileRootNamespace(o, Root))
-----------------------------------------------------------------------------
(* The phase a daemon has persisted and the row the backend has persisted   *)
(* tell the same story, whatever was lost in between: an accepted intent of *)
(* the current generation is the owner of the row, and one that waits for   *)
(* its projection has consumed it (acceptRootLocalDeleteWindow,             *)
(* markRootLocalDeleteProjectionPending).                                   *)
WindowAgrees ==
    \A o \in Origins :
        /\ intent[o].gen <= window.gen
        /\ intent[o].phase \in Accepted /\ intent[o].gen = window.gen
              => window.origin = o /\ window.op = intent[o].op
        /\ intent[o].phase = "projection_pending" /\ intent[o].gen = window.gen
              => window.consumed /\ window.restore = intent[o].restore

(* A restore that was carried out, its answer lost, is asked for again      *)
(* under the same restore operation, however the file has changed since:    *)
(* the backend recognises it instead of refusing it, and a refusal would    *)
(* send the restored file to the archive (ConsumeReverseWindow).            *)
ReplayRecognised ==
    \A o \in Origins :
        Held([origin |-> o, op |-> intent[o].op]) /\ window.consumed
            => intent[o].restore = window.restore

(* A document is brought back only with the bytes that are back on disk: a  *)
(* daemon that restores it has observed a file whose content the backend    *)
(* has (reconcileRootDeleteContent, updateRootLocalDeleteObservation).      *)
RestoreProven ==
    \A o \in Origins :
        intent[o].phase \in {"restore_pending", "projection_pending"}
            => /\ intent[o].observed \in content
               /\ intent[o].frontier \subseteq content

(* A tombstone is undone by consuming the open window of the current        *)
(* generation, once; no repeated, late or foreign request brings back a     *)
(* document that somebody has deleted since (ConsumeReverseWindow).         *)
UndoneOnce ==
    [][deleted /\ ~deleted'
          => /\ ~window.consumed /\ ~expired
             /\ window' = [window EXCEPT !.consumed = TRUE, !.restore = window'.restore]]_vars

(* A new generation is the deletion its owner still wants: a request that   *)
(* arrives late never deletes a document on behalf of an intent that has    *)
(* moved on to another operation (OpenOrReplaceReverseWindow).              *)
NoStrayTombstone ==
    [][window'.gen # window.gen
          => /\ window'.gen = window.gen + 1
             /\ intent[window'.origin].phase = "tombstone_pending"
             /\ intent[window'.origin].op = window'.op]_vars

(* Something else than the intent's own window keeps the document deleted. *)
DeletedElsewhere(o) ==
    deleted /\ ~(Held([origin |-> o, op |-> intent[o].op]) /\ ~window.consumed)

(* All intents end, in spite of lost answers and restarts, except where     *)
(* another deletion of the document stands                                  *)
(* (reconcileRootLocalDeleteIntents).                                       *)
EventuallyResolved ==
    (\E o \in Origins : intent[o].phase # "none")
        ~> \A o \in Origins : intent[o].phase = "none" \/ DeletedElsewhere(o)
=============================================================================
