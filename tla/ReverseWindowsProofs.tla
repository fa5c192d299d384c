------------------------ MODULE ReverseWindowsProofs ------------------------
(***************************************************************************)
(* Proofs about ReverseWindows, for any set of origins and any bounds.     *)
(* The inductive invariant is one predicate per origin (Local); a step of  *)
(* an origin leaves the others' alone (Frame), and what a transaction of   *)
(* the backend does to everybody's is shown once for each of the two       *)
(* (Opened, Consumed).                                                     *)
(***************************************************************************)
EXTENDS ReverseWindows, TLAPS

Files == Versions \union {Absent}
Places == {"idle", "opening", "observed", "awaiting", "consuming", "projecting", "finalizing"}
Replies == [status : Statuses, gen : Nat]
Windows == [gen : Nat, origin : Origins \union {NoOne}, op : Nat, consumed : BOOLEAN,
            restore : Nat]
Intents ==
    [phase : Phases, op : Nat, expected : Nat, tried : BOOLEAN, gen : Nat, restore : Nat,
     observed : Files, frontier : SUBSET Versions, overdue : BOOLEAN]

(* Where the loop waits fits the phase it has persisted; an answer is there *)
(* only while one is expected; restore ids come with the restore.           *)
Shape(o) ==
    /\ pc[o] = "opening" => intent[o].phase = "tombstone_pending" /\ intent[o].tried
    /\ pc[o] \in {"observed", "awaiting"}
          => intent[o].phase \in {"content_syncing", "projection_pending"}
    /\ pc[o] = "consuming" => intent[o].phase = "restore_pending"
    /\ pc[o] = "projecting" => intent[o].phase = "projection_pending"
    /\ pc[o] = "finalizing"
          => intent[o].phase \in {"window_open", "content_syncing", "restore_pending"}
    /\ pc[o] \in {"idle", "observed", "awaiting", "projecting"} => reply[o] = NoReply
    /\ intent[o].phase = "none" => intent[o].op = 0
    /\ intent[o].phase # "none" => intent[o].op > 0
    /\ intent[o].phase \in {"none", "tombstone_pending", "window_open"}
          => intent[o].restore = 0
    /\ intent[o].phase \in {"content_syncing", "restore_pending", "projection_pending"}
          => intent[o].restore > 0

(* Operation ids in use have been drawn by their origin. *)
Drawn(o) ==
    /\ intent[o].op <= ops[o]
    /\ window.gen > 0 /\ window.origin = o => window.op > 0 /\ window.op <= ops[o]
    /\ window.consumed => window.restore > 0
    /\ \A r \in late : r.origin = o =>
          /\ r.op > 0 /\ r.op <= ops[o]
          /\ r.kind = "consume" => r.restore > 0

(* Nobody knows a generation that the backend has not reached. *)
Generations(o) ==
    /\ intent[o].gen <= window.gen /\ intent[o].expected <= window.gen
    /\ reply[o].gen <= window.gen
    /\ \A r \in late : r.origin = o => r.gen <= window.gen

Owns(o) == window.gen > 0 /\ window.origin = o /\ window.op = intent[o].op

(* What an answer that is on its way still says about the row. *)
Answers(o) ==
    /\ pc[o] = "opening" /\ reply[o].status \in {"accepted", "replayed"}
          => \/ Owns(o)
             \/ reply[o].gen < window.gen /\ intent[o].expected < window.gen
    /\ pc[o] = "opening" /\ reply[o].status = "conflict"
          => intent[o].expected < window.gen
    /\ pc[o] = "consuming" /\ reply[o].status \in {"accepted", "replayed"}
             /\ intent[o].gen = window.gen
          => window.consumed /\ window.restore = intent[o].restore

(* A late request has been carried out, is outdated or is still wanted. *)
LateRequests(o) ==
    \A r \in late : r.origin = o =>
        /\ r.kind = "open"
              => \/ Held(r)
                 \/ r.gen < window.gen
                 \/ /\ intent[o].phase = "tombstone_pending" /\ intent[o].tried
                    /\ intent[o].op = r.op /\ intent[o].expected = r.gen
        /\ r.kind = "consume" /\ r.op = intent[o].op => r.restore = intent[o].restore

(* A file that still is the observed one has been captured as such. *)
Observations(o) ==
    /\ file[o] <= writes
    /\ pc[o] \in {"observed", "awaiting"}
          => /\ seen[o] # Absent /\ seen[o] <= writes
             /\ intent[o].phase = "content_syncing" => intent[o].observed = seen[o]
    /\ pc[o] = "awaiting" /\ file[o] = seen[o] => seen[o] \in captured[o]

(* The properties of the specification, for one origin. *)
Agrees(o) ==
    /\ intent[o].phase \in Accepted /\ intent[o].gen = window.gen
          => window.origin = o /\ window.op = intent[o].op
    /\ intent[o].phase = "projection_pending" /\ intent[o].gen = window.gen
          => window.consumed /\ window.restore = intent[o].restore

Recognised(o) ==
    window.gen > 0 /\ window.origin = o /\ window.op = intent[o].op /\ window.consumed
        => intent[o].restore = window.restore

Proven(o) ==
    intent[o].phase \in {"restore_pending", "projection_pending"}
        => intent[o].observed \in content /\ intent[o].frontier \subseteq content

Local(o) ==
    /\ Shape(o) /\ Drawn(o) /\ Generations(o) /\ Answers(o) /\ LateRequests(o)
    /\ Observations(o) /\ Agrees(o) /\ Recognised(o) /\ Proven(o)

IInv == TypeOK /\ \A o \in Origins : Local(o)

(* The parts of the invariant add up to the properties of the specification. *)
LEMMA InvariantImplies ==
    IInv => TypeOK /\ WindowAgrees /\ ReplayRecognised /\ RestoreProven
  <1> USE DEF IInv, Local
  <1>1. IInv => WindowAgrees
    BY DEF WindowAgrees, Agrees, Generations
  <1>2. IInv => ReplayRecognised
    BY DEF ReplayRecognised, Recognised, Held
  <1>3. IInv => RestoreProven
    BY DEF RestoreProven, Proven
  <1> QED
    BY <1>1, <1>2, <1>3
-----------------------------------------------------------------------------
(* The rows of an intent. *)

(* A row without restore. *)
Fresh(row, phase, op, expected) ==
    /\ row \in Intents
    /\ row.phase = phase /\ row.op = op /\ row.expected = expected
    /\ row.gen = 0 /\ row.restore = 0

(* The new row is the old one, in another phase. *)
Moved(row, old, phase) ==
    /\ row \in Intents
    /\ row.phase = phase /\ row.op = old.op /\ row.expected = old.expected

(* Rows of a new operation. *)
LEMMA FreshRows ==
    /\ Fresh(NoIntent, "none", 0, 0)
    /\ \A op \in Nat : Fresh(BeginRow(op), "tombstone_pending", op, 0)
    /\ \A op, gen \in Nat : Fresh(ConflictRow(op, gen), "tombstone_pending", op, gen)
    /\ \A op, gen \in Nat : Fresh(AbsenceRow(op, gen), "tombstone_pending", op, gen)
  <1>1. ASSUME NEW phase \in Phases, NEW n \in Nat, NEW e \in Nat
        PROVE  Fresh(Row(phase, n, e), phase, n, e)
    BY DEF Fresh, Row, Intents, Files
  <1>2. "none" \in Phases /\ "tombstone_pending" \in Phases
    BY DEF Phases
  <1> QED
    BY <1>1, <1>2 DEF NoIntent, BeginRow, ConflictRow, AbsenceRow

(* What each transition of a row changes and keeps. *)
LEMMA AttemptedRows ==
    \A row \in Intents :
        LET new == AttemptedRow(row)
        IN  /\ Moved(new, row, row.phase) /\ new.tried
            /\ new.gen = row.gen /\ new.restore = row.restore
            /\ new.observed = row.observed /\ new.frontier = row.frontier
  BY DEF Moved, Intents, Phases, Accepted, AttemptedRow

LEMMA AcceptedRows ==
    \A row \in Intents, n \in Nat :
        LET new == AcceptedRow(row, n)
        IN  /\ Moved(new, row, "window_open")
            /\ new.gen = n /\ new.restore = row.restore
  BY DEF Moved, Intents, Phases, Accepted, AcceptedRow

LEMMA RestoringRows ==
    \A row \in Intents, n \in Nat, version \in Files :
        LET new == RestoringRow(row, n, version)
        IN  /\ Moved(new, row, "content_syncing")
            /\ new.gen = row.gen /\ new.restore = n
  <1> SUFFICES ASSUME NEW row \in Intents, NEW n \in Nat, NEW version \in Files
               PROVE  LET new == RestoringRow(row, n, version)
                      IN  /\ Moved(new, row, "content_syncing")
                          /\ new.gen = row.gen /\ new.restore = n
    OBVIOUS
  <1>1. /\ RestoringRow(row, n, version).gen = row.gen
        /\ RestoringRow(row, n, version).restore = n
    BY DEF Intents, RestoringRow
  <1>2. Moved(RestoringRow(row, n, version), row, "content_syncing")
    BY DEF Moved, Intents, Phases, Accepted, RestoringRow
  <1> QED
    BY <1>1, <1>2

LEMMA ObservedRows ==
    \A row \in Intents, version \in Files :
        LET new == ObservedRow(row, version)
        IN  /\ Moved(new, row, "content_syncing")
            /\ new.gen = row.gen /\ new.restore = row.restore /\ new.observed = version
  BY DEF Moved, Intents, Phases, Accepted, ObservedRow

LEMMA ReadyRows ==
    \A row \in Intents, frontier \in SUBSET Versions :
        LET new == ReadyRow(row, frontier)
        IN  /\ Moved(new, row, "restore_pending")
            /\ new.gen = row.gen /\ new.restore = row.restore
            /\ new.observed = row.observed /\ new.frontier = frontier
  BY DEF Moved, Intents, Phases, Accepted, ReadyRow

LEMMA ProjectingRows ==
    \A row \in Intents :
        LET new == ProjectingRow(row)
        IN  /\ Moved(new, row, "projection_pending")
            /\ new.gen = row.gen /\ new.restore = row.restore
            /\ new.observed = row.observed /\ new.frontier = row.frontier
  BY DEF Moved, Intents, Phases, Accepted, ProjectingRow

LEMMA MergedRows ==
    \A row \in Intents, version \in Files :
        LET new == MergedRow(row, version)
        IN  /\ Moved(new, row, row.phase) /\ new.tried = row.tried
            /\ new.gen = row.gen /\ new.restore = row.restore
            /\ new.observed = version /\ new.frontier = row.frontier
  BY DEF Moved, Intents, Phases, Accepted, MergedRow

LEMMA OverdueRows ==
    \A row \in Intents :
        LET new == [row EXCEPT !.overdue = TRUE]
        IN  /\ Moved(new, row, row.phase) /\ new.tried = row.tried
            /\ new.gen = row.gen /\ new.restore = row.restore
            /\ new.observed = row.observed /\ new.frontier = row.frontier
  BY DEF Moved, Intents, Phases, Accepted

-----------------------------------------------------------------------------
(* Types, by the part of the system. *)

BackendType == window \in Windows /\ content \in SUBSET Versions /\ late \subseteq Requests
FlagType ==
    /\ deleted \in BOOLEAN /\ claimed \in BOOLEAN /\ expired \in BOOLEAN
    /\ mirror \in [Origins -> [deleted : BOOLEAN, claimed : BOOLEAN]]
    /\ projected \in [Origins -> BOOLEAN] /\ tracked \in [Origins -> BOOLEAN]
DiskType == file \in [Origins -> Files] /\ captured \in [Origins -> SUBSET Versions]
LoopType ==
    /\ intent \in [Origins -> Intents] /\ pc \in [Origins -> Places]
    /\ seen \in [Origins -> Files] /\ reply \in [Origins -> Replies]
    /\ ops \in [Origins -> Nat]
EnvType ==
    /\ writes \in 0 .. MaxWrites /\ deletes \in 0 .. MaxDeletes
    /\ others \in 0 .. MaxOthers /\ faults \in 0 .. MaxFaults

(* The type invariant is the conjunction of its parts. *)
LEMMA TypeParts ==
    /\ TypeOK <=> BackendType /\ FlagType /\ DiskType /\ LoopType /\ EnvType
    /\ TypeOK' <=> BackendType' /\ FlagType' /\ DiskType' /\ LoopType' /\ EnvType'
  BY Zenon DEF TypeOK, BackendType, FlagType, DiskType, LoopType, EnvType, Files, Places,
               Intents, Replies, Windows

(* What the types say about single fields. *)
Fields(o) ==
    /\ window.gen \in Nat /\ window.op \in Nat /\ window.restore \in Nat
    /\ intent[o] \in Intents
    /\ intent[o].op \in Nat /\ intent[o].expected \in Nat /\ intent[o].gen \in Nat
    /\ intent[o].restore \in Nat /\ intent[o].observed \in Files
    /\ reply[o].gen \in Nat /\ reply[o].status \in Statuses
    /\ ops[o] \in Nat /\ file[o] \in Files /\ seen[o] \in Files
    /\ captured[o] \in SUBSET Versions /\ writes \in Nat
    /\ \A r \in late : r.origin \in Origins /\ r.op \in Nat /\ r.gen \in Nat /\ r.restore \in Nat

(* Fields follow from the types. *)
LEMMA FieldTypes ==
    ASSUME TypeOK, NEW o \in Origins
    PROVE  Fields(o)
  BY TypeParts, BoundsAssumption
  DEF BackendType, LoopType, DiskType, EnvType, Fields, Intents, Requests, Replies, Windows
-----------------------------------------------------------------------------
(* A step that leaves the window alone and concerns one origin. *)

SameAt(p) ==
    /\ intent'[p] = intent[p] /\ pc'[p] = pc[p] /\ seen'[p] = seen[p]
    /\ reply'[p] = reply[p] /\ ops'[p] = ops[p]
    /\ file'[p] = file[p] /\ captured'[p] = captured[p]

(* An origin that does not move keeps its part of the invariant. *)
LEMMA Frame ==
    ASSUME NEW p \in Origins, Fields(p), Local(p), SameAt(p),
           window' = window, content \subseteq content', writes' = writes \/ writes' = writes + 1,
           \A r \in late' : r.origin = p => r \in late
    PROVE  Local(p)'
  <1> USE DEF SameAt, Local
  <1>1. Shape(p)'
    BY DEF Shape, NoReply
  <1>2. Drawn(p)'
    BY DEF Drawn
  <1>3. Generations(p)'
    BY DEF Generations
  <1>4. Answers(p)'
    BY DEF Answers, Owns
  <1>5. LateRequests(p)'
    BY DEF LateRequests, Held
  <1>6. Observations(p)'
    BY DEF Observations, Fields, Files, Versions, Absent
  <1>7. Agrees(p)'
    BY DEF Agrees
  <1>8. Recognised(p)'
    BY DEF Recognised
  <1>9. Proven(p)'
    BY DEF Proven
  <1> QED
    BY <1>1, <1>2, <1>3, <1>4, <1>5, <1>6, <1>7, <1>8, <1>9
-----------------------------------------------------------------------------
(* The two transactions that change the row, seen by any origin. *)

SameLoop(p) == intent'[p] = intent[p] /\ pc'[p] = pc[p] /\ seen'[p] = seen[p] /\ ops'[p] = ops[p]

(* Everything but the answers, which the caller adds. *)
Silent(o) ==
    /\ Shape(o) /\ Drawn(o) /\ LateRequests(o)
    /\ Observations(o) /\ Agrees(o) /\ Recognised(o) /\ Proven(o)

(* A new generation outdates everything that is known of older ones. *)
LEMMA Opened ==
    ASSUME NEW p \in Origins, Fields(p), Local(p), Shape(p)', SameLoop(p),
           content' = content, late' \subseteq late, file' = file, captured' = captured,
           writes' = writes,
           NEW r \in Requests, r.op > 0, r.origin = p => r.op <= ops[p],
           OpenStatus(r) = "accepted", OpenOrReplaceReverseWindow(r)
    PROVE  /\ window'.gen = window.gen + 1 /\ window'.origin = r.origin /\ window'.op = r.op
           /\ Silent(p)'
           /\ reply'[p] = reply[p] => Local(p)'
  <1> USE DEF SameLoop, Local, Fields
  <1>0. /\ window'.gen = window.gen + 1 /\ window'.origin = r.origin /\ window'.op = r.op
        /\ ~window'.consumed
    BY DEF OpenOrReplaceReverseWindow
  <1>2. Drawn(p)'
    BY <1>0 DEF Drawn
  <1>3. reply'[p] = reply[p] => Generations(p)'
    BY <1>0 DEF Generations
  <1>4. reply'[p] = reply[p] => Answers(p)'
    BY <1>0 DEF Answers, Owns, Generations
  <1>5. LateRequests(p)'
    BY <1>0 DEF LateRequests, Held, Generations
  <1>6. Observations(p)'
    BY DEF Observations
  <1>7. Agrees(p)'
    BY <1>0 DEF Agrees, Generations
  <1>8. Recognised(p)'
    BY <1>0 DEF Recognised
  <1>9. Proven(p)'
    BY DEF Proven
  <1> QED
    BY <1>0, <1>2, <1>3, <1>4, <1>5, <1>6, <1>7, <1>8, <1>9 DEF Silent

(* The row is consumed for the operation that owns it and for no other. *)
LEMMA Consumed ==
    ASSUME NEW p \in Origins, Fields(p), Local(p), Shape(p)', SameLoop(p),
           content' = content, late' \subseteq late, file' = file, captured' = captured,
           writes' = writes,
           window \in Windows,
           NEW r \in Requests, r.restore > 0,
           r.origin = p /\ r.op = intent[p].op => r.restore = intent[p].restore,
           ConsumeStatus(r) = "accepted", ConsumeReverseWindow(r)
    PROVE  /\ window'.gen = window.gen /\ window'.origin = window.origin /\ window'.op = window.op
           /\ ~window.consumed /\ window'.consumed /\ window'.restore = r.restore
           /\ Silent(p)'
           /\ reply'[p] = reply[p] => Local(p)'
  <1> USE DEF SameLoop, Local, Fields
  <1>0. /\ window'.gen = window.gen /\ window'.origin = window.origin /\ window'.op = window.op
        /\ ~window.consumed /\ window'.consumed /\ window'.restore = r.restore
        /\ window.gen > 0 /\ window.origin = r.origin /\ window.op = r.op
    BY DEF ConsumeReverseWindow, ConsumeStatus, Held, Windows
  <1>2. Drawn(p)'
    BY <1>0 DEF Drawn
  <1>3. reply'[p] = reply[p] => Generations(p)'
    BY <1>0 DEF Generations
  <1>4. reply'[p] = reply[p] => Answers(p)'
    BY <1>0 DEF Answers, Owns, Generations
  <1>5. LateRequests(p)'
    BY <1>0 DEF LateRequests, Held, Generations
  <1>6. Observations(p)'
    BY DEF Observations
  <1>7. Agrees(p)'
    BY <1>0 DEF Agrees, Generations
  <1>8. Recognised(p)'
    BY <1>0 DEF Recognised
  <1>9. Proven(p)'
    BY DEF Proven
  <1> QED
    BY <1>0, <1>2, <1>3, <1>4, <1>5, <1>6, <1>7, <1>8, <1>9 DEF Silent

-----------------------------------------------------------------------------
(* One lemma per step of an origin: its effect, and what it does to Local. *)

(* A new intent has an operation nobody has seen and expects no window. *)
LEMMA BeginDeleteStep ==
    ASSUME IInv, NEW o \in Origins, BeginDelete(o)
    PROVE  IInv'
  <1> USE DEF BeginDelete, Idle, Become, Draw, backend, disk, root, env
  <1>1. Local(o) /\ Fields(o)
    BY FieldTypes DEF IInv
  <1>2. /\ Fresh(intent'[o], "tombstone_pending", ops[o] + 1, 0)
        /\ pc'[o] = pc[o] /\ reply'[o] = reply[o]
        /\ ops'[o] = ops[o] + 1
    BY <1>1, TypeParts, FreshRows DEF IInv, LoopType, DiskType, Fields
  <1>3. TypeOK'
    BY <1>1, <1>2, TypeParts
    DEF IInv, LoopType, BackendType, FlagType, DiskType, EnvType, Fields, Places, NoReply,
        Replies, Statuses, Files, Fresh, Moved
  <1>4. ASSUME NEW p \in Origins, p # o PROVE Local(p)'
    <2>1. SameAt(p)
      BY <1>4, TypeParts DEF IInv, LoopType, DiskType, SameAt
    <2> QED
      BY <2>1, Frame, FieldTypes DEF IInv
  <1>5. Local(o)'
    <2> USE <1>1, <1>2 DEF Local, Fields, Fresh, Moved
    <2>1. Shape(o)' /\ Drawn(o)' /\ Generations(o)'
      BY DEF Shape, NoReply, Drawn, Generations
    <2>2. Answers(o)' /\ Observations(o)' /\ Proven(o)'
      BY DEF Answers, Owns, Shape, NoReply, Observations, Absent, Files, Versions, Proven
    <2>3. LateRequests(o)'
      BY DEF LateRequests, Held, Drawn, Shape, Answers, Owns, Generations
    <2>4. Agrees(o)' /\ Recognised(o)'
      BY DEF Agrees, Accepted, Answers, Owns, Generations, Shape, Recognised, Drawn
    <2> QED
      BY <2>1, <2>2, <2>3, <2>4
  <1> QED
    BY <1>3, <1>4, <1>5 DEF IInv

(* Nothing was sent for an intent that is dropped: it was not tried. *)
LEMMA CancelDeleteStep ==
    ASSUME IInv, NEW o \in Origins, CancelDelete(o)
    PROVE  IInv'
  <1> USE DEF CancelDelete, Idle, Become, backend, disk, root, env
  <1>1. Local(o) /\ Fields(o)
    BY FieldTypes DEF IInv
  <1>2. /\ Fresh(intent'[o], "none", 0, 0)
        /\ pc'[o] = pc[o] /\ reply'[o] = reply[o]
    BY <1>1, TypeParts, FreshRows DEF IInv, LoopType, DiskType, Fields
  <1>3. TypeOK'
    BY <1>1, <1>2, TypeParts
    DEF IInv, LoopType, BackendType, FlagType, DiskType, EnvType, Fields, Places, NoReply,
        Replies, Statuses, Files, Fresh, Moved
  <1>4. ASSUME NEW p \in Origins, p # o PROVE Local(p)'
    <2>1. SameAt(p)
      BY <1>4, TypeParts DEF IInv, LoopType, DiskType, SameAt
    <2> QED
      BY <2>1, Frame, FieldTypes DEF IInv
  <1>5. Local(o)'
    <2> USE <1>1, <1>2 DEF Local, Fields, Fresh, Moved
    <2>1. Shape(o)' /\ Drawn(o)' /\ Generations(o)'
      BY DEF Shape, NoReply, Drawn, Generations
    <2>2. Answers(o)' /\ Observations(o)' /\ Proven(o)'
      BY DEF Answers, Owns, Shape, NoReply, Observations, Absent, Files, Versions, Proven
    <2>3. LateRequests(o)'
      BY DEF LateRequests, Held, Drawn, Shape, Answers, Owns, Generations
    <2>4. Agrees(o)' /\ Recognised(o)'
      BY DEF Agrees, Accepted, Answers, Owns, Generations, Shape, Recognised, Drawn
    <2> QED
      BY <2>1, <2>2, <2>3, <2>4
  <1> QED
    BY <1>3, <1>4, <1>5 DEF IInv

(* The attempt is on record before the request leaves. *)
LEMMA SendOpenStep ==
    ASSUME IInv, NEW o \in Origins, SendOpen(o)
    PROVE  IInv'
  <1> USE DEF SendOpen, Idle, Become, Goto, backend, disk, root, env
  <1>1. Local(o) /\ Fields(o)
    BY FieldTypes DEF IInv
  <1>2. /\ Moved(intent'[o], intent[o], intent[o].phase)
        /\ intent'[o].gen = intent[o].gen
        /\ intent'[o].restore = intent[o].restore
        /\ intent'[o].observed = intent[o].observed
        /\ intent'[o].frontier = intent[o].frontier
        /\ intent'[o].tried
        /\ pc'[o] = "opening" /\ reply'[o] = reply[o]
    BY <1>1, TypeParts, AttemptedRows DEF IInv, LoopType, DiskType, Fields
  <1>3. TypeOK'
    BY <1>1, <1>2, TypeParts
    DEF IInv, LoopType, BackendType, FlagType, DiskType, EnvType, Fields, Places, NoReply,
        Replies, Statuses, Files, Fresh, Moved
  <1>4. ASSUME NEW p \in Origins, p # o PROVE Local(p)'
    <2>1. SameAt(p)
      BY <1>4, TypeParts DEF IInv, LoopType, DiskType, SameAt
    <2> QED
      BY <2>1, Frame, FieldTypes DEF IInv
  <1>5. Local(o)'
    <2> USE <1>1, <1>2 DEF Local, Fields, Fresh, Moved
    <2>1. Shape(o)' /\ Drawn(o)' /\ Generations(o)'
      BY DEF Shape, NoReply, Drawn, Generations
    <2>2. Answers(o)' /\ Observations(o)' /\ Proven(o)'
      BY DEF Answers, Owns, Shape, NoReply, Observations, Absent, Files, Versions, Proven
    <2>3. LateRequests(o)'
      BY DEF LateRequests, Held, Drawn, Shape, Answers, Owns, Generations
    <2>4. Agrees(o)' /\ Recognised(o)'
      BY DEF Agrees, Accepted, Answers, Owns, Generations, Shape, Recognised, Drawn
    <2> QED
      BY <2>1, <2>2, <2>3, <2>4
  <1> QED
    BY <1>3, <1>4, <1>5 DEF IInv

(* The answer names the generation that this operation has opened. *)
LEMMA AcceptWindowStep ==
    ASSUME IInv, NEW o \in Origins, AcceptWindow(o)
    PROVE  IInv'
  <1> USE DEF AcceptWindow, Become, Goto, Done, backend, disk, root, env
  <1>1. Local(o) /\ Fields(o)
    BY FieldTypes DEF IInv
  <1>2. /\ Moved(intent'[o], intent[o], "window_open")
        /\ intent'[o].restore = intent[o].restore
        /\ intent'[o].gen = reply[o].gen
        /\ pc'[o] = "idle" /\ reply'[o] = NoReply
    BY <1>1, TypeParts, AcceptedRows DEF IInv, LoopType, DiskType, Fields
  <1>3. TypeOK'
    BY <1>1, <1>2, TypeParts
    DEF IInv, LoopType, BackendType, FlagType, DiskType, EnvType, Fields, Places, NoReply,
        Replies, Statuses, Files, Fresh, Moved
  <1>4. ASSUME NEW p \in Origins, p # o PROVE Local(p)'
    <2>1. SameAt(p)
      BY <1>4, TypeParts DEF IInv, LoopType, DiskType, SameAt
    <2> QED
      BY <2>1, Frame, FieldTypes DEF IInv
  <1>5. Local(o)'
    <2> USE <1>1, <1>2 DEF Local, Fields, Fresh, Moved
    <2>1. Shape(o)' /\ Drawn(o)' /\ Generations(o)'
      BY DEF Shape, NoReply, Drawn, Generations
    <2>2. Answers(o)' /\ Observations(o)' /\ Proven(o)'
      BY DEF Answers, Owns, Shape, NoReply, Observations, Absent, Files, Versions, Proven
    <2>3. LateRequests(o)'
      BY DEF LateRequests, Held, Drawn, Shape, Answers, Owns, Generations
    <2>4. Agrees(o)' /\ Recognised(o)'
      BY DEF Agrees, Accepted, Answers, Owns, Generations, Shape, Recognised, Drawn
    <2> QED
      BY <2>1, <2>2, <2>3, <2>4
  <1> QED
    BY <1>3, <1>4, <1>5 DEF IInv

(* The conflicting generation is newer than the one expected before. *)
LEMMA ReplaceAfterConflictStep ==
    ASSUME IInv, NEW o \in Origins, ReplaceAfterConflict(o)
    PROVE  IInv'
  <1> USE DEF ReplaceAfterConflict, Become, Goto, Done, Draw, backend, disk, root, env
  <1>1. Local(o) /\ Fields(o)
    BY FieldTypes DEF IInv
  <1>2. /\ Fresh(intent'[o], "tombstone_pending", ops[o] + 1, reply[o].gen)
        /\ pc'[o] = "idle" /\ reply'[o] = NoReply
        /\ ops'[o] = ops[o] + 1
    BY <1>1, TypeParts, FreshRows DEF IInv, LoopType, DiskType, Fields
  <1>3. TypeOK'
    BY <1>1, <1>2, TypeParts
    DEF IInv, LoopType, BackendType, FlagType, DiskType, EnvType, Fields, Places, NoReply,
        Replies, Statuses, Files, Fresh, Moved
  <1>4. ASSUME NEW p \in Origins, p # o PROVE Local(p)'
    <2>1. SameAt(p)
      BY <1>4, TypeParts DEF IInv, LoopType, DiskType, SameAt
    <2> QED
      BY <2>1, Frame, FieldTypes DEF IInv
  <1>5. Local(o)'
    <2> USE <1>1, <1>2 DEF Local, Fields, Fresh, Moved
    <2>1. Shape(o)' /\ Drawn(o)' /\ Generations(o)'
      BY DEF Shape, NoReply, Drawn, Generations
    <2>2. Answers(o)' /\ Observations(o)' /\ Proven(o)'
      BY DEF Answers, Owns, Shape, NoReply, Observations, Absent, Files, Versions, Proven
    <2>3. LateRequests(o)'
      BY DEF LateRequests, Held, Drawn, Shape, Answers, Owns, Generations
    <2>4. Agrees(o)' /\ Recognised(o)'
      BY DEF Agrees, Accepted, Answers, Owns, Generations, Shape, Recognised, Drawn
    <2> QED
      BY <2>1, <2>2, <2>3, <2>4
  <1> QED
    BY <1>3, <1>4, <1>5 DEF IInv

(* Nothing but the pass ends. *)
LEMMA RetryLaterStep ==
    ASSUME IInv, NEW o \in Origins, RetryLater(o)
    PROVE  IInv'
  <1> USE DEF RetryLater, Goto, Done, backend, disk, root, env
  <1>1. Local(o) /\ Fields(o)
    BY FieldTypes DEF IInv
  <1>2. /\ intent'[o] = intent[o]
        /\ pc'[o] = "idle" /\ reply'[o] = NoReply
    BY <1>1, TypeParts DEF IInv, LoopType, DiskType, Fields
  <1>3. TypeOK'
    BY <1>1, <1>2, TypeParts
    DEF IInv, LoopType, BackendType, FlagType, DiskType, EnvType, Fields, Places, NoReply,
        Replies, Statuses, Files, Fresh, Moved
  <1>4. ASSUME NEW p \in Origins, p # o PROVE Local(p)'
    <2>1. SameAt(p)
      BY <1>4, TypeParts DEF IInv, LoopType, DiskType, SameAt
    <2> QED
      BY <2>1, Frame, FieldTypes DEF IInv
  <1>5. Local(o)'
    <2> USE <1>1, <1>2 DEF Local, Fields, Fresh, Moved
    <2>1. Shape(o)' /\ Drawn(o)' /\ Generations(o)'
      BY DEF Shape, NoReply, Drawn, Generations
    <2>2. Answers(o)' /\ Observations(o)' /\ Proven(o)'
      BY DEF Answers, Owns, Shape, NoReply, Observations, Absent, Files, Versions, Proven
    <2>3. LateRequests(o)'
      BY DEF LateRequests, Held, Drawn, Shape, Answers, Owns, Generations
    <2>4. Agrees(o)' /\ Recognised(o)'
      BY DEF Agrees, Accepted, Answers, Owns, Generations, Shape, Recognised, Drawn
    <2> QED
      BY <2>1, <2>2, <2>3, <2>4
  <1> QED
    BY <1>3, <1>4, <1>5 DEF IInv

(* No open request of the intent can be pending any more. *)
LEMMA FinalizeIntentStep ==
    ASSUME IInv, NEW o \in Origins, FinalizeIntent(o)
    PROVE  IInv'
  <1> USE DEF FinalizeIntent, Become, Goto, Done, backend, disk, root, env
  <1>1. Local(o) /\ Fields(o)
    BY FieldTypes DEF IInv
  <1>2. /\ Fresh(intent'[o], "none", 0, 0)
        /\ pc'[o] = "idle" /\ reply'[o] = NoReply
        /\ file'[o] = file[o] \/ file'[o] = Absent
    BY <1>1, TypeParts, FreshRows DEF IInv, LoopType, DiskType, Fields, Files
  <1>3. TypeOK'
    BY <1>1, <1>2, TypeParts
    DEF IInv, LoopType, BackendType, FlagType, DiskType, EnvType, Fields, Places, NoReply,
        Replies, Statuses, Files, Fresh, Moved
  <1>4. ASSUME NEW p \in Origins, p # o PROVE Local(p)'
    <2>1. SameAt(p)
      BY <1>4, TypeParts DEF IInv, LoopType, DiskType, SameAt
    <2> QED
      BY <2>1, Frame, FieldTypes DEF IInv
  <1>5. Local(o)'
    <2> USE <1>1, <1>2 DEF Local, Fields, Fresh, Moved
    <2>1. Shape(o)' /\ Drawn(o)' /\ Generations(o)'
      BY DEF Shape, NoReply, Drawn, Generations
    <2>2. Answers(o)' /\ Observations(o)' /\ Proven(o)'
      BY DEF Answers, Owns, Shape, NoReply, Observations, Absent, Files, Versions, Proven
    <2>3. LateRequests(o)'
      BY DEF LateRequests, Held, Drawn, Shape, Answers, Owns, Generations
    <2>4. Agrees(o)' /\ Recognised(o)'
      BY DEF Agrees, Accepted, Answers, Owns, Generations, Shape, Recognised, Drawn
    <2> QED
      BY <2>1, <2>2, <2>3, <2>4
  <1> QED
    BY <1>3, <1>4, <1>5 DEF IInv

(* The restore operation is drawn once, before any consume request. *)
LEMMA BeginRestoreStep ==
    ASSUME IInv, NEW o \in Origins, BeginRestore(o)
    PROVE  IInv'
  <1> USE DEF BeginRestore, Idle, Become, Draw, backend, disk, root, env
  <1>1. Local(o) /\ Fields(o)
    BY FieldTypes DEF IInv
  <1>a. intent'[o] = RestoringRow(intent[o], ops[o] + 1, file[o]) /\ ops[o] + 1 \in Nat
    BY <1>1, TypeParts DEF IInv, LoopType, Fields
  <1>2. /\ Moved(intent'[o], intent[o], "content_syncing")
        /\ intent'[o].gen = intent[o].gen
        /\ intent'[o].restore = ops[o] + 1
        /\ pc'[o] = pc[o] /\ reply'[o] = reply[o]
        /\ ops'[o] = ops[o] + 1
    BY <1>1, <1>a, TypeParts, RestoringRows DEF IInv, LoopType, Fields
  <1>3. TypeOK'
    BY <1>1, <1>2, TypeParts
    DEF IInv, LoopType, BackendType, FlagType, DiskType, EnvType, Fields, Places, NoReply,
        Replies, Statuses, Files, Fresh, Moved
  <1>4. ASSUME NEW p \in Origins, p # o PROVE Local(p)'
    <2>1. SameAt(p)
      BY <1>4, TypeParts DEF IInv, LoopType, DiskType, SameAt
    <2> QED
      BY <2>1, Frame, FieldTypes DEF IInv
  <1>5. Local(o)'
    <2> USE <1>1, <1>2 DEF Local, Fields, Fresh, Moved
    <2>1. Shape(o)' /\ Drawn(o)' /\ Generations(o)'
      BY DEF Shape, NoReply, Drawn, Generations
    <2>2. Answers(o)' /\ Observations(o)' /\ Proven(o)'
      BY DEF Answers, Owns, Shape, NoReply, Observations, Absent, Files, Versions, Proven
    <2>3. LateRequests(o)'
      BY DEF LateRequests, Held, Drawn, Shape, Answers, Owns, Generations
    <2>4. Agrees(o)' /\ Recognised(o)'
      BY DEF Agrees, Accepted, Answers, Owns, Generations, Shape, Recognised, Drawn
    <2> QED
      BY <2>1, <2>2, <2>3, <2>4
  <1> QED
    BY <1>3, <1>4, <1>5 DEF IInv

(* The observation that the proof will be about is the persisted one. *)
LEMMA ObserveContentStep ==
    ASSUME IInv, NEW o \in Origins, ObserveContent(o)
    PROVE  IInv'
  <1> USE DEF ObserveContent, Idle, Become, Goto, backend, disk, root, env
  <1>1. Local(o) /\ Fields(o)
    BY FieldTypes DEF IInv
  <1>2. /\ Moved(intent'[o], intent[o], "content_syncing")
        /\ intent'[o].gen = intent[o].gen
        /\ intent'[o].restore = intent[o].restore
        /\ intent'[o].observed = file[o]
        /\ pc'[o] = "observed" /\ reply'[o] = reply[o]
        /\ seen'[o] = file[o]
    BY <1>1, TypeParts, ObservedRows DEF IInv, LoopType, DiskType, Fields
  <1>3. TypeOK'
    BY <1>1, <1>2, TypeParts
    DEF IInv, LoopType, BackendType, FlagType, DiskType, EnvType, Fields, Places, NoReply,
        Replies, Statuses, Files, Fresh, Moved
  <1>4. ASSUME NEW p \in Origins, p # o PROVE Local(p)'
    <2>1. SameAt(p)
      BY <1>4, TypeParts DEF IInv, LoopType, DiskType, SameAt
    <2> QED
      BY <2>1, Frame, FieldTypes DEF IInv
  <1>5. Local(o)'
    <2> USE <1>1, <1>2 DEF Local, Fields, Fresh, Moved
    <2>1. Shape(o)' /\ Drawn(o)' /\ Generations(o)'
      BY DEF Shape, NoReply, Drawn, Generations
    <2>2. Answers(o)' /\ Observations(o)' /\ Proven(o)'
      BY DEF Answers, Owns, Shape, NoReply, Observations, Absent, Files, Versions, Proven
    <2>3. LateRequests(o)'
      BY DEF LateRequests, Held, Drawn, Shape, Answers, Owns, Generations
    <2>4. Agrees(o)' /\ Recognised(o)'
      BY DEF Agrees, Accepted, Answers, Owns, Generations, Shape, Recognised, Drawn
    <2> QED
      BY <2>1, <2>2, <2>3, <2>4
  <1> QED
    BY <1>3, <1>4, <1>5 DEF IInv

(* A file that has not changed since is captured as it was observed. *)
LEMMA CaptureContentStep ==
    ASSUME IInv, NEW o \in Origins, CaptureContent(o)
    PROVE  IInv'
  <1> USE DEF CaptureContent, Goto, backend, disk, root, env
  <1>1. Local(o) /\ Fields(o)
    BY FieldTypes DEF IInv
  <1>2. /\ intent'[o] = intent[o]
        /\ pc'[o] = "awaiting" /\ reply'[o] = reply[o]
        /\ captured'[o] = captured[o] \union ({file[o]} \ {Absent})
    BY <1>1, TypeParts DEF IInv, LoopType, DiskType, Fields, Files
  <1>3. TypeOK'
    BY <1>1, <1>2, TypeParts
    DEF IInv, LoopType, BackendType, FlagType, DiskType, EnvType, Fields, Places, NoReply,
        Replies, Statuses, Files, Fresh, Moved
  <1>4. ASSUME NEW p \in Origins, p # o PROVE Local(p)'
    <2>1. SameAt(p)
      BY <1>4, TypeParts DEF IInv, LoopType, DiskType, SameAt
    <2> QED
      BY <2>1, Frame, FieldTypes DEF IInv
  <1>5. Local(o)'
    <2> USE <1>1, <1>2 DEF Local, Fields, Fresh, Moved
    <2>1. Shape(o)' /\ Drawn(o)' /\ Generations(o)'
      BY DEF Shape, NoReply, Drawn, Generations
    <2>2. Answers(o)' /\ Observations(o)' /\ Proven(o)'
      BY DEF Answers, Owns, Shape, NoReply, Observations, Absent, Files, Versions, Proven
    <2>3. LateRequests(o)'
      BY DEF LateRequests, Held, Drawn, Shape, Answers, Owns, Generations
    <2>4. Agrees(o)' /\ Recognised(o)'
      BY DEF Agrees, Accepted, Answers, Owns, Generations, Shape, Recognised, Drawn
    <2> QED
      BY <2>1, <2>2, <2>3, <2>4
  <1> QED
    BY <1>3, <1>4, <1>5 DEF IInv

(* What was captured has arrived, and the file has not changed since. *)
LEMMA ContentProvenStep ==
    ASSUME IInv, NEW o \in Origins, ContentProven(o)
    PROVE  IInv'
  <1> USE DEF ContentProven, Become, Goto, Forget, backend, disk, root, env
  <1>1. Local(o) /\ Fields(o)
    BY FieldTypes DEF IInv
  <1>2. /\ \/ /\ intent[o].phase = "content_syncing" /\ pc'[o] = "idle"
              /\ Moved(intent'[o], intent[o], "restore_pending")
              /\ intent'[o].gen = intent[o].gen
              /\ intent'[o].restore = intent[o].restore
              /\ intent'[o].observed = intent[o].observed
              /\ intent'[o].frontier = captured[o]
           \/ /\ intent[o].phase = "projection_pending" /\ pc'[o] = "projecting"
              /\ Moved(intent'[o], intent[o], "projection_pending")
              /\ intent'[o].gen = intent[o].gen
              /\ intent'[o].restore = intent[o].restore
              /\ intent'[o].frontier = intent[o].frontier
              /\ intent'[o].observed = file[o]
        /\ reply'[o] = reply[o]
        /\ seen'[o] = Absent
    BY <1>1, TypeParts, ReadyRows, MergedRows DEF IInv, LoopType, DiskType, Fields, Files
  <1>3. TypeOK'
    BY <1>1, <1>2, TypeParts
    DEF IInv, LoopType, BackendType, FlagType, DiskType, EnvType, Fields, Places, NoReply,
        Replies, Statuses, Files, Fresh, Moved
  <1>4. ASSUME NEW p \in Origins, p # o PROVE Local(p)'
    <2>1. SameAt(p)
      BY <1>4, TypeParts DEF IInv, LoopType, DiskType, SameAt
    <2> QED
      BY <2>1, Frame, FieldTypes DEF IInv
  <1>5. Local(o)'
    <2> USE <1>1, <1>2 DEF Local, Fields, Fresh, Moved
    <2>1. Shape(o)' /\ Drawn(o)' /\ Generations(o)'
      BY DEF Shape, NoReply, Drawn, Generations
    <2>2. Answers(o)' /\ Observations(o)' /\ Proven(o)'
      BY DEF Answers, Owns, Shape, NoReply, Observations, Absent, Files, Versions, Proven
    <2>3. LateRequests(o)'
      BY DEF LateRequests, Held, Drawn, Shape, Answers, Owns, Generations
    <2>4. Agrees(o)' /\ Recognised(o)'
      BY DEF Agrees, Accepted, Answers, Owns, Generations, Shape, Recognised, Drawn
    <2> QED
      BY <2>1, <2>2, <2>3, <2>4
  <1> QED
    BY <1>3, <1>4, <1>5 DEF IInv

(* A changed file voids the observation and keeps the restore operation. *)
LEMMA ContentMovedStep ==
    ASSUME IInv, NEW o \in Origins, ContentMoved(o)
    PROVE  IInv'
  <1> USE DEF ContentMoved, Become, Goto, Forget, backend, disk, root, env
  <1>1. Local(o) /\ Fields(o)
    BY FieldTypes DEF IInv
  <1>2. /\ \/ intent'[o] = intent[o]
           \/ /\ intent[o].phase = "content_syncing"
              /\ Moved(intent'[o], intent[o], "content_syncing")
              /\ intent'[o].gen = intent[o].gen
              /\ intent'[o].restore = intent[o].restore
        /\ pc'[o] = "idle" /\ reply'[o] = reply[o]
        /\ seen'[o] = Absent
    BY <1>1, TypeParts, ObservedRows DEF IInv, LoopType, DiskType, Fields, Files
  <1>3. TypeOK'
    BY <1>1, <1>2, TypeParts
    DEF IInv, LoopType, BackendType, FlagType, DiskType, EnvType, Fields, Places, NoReply,
        Replies, Statuses, Files, Fresh, Moved
  <1>4. ASSUME NEW p \in Origins, p # o PROVE Local(p)'
    <2>1. SameAt(p)
      BY <1>4, TypeParts DEF IInv, LoopType, DiskType, SameAt
    <2> QED
      BY <2>1, Frame, FieldTypes DEF IInv
  <1>5. Local(o)'
    <2> USE <1>1, <1>2 DEF Local, Fields, Fresh, Moved
    <2>1. Shape(o)' /\ Drawn(o)' /\ Generations(o)'
      BY DEF Shape, NoReply, Drawn, Generations
    <2>2. Answers(o)' /\ Observations(o)' /\ Proven(o)'
      BY DEF Answers, Owns, Shape, NoReply, Observations, Absent, Files, Versions, Proven
    <2>3. LateRequests(o)'
      BY DEF LateRequests, Held, Drawn, Shape, Answers, Owns, Generations
    <2>4. Agrees(o)' /\ Recognised(o)'
      BY DEF Agrees, Accepted, Answers, Owns, Generations, Shape, Recognised, Drawn
    <2> QED
      BY <2>1, <2>2, <2>3, <2>4
  <1> QED
    BY <1>3, <1>4, <1>5 DEF IInv

(* The restore operation outlives the new observation. *)
LEMMA RefreshObservationStep ==
    ASSUME IInv, NEW o \in Origins, RefreshObservation(o)
    PROVE  IInv'
  <1> USE DEF RefreshObservation, Idle, Become, backend, disk, root, env
  <1>1. Local(o) /\ Fields(o)
    BY FieldTypes DEF IInv
  <1>2. /\ Moved(intent'[o], intent[o], "content_syncing")
        /\ intent'[o].gen = intent[o].gen
        /\ intent'[o].restore = intent[o].restore
        /\ intent'[o].observed = file[o]
        /\ pc'[o] = pc[o] /\ reply'[o] = reply[o]
    BY <1>1, TypeParts, ObservedRows DEF IInv, LoopType, DiskType, Fields
  <1>3. TypeOK'
    BY <1>1, <1>2, TypeParts
    DEF IInv, LoopType, BackendType, FlagType, DiskType, EnvType, Fields, Places, NoReply,
        Replies, Statuses, Files, Fresh, Moved
  <1>4. ASSUME NEW p \in Origins, p # o PROVE Local(p)'
    <2>1. SameAt(p)
      BY <1>4, TypeParts DEF IInv, LoopType, DiskType, SameAt
    <2> QED
      BY <2>1, Frame, FieldTypes DEF IInv
  <1>5. Local(o)'
    <2> USE <1>1, <1>2 DEF Local, Fields, Fresh, Moved
    <2>1. Shape(o)' /\ Drawn(o)' /\ Generations(o)'
      BY DEF Shape, NoReply, Drawn, Generations
    <2>2. Answers(o)' /\ Observations(o)' /\ Proven(o)'
      BY DEF Answers, Owns, Shape, NoReply, Observations, Absent, Files, Versions, Proven
    <2>3. LateRequests(o)'
      BY DEF LateRequests, Held, Drawn, Shape, Answers, Owns, Generations
    <2>4. Agrees(o)' /\ Recognised(o)'
      BY DEF Agrees, Accepted, Answers, Owns, Generations, Shape, Recognised, Drawn
    <2> QED
      BY <2>1, <2>2, <2>3, <2>4
  <1> QED
    BY <1>3, <1>4, <1>5 DEF IInv

(* Nothing is stored before the restore request leaves. *)
LEMMA SendConsumeStep ==
    ASSUME IInv, NEW o \in Origins, SendConsume(o)
    PROVE  IInv'
  <1> USE DEF SendConsume, Idle, Goto, backend, disk, root, env
  <1>1. Local(o) /\ Fields(o)
    BY FieldTypes DEF IInv
  <1>2. /\ intent'[o] = intent[o]
        /\ pc'[o] = "consuming" /\ reply'[o] = reply[o]
    BY <1>1, TypeParts DEF IInv, LoopType, DiskType, Fields
  <1>3. TypeOK'
    BY <1>1, <1>2, TypeParts
    DEF IInv, LoopType, BackendType, FlagType, DiskType, EnvType, Fields, Places, NoReply,
        Replies, Statuses, Files, Fresh, Moved
  <1>4. ASSUME NEW p \in Origins, p # o PROVE Local(p)'
    <2>1. SameAt(p)
      BY <1>4, TypeParts DEF IInv, LoopType, DiskType, SameAt
    <2> QED
      BY <2>1, Frame, FieldTypes DEF IInv
  <1>5. Local(o)'
    <2> USE <1>1, <1>2 DEF Local, Fields, Fresh, Moved
    <2>1. Shape(o)' /\ Drawn(o)' /\ Generations(o)'
      BY DEF Shape, NoReply, Drawn, Generations
    <2>2. Answers(o)' /\ Observations(o)' /\ Proven(o)'
      BY DEF Answers, Owns, Shape, NoReply, Observations, Absent, Files, Versions, Proven
    <2>3. LateRequests(o)'
      BY DEF LateRequests, Held, Drawn, Shape, Answers, Owns, Generations
    <2>4. Agrees(o)' /\ Recognised(o)'
      BY DEF Agrees, Accepted, Answers, Owns, Generations, Shape, Recognised, Drawn
    <2> QED
      BY <2>1, <2>2, <2>3, <2>4
  <1> QED
    BY <1>3, <1>4, <1>5 DEF IInv

(* The row has been consumed by this restore operation. *)
LEMMA AcceptRestoreStep ==
    ASSUME IInv, NEW o \in Origins, AcceptRestore(o)
    PROVE  IInv'
  <1> USE DEF AcceptRestore, Become, Goto, Done, backend, disk, root, env
  <1>1. Local(o) /\ Fields(o)
    BY FieldTypes DEF IInv
  <1>2. /\ Moved(intent'[o], intent[o], "projection_pending")
        /\ intent'[o].gen = intent[o].gen
        /\ intent'[o].restore = intent[o].restore
        /\ intent'[o].observed = intent[o].observed
        /\ intent'[o].frontier = intent[o].frontier
        /\ pc'[o] = "idle" /\ reply'[o] = NoReply
    BY <1>1, TypeParts, ProjectingRows DEF IInv, LoopType, DiskType, Fields
  <1>3. TypeOK'
    BY <1>1, <1>2, TypeParts
    DEF IInv, LoopType, BackendType, FlagType, DiskType, EnvType, Fields, Places, NoReply,
        Replies, Statuses, Files, Fresh, Moved
  <1>4. ASSUME NEW p \in Origins, p # o PROVE Local(p)'
    <2>1. SameAt(p)
      BY <1>4, TypeParts DEF IInv, LoopType, DiskType, SameAt
    <2> QED
      BY <2>1, Frame, FieldTypes DEF IInv
  <1>5. Local(o)'
    <2> USE <1>1, <1>2 DEF Local, Fields, Fresh, Moved
    <2>1. Shape(o)' /\ Drawn(o)' /\ Generations(o)'
      BY DEF Shape, NoReply, Drawn, Generations
    <2>2. Answers(o)' /\ Observations(o)' /\ Proven(o)'
      BY DEF Answers, Owns, Shape, NoReply, Observations, Absent, Files, Versions, Proven
    <2>3. LateRequests(o)'
      BY DEF LateRequests, Held, Drawn, Shape, Answers, Owns, Generations
    <2>4. Agrees(o)' /\ Recognised(o)'
      BY DEF Agrees, Accepted, Answers, Owns, Generations, Shape, Recognised, Drawn
    <2> QED
      BY <2>1, <2>2, <2>3, <2>4
  <1> QED
    BY <1>3, <1>4, <1>5 DEF IInv

(* The intent goes with the projection, or waits for the next one. *)
LEMMA StoreProjectionStep ==
    ASSUME IInv, NEW o \in Origins, StoreProjection(o)
    PROVE  IInv'
  <1> USE DEF StoreProjection, Become, Goto, backend, disk, root, env
  <1>1. Local(o) /\ Fields(o)
    BY FieldTypes DEF IInv
  <1>2. /\ \/ intent'[o] = intent[o]
           \/ Fresh(intent'[o], "none", 0, 0)
        /\ pc'[o] = "idle" /\ reply'[o] = reply[o]
    BY <1>1, TypeParts, FreshRows DEF IInv, LoopType, DiskType, Fields
  <1>3. TypeOK'
    BY <1>1, <1>2, TypeParts
    DEF IInv, LoopType, BackendType, FlagType, DiskType, EnvType, Fields, Places, NoReply,
        Replies, Statuses, Files, Fresh, Moved
  <1>4. ASSUME NEW p \in Origins, p # o PROVE Local(p)'
    <2>1. SameAt(p)
      BY <1>4, TypeParts DEF IInv, LoopType, DiskType, SameAt
    <2> QED
      BY <2>1, Frame, FieldTypes DEF IInv
  <1>5. Local(o)'
    <2> USE <1>1, <1>2 DEF Local, Fields, Fresh, Moved
    <2>1. Shape(o)' /\ Drawn(o)' /\ Generations(o)'
      BY DEF Shape, NoReply, Drawn, Generations
    <2>2. Answers(o)' /\ Observations(o)' /\ Proven(o)'
      BY DEF Answers, Owns, Shape, NoReply, Observations, Absent, Files, Versions, Proven
    <2>3. LateRequests(o)'
      BY DEF LateRequests, Held, Drawn, Shape, Answers, Owns, Generations
    <2>4. Agrees(o)' /\ Recognised(o)'
      BY DEF Agrees, Accepted, Answers, Owns, Generations, Shape, Recognised, Drawn
    <2> QED
      BY <2>1, <2>2, <2>3, <2>4
  <1> QED
    BY <1>3, <1>4, <1>5 DEF IInv

(* A file is written only while no intent observes the path. *)
LEMMA MaterializeStep ==
    ASSUME IInv, NEW o \in Origins, Materialize(o)
    PROVE  IInv'
  <1> USE DEF Materialize, Idle, loop, backend, disk, root, env
  <1>1. Local(o) /\ Fields(o)
    BY FieldTypes DEF IInv
  <1>2. /\ intent'[o] = intent[o]
        /\ pc'[o] = pc[o] /\ reply'[o] = reply[o]
        /\ file'[o] = file[o] \/ file'[o] = 0
    BY <1>1, TypeParts DEF IInv, LoopType, DiskType, Fields
  <1>3. TypeOK'
    BY <1>1, <1>2, TypeParts, BoundsAssumption
    DEF IInv, LoopType, BackendType, FlagType, DiskType, EnvType, Fields, Places, NoReply,
        Replies, Statuses, Files, Fresh, Moved, Versions
  <1>4. ASSUME NEW p \in Origins, p # o PROVE Local(p)'
    <2>1. SameAt(p)
      BY <1>4, TypeParts DEF IInv, LoopType, DiskType, SameAt
    <2> QED
      BY <2>1, Frame, FieldTypes DEF IInv
  <1>5. Local(o)'
    <2> USE <1>1, <1>2 DEF Local, Fields, Fresh, Moved
    <2>1. Shape(o)' /\ Drawn(o)' /\ Generations(o)'
      BY DEF Shape, NoReply, Drawn, Generations
    <2>2. Answers(o)' /\ Observations(o)' /\ Proven(o)'
      BY DEF Answers, Owns, Shape, NoReply, Observations, Absent, Files, Versions, Proven
    <2>3. LateRequests(o)'
      BY DEF LateRequests, Held, Drawn, Shape, Answers, Owns, Generations
    <2>4. Agrees(o)' /\ Recognised(o)'
      BY DEF Agrees, Accepted, Answers, Owns, Generations, Shape, Recognised, Drawn
    <2> QED
      BY <2>1, <2>2, <2>3, <2>4
  <1> QED
    BY <1>3, <1>4, <1>5 DEF IInv

(* A removed file is no longer the observed one. *)
LEMMA UserDeleteStep ==
    ASSUME IInv, NEW o \in Origins, UserDelete(o)
    PROVE  IInv'
  <1> USE DEF UserDelete, loop, backend, disk, root, env
  <1>1. Local(o) /\ Fields(o)
    BY FieldTypes DEF IInv
  <1>2. /\ intent'[o] = intent[o]
        /\ pc'[o] = pc[o] /\ reply'[o] = reply[o]
        /\ file'[o] = Absent
    BY <1>1, TypeParts DEF IInv, LoopType, DiskType, Fields, Files
  <1>3. TypeOK'
    BY <1>1, <1>2, TypeParts, BoundsAssumption
    DEF IInv, LoopType, BackendType, FlagType, DiskType, EnvType, Fields, Places, NoReply,
        Replies, Statuses, Files, Fresh, Moved, Versions
  <1>4. ASSUME NEW p \in Origins, p # o PROVE Local(p)'
    <2>1. SameAt(p)
      BY <1>4, TypeParts DEF IInv, LoopType, DiskType, SameAt
    <2> QED
      BY <2>1, Frame, FieldTypes DEF IInv
  <1>5. Local(o)'
    <2> USE <1>1, <1>2 DEF Local, Fields, Fresh, Moved
    <2>1. Shape(o)' /\ Drawn(o)' /\ Generations(o)'
      BY DEF Shape, NoReply, Drawn, Generations
    <2>2. Answers(o)' /\ Observations(o)' /\ Proven(o)'
      BY DEF Answers, Owns, Shape, NoReply, Observations, Absent, Files, Versions, Proven
    <2>3. LateRequests(o)'
      BY DEF LateRequests, Held, Drawn, Shape, Answers, Owns, Generations
    <2>4. Agrees(o)' /\ Recognised(o)'
      BY DEF Agrees, Accepted, Answers, Owns, Generations, Shape, Recognised, Drawn
    <2> QED
      BY <2>1, <2>2, <2>3, <2>4
  <1> QED
    BY <1>3, <1>4, <1>5 DEF IInv

(* A written file is new, so it cannot pass for the observed one. *)
LEMMA UserWriteStep ==
    ASSUME IInv, NEW o \in Origins, UserWrite(o)
    PROVE  IInv'
  <1> USE DEF UserWrite, loop, backend, disk, root, env
  <1>1. Local(o) /\ Fields(o)
    BY FieldTypes DEF IInv
  <1>2. /\ intent'[o] = intent[o]
        /\ pc'[o] = pc[o] /\ reply'[o] = reply[o]
        /\ file'[o] = writes + 1
    BY <1>1, TypeParts DEF IInv, LoopType, DiskType, Fields
  <1>3. TypeOK'
    BY <1>1, <1>2, TypeParts, BoundsAssumption
    DEF IInv, LoopType, BackendType, FlagType, DiskType, EnvType, Fields, Places, NoReply,
        Replies, Statuses, Files, Fresh, Moved, Versions
  <1>4. ASSUME NEW p \in Origins, p # o PROVE Local(p)'
    <2>1. SameAt(p)
      BY <1>4, TypeParts DEF IInv, LoopType, DiskType, SameAt
    <2> QED
      BY <2>1, Frame, FieldTypes DEF IInv
  <1>5. Local(o)'
    <2> USE <1>1, <1>2 DEF Local, Fields, Fresh, Moved
    <2>1. Shape(o)' /\ Drawn(o)' /\ Generations(o)'
      BY DEF Shape, NoReply, Drawn, Generations
    <2>2. Answers(o)' /\ Observations(o)' /\ Proven(o)'
      BY DEF Answers, Owns, Shape, NoReply, Observations, Absent, Files, Versions, Proven
    <2>3. LateRequests(o)'
      BY DEF LateRequests, Held, Drawn, Shape, Answers, Owns, Generations
    <2>4. Agrees(o)' /\ Recognised(o)'
      BY DEF Agrees, Accepted, Answers, Owns, Generations, Shape, Recognised, Drawn
    <2> QED
      BY <2>1, <2>2, <2>3, <2>4
  <1> QED
    BY <1>3, <1>4, <1>5 DEF IInv

(* The clock changes nothing else. *)
LEMMA OverdueStep ==
    ASSUME IInv, NEW o \in Origins, Overdue(o)
    PROVE  IInv'
  <1> USE DEF Overdue, Become, backend, disk, root, env
  <1>1. Local(o) /\ Fields(o)
    BY FieldTypes DEF IInv
  <1>2. /\ Moved(intent'[o], intent[o], intent[o].phase)
        /\ intent'[o].gen = intent[o].gen
        /\ intent'[o].restore = intent[o].restore
        /\ intent'[o].observed = intent[o].observed
        /\ intent'[o].frontier = intent[o].frontier
        /\ intent'[o].tried = intent[o].tried
        /\ pc'[o] = pc[o] /\ reply'[o] = reply[o]
    BY <1>1, TypeParts, OverdueRows DEF IInv, LoopType, DiskType, Fields
  <1>3. TypeOK'
    BY <1>1, <1>2, TypeParts
    DEF IInv, LoopType, BackendType, FlagType, DiskType, EnvType, Fields, Places, NoReply,
        Replies, Statuses, Files, Fresh, Moved
  <1>4. ASSUME NEW p \in Origins, p # o PROVE Local(p)'
    <2>1. SameAt(p)
      BY <1>4, TypeParts DEF IInv, LoopType, DiskType, SameAt
    <2> QED
      BY <2>1, Frame, FieldTypes DEF IInv
  <1>5. Local(o)'
    <2> USE <1>1, <1>2 DEF Local, Fields, Fresh, Moved
    <2>1. Shape(o)' /\ Drawn(o)' /\ Generations(o)'
      BY DEF Shape, NoReply, Drawn, Generations
    <2>2. Answers(o)' /\ Observations(o)' /\ Proven(o)'
      BY DEF Answers, Owns, Shape, NoReply, Observations, Absent, Files, Versions, Proven
    <2>3. LateRequests(o)'
      BY DEF LateRequests, Held, Drawn, Shape, Answers, Owns, Generations
    <2>4. Agrees(o)' /\ Recognised(o)'
      BY DEF Agrees, Accepted, Answers, Owns, Generations, Shape, Recognised, Drawn
    <2> QED
      BY <2>1, <2>2, <2>3, <2>4
  <1> QED
    BY <1>3, <1>4, <1>5 DEF IInv

(* The decision to give up is taken in an accepted phase. *)
LEMMA DecideStep ==
    ASSUME IInv, NEW o \in Origins, NEW reason \in {"gone", "refused"},
           pc[o] = "idle", Decide(o, reason),
           intent[o].phase \in {"window_open", "content_syncing", "restore_pending"}
    PROVE  IInv'
  <1> USE DEF Decide, Goto, backend, disk, root, env
  <1>1. Local(o) /\ Fields(o)
    BY FieldTypes DEF IInv
  <1>2. /\ intent'[o] = intent[o] /\ pc'[o] = "finalizing" /\ reply'[o].gen = 0
        /\ seen'[o] = seen[o] /\ ops'[o] = ops[o]
    BY <1>1, TypeParts DEF IInv, LoopType
  <1>3. TypeOK'
    BY TypeParts
    DEF IInv, LoopType, BackendType, FlagType, DiskType, EnvType, Places, Replies, Statuses
  <1>4. ASSUME NEW p \in Origins, p # o PROVE Local(p)'
    <2>1. SameAt(p)
      BY <1>4, TypeParts DEF IInv, LoopType, DiskType, SameAt
    <2> QED
      BY <2>1, Frame, FieldTypes DEF IInv
  <1>5. Local(o)'
    <2> USE <1>1, <1>2 DEF Local, Fields
    <2>1. Shape(o)'
      BY DEF Shape
    <2>2. Drawn(o)' /\ Generations(o)' /\ Answers(o)'
      BY DEF Drawn, Generations, Answers
    <2>3. LateRequests(o)'
      BY DEF LateRequests, Held
    <2>4. Observations(o)' /\ Agrees(o)' /\ Recognised(o)' /\ Proven(o)'
      BY DEF Observations, Agrees, Recognised, Proven
    <2> QED
      BY <2>1, <2>2, <2>3, <2>4
  <1> QED
    BY <1>3, <1>4, <1>5 DEF IInv

(* The three places that decide so. *)
LEMMA CloseStep ==
    ASSUME IInv, NEW o \in Origins, CloseWindow(o) \/ CloseContent(o) \/ CloseRestore(o)
    PROVE  IInv'
  <1>1. PICK reason \in {"gone", "refused"} : Decide(o, reason)
    BY DEF CloseWindow, CloseContent, CloseRestore
  <1> QED
    BY <1>1, DecideStep DEF CloseWindow, CloseContent, CloseRestore, Idle

(* What an unanswered origin has asked is what it still wants. *)
LEMMA RequestOf ==
    ASSUME NEW o \in Origins, Fields(o), Local(o), Unanswered(o)
    PROVE  /\ Request(o) \in Requests
           /\ Request(o).origin = o /\ Request(o).op = intent[o].op
           /\ Request(o).op > 0 /\ Request(o).op <= ops[o]
           /\ pc[o] = "opening"
                 => Request(o).kind = "open" /\ Request(o).gen = intent[o].expected
           /\ pc[o] = "consuming"
                 => /\ Request(o).kind = "consume" /\ Request(o).gen = intent[o].gen
                    /\ Request(o).restore = intent[o].restore /\ intent[o].restore > 0
           /\ Request(o).gen <= window.gen
  <1>1. intent[o].op > 0 /\ (pc[o] = "consuming" => intent[o].restore > 0)
    BY DEF Local, Shape, Unanswered
  <1>2. intent[o].frontier \in SUBSET Versions
    BY DEF Fields, Intents
  <1>3. Request(o) \in Requests
    BY <1>2 DEF Request, Requests, Fields
  <1> QED
    BY <1>1, <1>3 DEF Request, Unanswered, Local, Drawn, Generations, Fields

(* A request that outlives its pass is one the intent still wants. *)
LEMMA AbandonStep ==
    ASSUME IInv, NEW o \in Origins, Abandon(o)
    PROVE  IInv'
  <1> USE DEF Abandon, Done, Goto, Forget, disk, root
  <1>1. Local(o) /\ Fields(o)
    BY FieldTypes DEF IInv
  <1>2. /\ intent'[o] = intent[o] /\ pc'[o] = "idle" /\ reply'[o] = NoReply
        /\ seen'[o] = Absent
    BY <1>1, TypeParts DEF IInv, LoopType
  <1>3. \A r \in late' : r \in late \/ (Unanswered(o) /\ r = Request(o))
    OBVIOUS
  <1>4. Unanswered(o) => Request(o) \in Requests /\ Request(o).origin = o
    BY <1>1, RequestOf
  <1>5. TypeOK'
    BY <1>3, <1>4, TypeParts, BoundsAssumption
    DEF IInv, LoopType, BackendType, FlagType, DiskType, EnvType, Places, NoReply, Replies,
        Statuses, Files
  <1>6. ASSUME NEW p \in Origins, p # o PROVE Local(p)'
    <2>1. SameAt(p)
      BY <1>6, TypeParts DEF IInv, LoopType, DiskType, SameAt
    <2>2. \A r \in late' : r.origin = p => r \in late
      BY <1>3, <1>4, <1>6
    <2> QED
      BY <2>1, <2>2, Frame, FieldTypes DEF IInv
  <1>7. Local(o)'
    <2> USE <1>1, <1>2 DEF Local, Fields
    <2>1. Shape(o)' /\ Answers(o)'
      BY DEF Shape, Answers, NoReply
    <2>2. Drawn(o)'
      BY <1>3, RequestOf DEF Drawn, Unanswered
    <2>3. Generations(o)'
      BY <1>3, RequestOf DEF Generations, NoReply
    <2>4. LateRequests(o)'
      BY <1>3, RequestOf DEF LateRequests, Held, Unanswered, Shape
    <2>5. Observations(o)' /\ Agrees(o)' /\ Recognised(o)' /\ Proven(o)'
      BY DEF Observations, Agrees, Recognised, Proven
    <2> QED
      BY <2>1, <2>2, <2>3, <2>4, <2>5
  <1> QED
    BY <1>5, <1>6, <1>7 DEF IInv
-----------------------------------------------------------------------------
(* The backend's steps. *)

(* The rows that the transactions write. *)
LEMMA WindowTypes ==
    ASSUME BackendType, NEW r \in Requests,
           OpenOrReplaceReverseWindow(r) \/ ConsumeReverseWindow(r)
    PROVE  window' \in Windows
  <1>1. ASSUME OpenOrReplaceReverseWindow(r) PROVE window' \in Windows
    <2>1. window.gen + 1 \in Nat /\ r.origin \in Origins /\ r.op \in Nat
      BY DEF BackendType, Windows, Requests
    <2>2. [gen |-> window.gen + 1, origin |-> r.origin, op |-> r.op, consumed |-> FALSE,
           restore |-> 0] \in Windows
      BY <2>1 DEF Windows
    <2> QED
      BY <1>1, <2>2, Zenon DEF BackendType, OpenOrReplaceReverseWindow
  <1>2. ASSUME ConsumeReverseWindow(r) PROVE window' \in Windows
    BY <1>2 DEF BackendType, ConsumeReverseWindow, Windows, Requests
  <1> QED
    BY <1>1, <1>2

(* The flags that the transactions write. *)
LEMMA FlagTypes ==
    ASSUME FlagType, NEW r,
           OpenOrReplaceReverseWindow(r) \/ ConsumeReverseWindow(r)
    PROVE  deleted' \in BOOLEAN /\ expired' \in BOOLEAN
  BY Zenon DEF FlagType, OpenOrReplaceReverseWindow, ConsumeReverseWindow

(* The answers that the transactions give. *)
LEMMA StatusTypes ==
    \A r : OpenStatus(r) \in Statuses /\ ConsumeStatus(r) \in Statuses
  BY DEF OpenStatus, ConsumeStatus, Statuses

(* The answer to an open request says who owns the row. *)
LEMMA HandleOpenStep ==
    ASSUME IInv, NEW o \in Origins, HandleOpen(o)
    PROVE  IInv'
  <1> DEFINE r == Request(o)
  <1> USE DEF HandleOpen, Answered, disk, root, env
  <1>1. Local(o) /\ Fields(o) /\ Unanswered(o) /\ pc[o] = "opening"
    BY FieldTypes DEF IInv
  <1>2. /\ r \in Requests /\ r.origin = o /\ r.op = intent[o].op /\ r.op > 0 /\ r.op <= ops[o]
        /\ r.gen = intent[o].expected
    BY <1>1, RequestOf
  <1>3. reply'[o] = [status |-> OpenStatus(r), gen |-> window'.gen]
    BY TypeParts DEF IInv, LoopType
  <1>4. window' \in Windows /\ deleted' \in BOOLEAN /\ expired' \in BOOLEAN
    BY <1>2, WindowTypes, FlagTypes, TypeParts DEF IInv
  <1>5. TypeOK'
    <2>1. LoopType'
      BY <1>4, StatusTypes, TypeParts DEF IInv, LoopType, Replies, Windows
    <2> QED
      BY <2>1, <1>4, TypeParts DEF IInv, BackendType, FlagType, DiskType, EnvType
  <1>6. \A p \in Origins : SameLoop(p) /\ (p # o => reply'[p] = reply[p])
    BY TypeParts DEF IInv, LoopType, SameLoop
  <1>7. \A p \in Origins : p # o => SameAt(p)
    BY <1>6 DEF SameAt, SameLoop
  <1>8. \A p \in Origins : Fields(p) /\ Local(p)
    BY FieldTypes DEF IInv
  <1>9. \A p \in Origins : Shape(p)'
    BY <1>1, <1>6, <1>8 DEF Local, Shape, SameLoop, NoReply
  <1>10. CASE OpenStatus(r) = "accepted"
    <2>1. \A p \in Origins : Silent(p)' /\ (p # o => Local(p)')
      BY <1>2, <1>6, <1>8, <1>9, <1>10, Opened
    <2>2. window'.gen = window.gen + 1 /\ window'.origin = o /\ window'.op = intent[o].op
      BY <1>1, <1>2, <1>6, <1>8, <1>9, <1>10, Opened
    <2>3. Generations(o)' /\ Answers(o)'
      BY <1>1, <1>3, <1>6, <1>10, <2>2
      DEF Local, Fields, Generations, Answers, Owns, SameLoop
    <2> QED
      BY <1>5, <2>1, <2>3 DEF IInv, Local, Silent
  <1>11. CASE OpenStatus(r) # "accepted"
    <2>1. UNCHANGED <<deleted, window, expired>>
      BY <1>11 DEF OpenOrReplaceReverseWindow
    <2>2. \A p \in Origins : p # o => Local(p)'
      BY <1>7, <1>8, <2>1, Frame
    <2>3. Generations(o)'
      BY <1>1, <1>3, <1>6, <2>1 DEF Local, Fields, Generations, SameLoop
    <2>4. Answers(o)'
      BY <1>1, <1>2, <1>3, <1>6, <1>11, <2>1
      DEF Local, Fields, Generations, Answers, Owns, SameLoop, OpenStatus, Held
    <2>5. Drawn(o)' /\ Agrees(o)' /\ Recognised(o)' /\ Proven(o)'
      BY <1>1, <1>6, <2>1 DEF Local, Drawn, Agrees, Recognised, Proven, SameLoop
    <2>6. LateRequests(o)' /\ Observations(o)'
      BY <1>1, <1>6, <2>1 DEF Local, LateRequests, Held, Observations, SameLoop
    <2> QED
      BY <1>5, <1>9, <2>2, <2>3, <2>4, <2>5, <2>6 DEF IInv, Local
  <1> QED
    BY <1>10, <1>11

(* The answer to a consume request says that this restore was carried out. *)
LEMMA HandleConsumeStep ==
    ASSUME IInv, NEW o \in Origins, HandleConsume(o)
    PROVE  IInv'
  <1> DEFINE r == Request(o)
  <1> USE DEF HandleConsume, Answered, disk, root, env
  <1>1. Local(o) /\ Fields(o) /\ Unanswered(o) /\ pc[o] = "consuming"
    BY FieldTypes DEF IInv
  <1>2. /\ r \in Requests /\ r.origin = o /\ r.op = intent[o].op /\ r.op > 0 /\ r.op <= ops[o]
        /\ r.gen = intent[o].gen /\ r.restore = intent[o].restore /\ r.restore > 0
    BY <1>1, RequestOf
  <1>3. reply'[o] = [status |-> ConsumeStatus(r), gen |-> window'.gen]
    BY TypeParts DEF IInv, LoopType
  <1>4. window' \in Windows /\ deleted' \in BOOLEAN /\ expired' \in BOOLEAN
    BY <1>2, WindowTypes, FlagTypes, TypeParts DEF IInv
  <1>5. TypeOK'
    <2>1. LoopType'
      BY <1>4, StatusTypes, TypeParts DEF IInv, LoopType, Replies, Windows
    <2> QED
      BY <2>1, <1>4, TypeParts DEF IInv, BackendType, FlagType, DiskType, EnvType
  <1>6. \A p \in Origins : SameLoop(p) /\ (p # o => reply'[p] = reply[p])
    BY TypeParts DEF IInv, LoopType, SameLoop
  <1>7. \A p \in Origins : p # o => SameAt(p)
    BY <1>6 DEF SameAt, SameLoop
  <1>8. \A p \in Origins : Fields(p) /\ Local(p)
    BY FieldTypes DEF IInv
  <1>9. \A p \in Origins : Shape(p)'
    BY <1>1, <1>6, <1>8 DEF Local, Shape, SameLoop, NoReply
  <1>10. CASE ConsumeStatus(r) = "accepted"
    <2>1. \A p \in Origins : Silent(p)' /\ (p # o => Local(p)')
      BY <1>2, <1>6, <1>8, <1>9, <1>10, Consumed, TypeParts DEF IInv, BackendType
    <2>2. window'.gen = window.gen /\ window'.consumed /\ window'.restore = r.restore
      BY <1>1, <1>2, <1>6, <1>8, <1>9, <1>10, Consumed, TypeParts DEF IInv, BackendType
    <2>3. Generations(o)' /\ Answers(o)'
      BY <1>1, <1>2, <1>3, <1>6, <1>10, <2>2
      DEF Local, Fields, Generations, Answers, Owns, SameLoop
    <2> QED
      BY <1>5, <2>1, <2>3 DEF IInv, Local, Silent
  <1>11. CASE ConsumeStatus(r) # "accepted"
    <2>1. UNCHANGED <<deleted, window, expired>>
      BY <1>11 DEF ConsumeReverseWindow
    <2>2. \A p \in Origins : p # o => Local(p)'
      BY <1>7, <1>8, <2>1, Frame
    <2>3. Generations(o)'
      BY <1>1, <1>3, <1>6, <2>1 DEF Local, Fields, Generations, SameLoop
    <2>4. Answers(o)'
      BY <1>1, <1>2, <1>3, <1>6, <1>11, <2>1
      DEF Local, Fields, Generations, Answers, Owns, SameLoop, ConsumeStatus, Restored
    <2>5. Drawn(o)' /\ Agrees(o)' /\ Recognised(o)' /\ Proven(o)'
      BY <1>1, <1>6, <2>1 DEF Local, Drawn, Agrees, Recognised, Proven, SameLoop
    <2>6. LateRequests(o)' /\ Observations(o)'
      BY <1>1, <1>6, <2>1 DEF Local, LateRequests, Held, Observations, SameLoop
    <2> QED
      BY <1>5, <1>9, <2>2, <2>3, <2>4, <2>5, <2>6 DEF IInv, Local
  <1> QED
    BY <1>10, <1>11

(* A late request does what its origin still wants, or nothing. *)
LEMMA HandleLateStep ==
    ASSUME IInv, NEW r \in late, HandleLate(r)
    PROVE  IInv'
  <1> USE DEF HandleLate, disk, root, loop, env
  <1>1. \A p \in Origins : Fields(p) /\ Local(p)
    BY FieldTypes DEF IInv
  <1>2. r \in Requests /\ r.origin \in Origins
    BY TypeParts DEF IInv, BackendType, Requests
  <1>3. window' \in Windows /\ deleted' \in BOOLEAN /\ expired' \in BOOLEAN
    BY <1>2, WindowTypes, FlagTypes, TypeParts DEF IInv
  <1>4. TypeOK'
    BY <1>3, TypeParts DEF IInv, BackendType, FlagType, DiskType, LoopType, EnvType
  <1>5. \A p \in Origins : SameLoop(p) /\ SameAt(p) /\ reply'[p] = reply[p] /\ Shape(p)'
    BY <1>1 DEF SameLoop, SameAt, Local, Shape, NoReply
  <1>6. \A p \in Origins : r.origin = p => r.op > 0 /\ r.op <= ops[p]
    BY <1>1 DEF Local, Drawn
  <1>7. CASE window' = window
    BY <1>1, <1>4, <1>5, <1>7, Frame DEF IInv
  <1>8. CASE r.kind = "open" /\ OpenStatus(r) = "accepted" /\ OpenOrReplaceReverseWindow(r)
    BY <1>1, <1>2, <1>4, <1>5, <1>6, <1>8, Opened DEF IInv
  <1>9. CASE r.kind = "consume" /\ ConsumeStatus(r) = "accepted" /\ ConsumeReverseWindow(r)
    <2>1. r.restore > 0
      BY <1>1, <1>2, <1>9 DEF Local, Drawn
    <2>2. \A p \in Origins : r.origin = p /\ r.op = intent[p].op => r.restore = intent[p].restore
      BY <1>1, <1>9 DEF Local, LateRequests
    <2>3. window \in Windows
      BY TypeParts DEF IInv, BackendType
    <2> QED
      BY <1>1, <1>2, <1>4, <1>5, <1>9, <2>1, <2>2, <2>3, Consumed DEF IInv
  <1> QED
    BY <1>7, <1>8, <1>9 DEF OpenOrReplaceReverseWindow, ConsumeReverseWindow

(* The row and the loops are left alone. *)
LEMMA OtherStep ==
    ASSUME IInv, Expire \/ BrowserDelete \/ BrowserClaim \/ \E o \in Origins : Deliver(o)
    PROVE  IInv'
  <1> USE DEF Expire, BrowserDelete, BrowserClaim, Deliver, disk, root, loop, env
  <1>1. FlagType'
    BY Zenon, TypeParts DEF IInv, FlagType
  <1>2. content \subseteq content' /\ content' \in SUBSET Versions
    BY TypeParts DEF IInv, BackendType, DiskType
  <1>3. TypeOK'
    BY <1>1, <1>2, TypeParts, BoundsAssumption
    DEF IInv, BackendType, DiskType, LoopType, EnvType
  <1>4. \A p \in Origins : SameAt(p) /\ Fields(p) /\ Local(p)
    BY FieldTypes DEF IInv, SameAt
  <1>5. window' = window /\ late' = late /\ writes' = writes
    OBVIOUS
  <1> QED
    BY <1>2, <1>3, <1>4, <1>5, Frame DEF IInv
-----------------------------------------------------------------------------
(* The root namespace's steps. *)

Roots == [deleted : BOOLEAN, claimed : BOOLEAN]

(* What a root projection is computed from. *)
LEMMA RootTypes ==
    ASSUME TypeOK, NEW o \in Origins, NEW m \in {mirror[o], Root}
    PROVE  m \in Roots
  <1>1. mirror[o] \in Roots
    BY TypeParts DEF FlagType, Roots
  <1>2. Root \in Roots
    BY TypeParts DEF FlagType, Root, Roots
  <1> QED
    BY <1>1, <1>2

(* Taking over root updates keeps the types. *)
LEMMA MirrorTypes ==
    ASSUME FlagType, NEW o \in Origins, NEW m \in Roots, Mirrored(o, m),
           UNCHANGED <<deleted, claimed, expired, projected, tracked>>
    PROVE  FlagType'
  BY DEF FlagType, Mirrored, Roots

(* A restored file that is gone again is a new deletion of the same generation. *)
LEMMA ReplaceAfterAbsenceStep ==
    ASSUME IInv, NEW o \in Origins, NEW m \in Roots, ReplaceAfterAbsence(o, m)
    PROVE  IInv'
  <1> USE DEF ReplaceAfterAbsence, Restoring, Become, Draw, backend, disk, env
  <1>1. Local(o) /\ Fields(o)
    BY FieldTypes DEF IInv
  <1>2. /\ Fresh(intent'[o], "tombstone_pending", ops[o] + 1, intent[o].gen)
        /\ ops'[o] = ops[o] + 1
    BY <1>1, TypeParts, FreshRows DEF IInv, LoopType, Fields
  <1>3. TypeOK'
    <2>1. FlagType'
      BY TypeParts, MirrorTypes DEF IInv
    <2> QED
      BY <1>1, <1>2, <2>1, TypeParts
      DEF IInv, LoopType, BackendType, DiskType, EnvType, Fields, Fresh
  <1>4. ASSUME NEW p \in Origins, p # o PROVE Local(p)'
    <2>1. SameAt(p)
      BY <1>4, TypeParts DEF IInv, LoopType, DiskType, SameAt
    <2> QED
      BY <2>1, Frame, FieldTypes DEF IInv
  <1>5. Local(o)'
    <2> USE <1>1, <1>2 DEF Local, Fields, Fresh
    <2>1. Shape(o)' /\ Drawn(o)' /\ Generations(o)'
      BY DEF Shape, NoReply, Drawn, Generations
    <2>2. Answers(o)' /\ Observations(o)' /\ Proven(o)'
      BY DEF Answers, Observations, Proven
    <2>3. LateRequests(o)'
      BY DEF LateRequests, Held, Drawn
    <2>4. Agrees(o)' /\ Recognised(o)'
      BY DEF Agrees, Accepted, Recognised, Drawn
    <2> QED
      BY <2>1, <2>2, <2>3, <2>4
  <1> QED
    BY <1>3, <1>4, <1>5 DEF IInv

(* Looking at the restored file changes no row. *)
LEMMA PrepareStep ==
    ASSUME IInv, NEW o \in Origins, NEW m \in Roots,
           MergeContent(o, m) \/ PrepareProjection(o, m)
    PROVE  IInv'
  <1> USE DEF MergeContent, PrepareProjection, Restoring, Goto, backend, disk, env
  <1>1. Local(o) /\ Fields(o)
    BY FieldTypes DEF IInv
  <1>2. /\ intent'[o] = intent[o] /\ reply'[o] = reply[o] /\ ops'[o] = ops[o]
        /\ \/ pc'[o] = "observed" /\ seen'[o] = file[o] /\ file[o] # Absent
           \/ pc'[o] = "projecting"
    BY <1>1, TypeParts DEF IInv, LoopType
  <1>3. TypeOK'
    <2>1. FlagType'
      BY TypeParts, MirrorTypes DEF IInv
    <2> QED
      BY <1>1, <2>1, TypeParts
      DEF IInv, LoopType, BackendType, DiskType, EnvType, Fields, Places
  <1>4. ASSUME NEW p \in Origins, p # o PROVE Local(p)'
    <2>1. SameAt(p)
      BY <1>4, TypeParts DEF IInv, LoopType, DiskType, SameAt
    <2> QED
      BY <2>1, Frame, FieldTypes DEF IInv
  <1>5. Local(o)'
    <2> USE <1>1, <1>2 DEF Local, Fields
    <2>1. Shape(o)' /\ Drawn(o)' /\ Generations(o)'
      BY DEF Shape, NoReply, Drawn, Generations
    <2>2. Answers(o)' /\ Observations(o)' /\ Proven(o)'
      BY DEF Answers, Observations, Proven
    <2>3. LateRequests(o)' /\ Agrees(o)' /\ Recognised(o)'
      BY DEF LateRequests, Held, Agrees, Recognised
    <2> QED
      BY <2>1, <2>2, <2>3
  <1> QED
    BY <1>3, <1>4, <1>5 DEF IInv

(* A projection without restore touches the file of an idle loop only. *)
LEMMA ProjectRootStep ==
    ASSUME IInv, NEW o \in Origins, NEW m \in Roots, ProjectRoot(o, m)
    PROVE  IInv'
  <1> USE DEF ProjectRoot, backend, loop, env
  <1>1. Local(o) /\ Fields(o)
    BY FieldTypes DEF IInv
  <1>2. /\ file' \in [Origins -> Files]
        /\ \A p \in Origins : file'[p] = file[p] \/ (p = o /\ file'[p] = Absent)
    BY TypeParts DEF IInv, DiskType, Files
  <1>3. FlagType'
    <2>1. mirror' \in [Origins -> [deleted : BOOLEAN, claimed : BOOLEAN]]
      BY TypeParts DEF IInv, FlagType, Mirrored, Roots
    <2>2. projected' \in [Origins -> BOOLEAN] /\ tracked' \in [Origins -> BOOLEAN]
      BY TypeParts DEF IInv, FlagType
    <2> QED
      BY <2>1, <2>2, TypeParts, Zenon DEF IInv, FlagType
  <1>4. TypeOK'
    BY <1>2, <1>3, TypeParts DEF IInv, LoopType, BackendType, DiskType, EnvType
  <1>5. ASSUME NEW p \in Origins, p # o PROVE Local(p)'
    <2>1. SameAt(p)
      BY <1>2, <1>5 DEF SameAt
    <2> QED
      BY <2>1, Frame, FieldTypes DEF IInv
  <1>6. Local(o)'
    <2> USE <1>1, <1>2 DEF Local, Fields
    <2>1. Shape(o)' /\ Drawn(o)' /\ Generations(o)' /\ Answers(o)'
      BY DEF Shape, NoReply, Drawn, Generations, Answers, Owns
    <2>2. Observations(o)'
      BY DEF Observations, Absent
    <2>3. LateRequests(o)' /\ Agrees(o)' /\ Recognised(o)' /\ Proven(o)'
      BY DEF LateRequests, Held, Agrees, Recognised, Proven
    <2> QED
      BY <2>1, <2>2, <2>3
  <1> QED
    BY <1>4, <1>5, <1>6 DEF IInv

(* Every way the root namespace can be reconciled. *)
LEMMA ReconcileStep ==
    ASSUME IInv, NEW o \in Origins, Reconcile(o)
    PROVE  IInv'
  <1>1. PICK m \in {mirror[o], Root} : ReconcileRootNamespace(o, m)
    BY DEF Reconcile
  <1>2. m \in Roots
    BY RootTypes DEF IInv
  <1> QED
    BY <1>1, <1>2, ReplaceAfterAbsenceStep, PrepareStep, ProjectRootStep
    DEF ReconcileRootNamespace
-----------------------------------------------------------------------------
(* The theorems. *)

(* The invariant holds initially ... *)
LEMMA InitInvariant == Init => IInv
  <1> SUFFICES ASSUME Init PROVE IInv
    OBVIOUS
  <1>1. Fresh(NoIntent, "none", 0, 0)
    BY FreshRows
  <1>2. TypeOK
    <2>1. FlagType
      BY DEF Init, FlagType, Root
    <2>2. BackendType
      BY BoundsAssumption DEF Init, BackendType, NoWindow, Windows, Versions
    <2>3. DiskType
      BY BoundsAssumption DEF Init, DiskType, Files, Versions
    <2>4. LoopType
      BY <1>1 DEF Init, LoopType, Fresh, Places, Files, NoReply, Replies, Statuses
    <2>5. EnvType
      BY BoundsAssumption DEF Init, EnvType
    <2> QED
      BY <2>1, <2>2, <2>3, <2>4, <2>5, TypeParts
  <1>3. ASSUME NEW o \in Origins PROVE Local(o)
    <2> USE <1>1 DEF Init, Fresh, NoWindow, NoReply
    <2>1. Shape(o) /\ Drawn(o) /\ Generations(o)
      BY DEF Shape, Drawn, Generations
    <2>2. Answers(o) /\ LateRequests(o) /\ Observations(o)
      BY DEF Answers, LateRequests, Observations
    <2>3. Agrees(o) /\ Recognised(o) /\ Proven(o)
      BY DEF Agrees, Accepted, Recognised, Proven
    <2> QED
      BY <2>1, <2>2, <2>3 DEF Local
  <1> QED
    BY <1>2, <1>3 DEF IInv

(* ... every step preserves it ... *)
LEMMA NextInvariant == IInv /\ [Next]_vars => IInv'
  <1> SUFFICES ASSUME IInv, [Next]_vars PROVE IInv'
    OBVIOUS
  <1>1. ASSUME NEW o \in Origins, Drive(o) PROVE IInv'
    BY <1>1, BeginDeleteStep, CancelDeleteStep, SendOpenStep, AcceptWindowStep,
       ReplaceAfterConflictStep, RetryLaterStep, CloseStep, BeginRestoreStep,
       ObserveContentStep, CaptureContentStep, ContentProvenStep, ContentMovedStep,
       RefreshObservationStep, SendConsumeStep, AcceptRestoreStep, FinalizeIntentStep,
       StoreProjectionStep, MaterializeStep
    DEF Drive
  <1>2. ASSUME NEW o \in Origins, Handle(o) \/ Reconcile(o) \/ Overdue(o) PROVE IInv'
    BY <1>2, HandleOpenStep, HandleConsumeStep, ReconcileStep, OverdueStep DEF Handle
  <1>3. ASSUME NEW o \in Origins, UserDelete(o) \/ UserWrite(o) \/ Abandon(o) PROVE IInv'
    BY <1>3, UserDeleteStep, UserWriteStep, AbandonStep
  <1>4. ASSUME NEW r \in late, HandleLate(r) PROVE IInv'
    BY <1>4, HandleLateStep
  <1>5. CASE Expire \/ BrowserDelete \/ BrowserClaim \/ \E o \in Origins : Deliver(o)
    BY <1>5, OtherStep
  <1>6. CASE UNCHANGED vars
    <2> USE <1>6 DEF vars, backend, disk, root, loop, env
    <2>1. TypeOK'
      BY TypeParts DEF IInv, BackendType, FlagType, DiskType, LoopType, EnvType
    <2>2. ASSUME NEW p \in Origins PROVE Local(p)'
      BY Frame, FieldTypes DEF IInv, SameAt
    <2> QED
      BY <2>1, <2>2 DEF IInv
  <1> QED
    BY <1>1, <1>2, <1>3, <1>4, <1>5, <1>6 DEF Next

(* ... and so it always holds. *)
LEMMA Invariant == Spec => []IInv
  BY InitInvariant, NextInvariant, PTL DEF Spec

(* Every behaviour keeps the variables in their types and the loop in the   *)
(* states that its phase admits.                                            *)
THEOREM WindowsTypeCorrect == Spec => []TypeOK
  BY Invariant, InvariantImplies, PTL

(* Whatever is lost, late or repeated, an accepted intent of the current    *)
(* generation owns the row, and one that waits for its projection has       *)
(* consumed it (acceptRootLocalDeleteWindow, ConsumeReverseWindow).         *)
THEOREM PhasesMatchTheWindow == Spec => []WindowAgrees
  BY Invariant, InvariantImplies, PTL

(* A restore whose answer was lost is recognised when it is repeated,       *)
(* because the restore operation survives every new observation.            *)
THEOREM RestoresAreRecognised == Spec => []ReplayRecognised
  BY Invariant, InvariantImplies, PTL

(* A daemon that asks for a restore has observed a file whose content the   *)
(* backend has (reconcileRootDeleteContent).                                *)
THEOREM RestoresAreProven == Spec => []RestoreProven
  BY Invariant, InvariantImplies, PTL

(* Only a transaction changes the row or removes the tombstone; an open     *)
(* request that is carried out is one its origin still wants.               *)
LEMMA Transactions ==
    ASSUME IInv, [Next]_vars
    PROVE  \/ window' = window /\ (deleted' = deleted \/ deleted')
           \/ \E r \in Requests : ConsumeReverseWindow(r)
           \/ \E r \in Requests :
                 /\ OpenOrReplaceReverseWindow(r)
                 /\ OpenStatus(r) = "accepted"
                       => /\ intent[r.origin].phase = "tombstone_pending"
                          /\ intent[r.origin].op = r.op
  <1> USE DEF backend, disk, root, loop, env
  <1>1. ASSUME NEW o \in Origins, Drive(o) \/ Overdue(o) \/ Reconcile(o)
        PROVE  UNCHANGED <<window, deleted>>
    BY <1>1
    DEF Drive, BeginDelete, CancelDelete, SendOpen, AcceptWindow, ReplaceAfterConflict,
        RetryLater, CloseWindow, CloseContent, CloseRestore, Decide, BeginRestore,
        ObserveContent, CaptureContent, ContentProven, ContentMoved, RefreshObservation,
        SendConsume, AcceptRestore, FinalizeIntent, StoreProjection, Materialize, Overdue,
        Reconcile, ReconcileRootNamespace, ReplaceAfterAbsence, MergeContent,
        PrepareProjection, ProjectRoot
  <1>2. ASSUME NEW o \in Origins, HandleOpen(o)
        PROVE  /\ Request(o) \in Requests /\ OpenOrReplaceReverseWindow(Request(o))
               /\ Request(o).origin = o /\ Request(o).op = intent[o].op
               /\ intent[o].phase = "tombstone_pending"
    BY <1>2, FieldTypes, RequestOf DEF IInv, HandleOpen, Local, Shape
  <1>3. ASSUME NEW o \in Origins, HandleConsume(o)
        PROVE  Request(o) \in Requests /\ ConsumeReverseWindow(Request(o))
    BY <1>3, FieldTypes, RequestOf DEF IInv, HandleConsume
  <1>4. ASSUME NEW r \in late, HandleLate(r), r.kind = "open"
        PROVE  /\ r \in Requests /\ OpenOrReplaceReverseWindow(r)
               /\ OpenStatus(r) = "accepted"
                     => /\ intent[r.origin].phase = "tombstone_pending"
                        /\ intent[r.origin].op = r.op
    <2>1. r \in Requests /\ r.origin \in Origins /\ r.gen \in Nat /\ window.gen \in Nat
      BY TypeParts DEF IInv, BackendType, Requests, Windows
    <2>2. OpenStatus(r) = "accepted" => ~Held(r) /\ r.gen = window.gen
      BY DEF OpenStatus
    <2>3. LateRequests(r.origin)
      BY <2>1 DEF IInv, Local
    <2> QED
      BY <1>4, <2>1, <2>2, <2>3 DEF LateRequests, HandleLate
  <1>5. ASSUME NEW r \in late, HandleLate(r), r.kind # "open"
        PROVE  r \in Requests /\ ConsumeReverseWindow(r)
    BY <1>5, TypeParts DEF IInv, BackendType, HandleLate
  <1>6. ASSUME NEW o \in Origins, UserDelete(o) \/ UserWrite(o) \/ Abandon(o) \/ Deliver(o)
        PROVE  UNCHANGED <<window, deleted>>
    BY <1>6 DEF UserDelete, UserWrite, Abandon, Deliver
  <1>7. CASE Expire \/ BrowserDelete \/ BrowserClaim \/ UNCHANGED vars
    BY <1>7 DEF Expire, BrowserDelete, BrowserClaim, vars
  <1> QED
    BY <1>1, <1>2, <1>3, <1>4, <1>5, <1>6, <1>7 DEF Next, Handle

(* A tombstone is undone only by consuming the open window of the current   *)
(* generation, and only once (ConsumeReverseWindow).                        *)
THEOREM TombstonesAreUndoneOnce == Spec => UndoneOnce
  <1>1. ASSUME IInv, [Next]_vars, deleted, ~deleted'
        PROVE  /\ ~window.consumed /\ ~expired
               /\ window' = [window EXCEPT !.consumed = TRUE, !.restore = window'.restore]
    <2>1. PICK r \in Requests : ConsumeStatus(r) = "accepted" /\ ConsumeReverseWindow(r)
      BY <1>1, Transactions DEF OpenOrReplaceReverseWindow, ConsumeReverseWindow
    <2>2. ~window.consumed /\ ~expired
      BY <2>1 DEF ConsumeStatus
    <2>3. window' = [window EXCEPT !.consumed = TRUE, !.restore = r.restore]
      BY <2>1 DEF ConsumeReverseWindow
    <2>4. window'.restore = r.restore
      BY <1>1, <2>3, TypeParts DEF IInv, BackendType, Windows
    <2> QED
      BY <2>2, <2>3, <2>4
  <1> QED
    BY <1>1, Invariant, PTL DEF Spec, UndoneOnce

(* No late request deletes a document on behalf of an intent that has moved *)
(* on to another operation (OpenOrReplaceReverseWindow).                    *)
THEOREM NoTombstoneIsStray == Spec => NoStrayTombstone
  <1>1. ASSUME IInv, [Next]_vars, window'.gen # window.gen
        PROVE  /\ window'.gen = window.gen + 1
               /\ intent[window'.origin].phase = "tombstone_pending"
               /\ intent[window'.origin].op = window'.op
    <2>1. ASSUME NEW r \in Requests, ConsumeReverseWindow(r) PROVE window'.gen = window.gen
      BY <1>1, <2>1, TypeParts DEF IInv, BackendType, Windows, ConsumeReverseWindow
    <2>2. PICK r \in Requests :
             /\ OpenOrReplaceReverseWindow(r)
             /\ OpenStatus(r) = "accepted"
                   => /\ intent[r.origin].phase = "tombstone_pending"
                      /\ intent[r.origin].op = r.op
      BY <1>1, <2>1, Transactions
    <2>3. /\ OpenStatus(r) = "accepted"
          /\ window'.gen = window.gen + 1 /\ window'.origin = r.origin /\ window'.op = r.op
      BY <1>1, <2>2 DEF OpenOrReplaceReverseWindow
    <2> QED
      BY <2>2, <2>3
  <1> QED
    BY <1>1, Invariant, PTL DEF Spec, NoStrayTombstone
=============================================================================
