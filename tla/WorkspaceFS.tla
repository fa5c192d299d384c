----------------------------- MODULE WorkspaceFS -----------------------------
(***************************************************************************)
(* The operations of WorkspaceFS and the SQLite path leases that serialise *)
(* them.  A thread acquires one lease per path, in path order, one SQL     *)
(* statement at a time, looks at the files, acts, and releases.  A lease   *)
(* is a row of path_locks; its random lease_token is abstracted to the     *)
(* thread that knows it.  Time is abstracted to the event that a row's     *)
(* expires_at passes.  Editors, which know nothing of the leases, are left *)
(* to DocumentSync.                                                        *)
(***************************************************************************)
EXTENDS Integers, FiniteSets

CONSTANTS
  Procs,      \* threads that use the workspace
  Paths,      \* workspace paths, numbered in the order sort.Strings puts them
  Slots,      \* the paths under .notty/recovered, numbered likewise
  Marks,      \* what files contain: a content is a set of marks
  NoFile,     \* a path without a file
  Unknown,    \* the zero projectedContentHash: nothing is expected
  Requests,   \* the operations the callers ask for
  NoOp,       \* no operation
  NoLease,    \* a path without a row in path_locks
  Nobody,     \* owns a row whose token no thread remembers
  SlowOps,    \* may an operation take longer than pathLockLeaseDuration?
  MaxFaults   \* bound on crashes, lock timeouts and failing releases

Contents == SUBSET Marks
AllPaths == Paths \cup Slots
AnySlot  == CHOOSE s \in Slots : TRUE

\* The operations WorkspaceFS offers; to, expected and content are only looked
\* at by the operations that have them.
Operations ==
  [kind : {"read", "append", "create", "write", "delete", "move", "archive"},
   path : Paths, to : Paths, expected : Contents \cup {Unknown}, content : Contents]

ASSUME WorkspaceAssumption ==
  /\ Paths \subseteq Nat /\ Slots \subseteq Nat /\ Paths \cap Slots = {} /\ Slots # {}
  /\ Requests \subseteq Operations
  /\ \A o \in Operations : o # NoOp
  /\ \A o \in Requests : o.kind = "move" => o.to # o.path
  /\ \A content \in Contents : content # NoFile /\ content # Unknown
  /\ \A row \in [owner : Procs \cup {Nobody}, expired : BOOLEAN] : row # NoLease
  /\ Nobody \notin Procs
  /\ SlowOps \in BOOLEAN /\ MaxFaults \in Nat

VARIABLES
  files,   \* what is on disk
  lease,   \* path_locks
  up,      \* the daemon runs
  pc,      \* where each thread is
  op,      \* the operation it executes
  slot,    \* where an archive goes
  held,    \* the leases it was granted
  result,  \* what the operation that is about to return has to say
  faults   \* crashes, timeouts and leaks so far

vars == <<files, lease, up, pc, op, slot, held, result, faults>>

Init ==
  /\ files \in [AllPaths -> Contents \cup {NoFile}]
  /\ lease = [path \in AllPaths |-> NoLease]
  /\ up = TRUE
  /\ pc = [p \in Procs |-> "idle"]
  /\ op = [p \in Procs |-> NoOp]
  /\ slot = [p \in Procs |-> AnySlot]
  /\ held = [p \in Procs |-> {}]
  /\ result = [p \in Procs |-> "none"]
  /\ faults = 0

-----------------------------------------------------------------------------
(* Locking *)

\* Mutant: the target is not locked.
SourceOnly(p) == {op[p].path}

\* lockPaths: a move and an archive lock their target as well.
Target(p) == IF op[p].kind = "archive" THEN slot[p] ELSE op[p].to
Needed(p) == {op[p].path} \cup (IF op[p].kind \in {"move", "archive"} THEN {Target(p)} ELSE {})

\* Mutant: the paths are locked in the order they were passed, not sorted.
AsPassed(p) == {IF op[p].path \in held[p] THEN Target(p) ELSE op[p].path}

\* The next path to lock, in sorted order.
NextPath(p) ==
  LET missing == Needed(p) \ held[p] IN
    {path \in missing : \A other \in missing : path <= other}

\* Mutant: an archive stays beside the file.
BeginBeside(p) ==
  /\ up /\ pc[p] = "idle"
  /\ \E o \in Requests : op' = [op EXCEPT ![p] = o] /\ slot' = [slot EXCEPT ![p] = o.path]
  /\ pc' = [pc EXCEPT ![p] = "lock"]
  /\ UNCHANGED <<files, lease, up, held, result, faults>>

\* A caller starts an operation; archivePath names the target of an archive.
Begin(p) ==
  /\ up /\ pc[p] = "idle"
  /\ \E o \in Requests, s \in Slots :
       /\ o.kind # "archive" => s = AnySlot
       /\ op' = [op EXCEPT ![p] = o]
       /\ slot' = [slot EXCEPT ![p] = s]
  /\ pc' = [pc EXCEPT ![p] = "lock"]
  /\ UNCHANGED <<files, lease, up, held, result, faults>>

\* Mutant: the upsert replaces a row whether it has expired or not.
AnyRow(path) == TRUE

\* The where clause of the upsert in tryAcquire.
Free(path) == lease[path] # NoLease => lease[path].expired

\* tryAcquire, granted
Acquire(p) ==
  /\ pc[p] = "lock"
  /\ \E path \in NextPath(p) :
       /\ Free(path)
       /\ lease' = [lease EXCEPT ![path] = [owner |-> p, expired |-> FALSE]]
       /\ held' = [held EXCEPT ![p] = @ \cup {path}]
       /\ pc' = [pc EXCEPT ![p] = IF Needed(p) \subseteq held[p] \cup {path}
                                  THEN "check" ELSE "lock"]
  /\ UNCHANGED <<files, up, op, slot, result, faults>>

\* tryAcquire, refused: give back what was granted and start over.
Refused(p) ==
  /\ pc[p] = "lock"
  /\ \E path \in NextPath(p) : ~Free(path)
  /\ pc' = [pc EXCEPT ![p] = "backoff"]
  /\ UNCHANGED <<files, lease, up, op, slot, held, result, faults>>

\* delete from path_locks where path_key = ? and lease_token = ?
DeleteOwn(p, path) ==
  lease' = IF lease[path] # NoLease /\ lease[path].owner = p
           THEN [lease EXCEPT ![path] = NoLease] ELSE lease

\* release, one statement per lease, last granted first
ReleaseOne(p) ==
  /\ pc[p] \in {"backoff", "release", "fail"}
  /\ \E path \in held[p] :
       /\ \A other \in held[p] : other <= path
       /\ DeleteOwn(p, path)
       /\ held' = [held EXCEPT ![p] = @ \ {path}]
  /\ UNCHANGED <<files, up, pc, op, slot, result, faults>>

\* lock sleeps 10ms and tries again.
Retry(p) ==
  /\ pc[p] = "backoff" /\ held[p] = {}
  /\ pc' = [pc EXCEPT ![p] = "lock"]
  /\ UNCHANGED <<files, lease, up, op, slot, held, result, faults>>

\* The deadline has passed, or a statement failed.
GiveUp(p) ==
  /\ faults < MaxFaults /\ faults' = faults + 1
  /\ (pc[p] = "backoff" /\ held[p] = {}) \/ pc[p] = "lock"
  /\ pc' = [pc EXCEPT ![p] = "fail"]
  /\ result' = [result EXCEPT ![p] = "error"]
  /\ UNCHANGED <<files, lease, up, op, slot, held>>

\* unlock is done: the operation returns its result to the caller.
Return(p) ==
  /\ pc[p] \in {"release", "fail"} /\ held[p] = {}
  /\ pc' = [pc EXCEPT ![p] = "idle"]
  /\ op' = [op EXCEPT ![p] = NoOp]
  /\ slot' = [slot EXCEPT ![p] = AnySlot]
  /\ result' = [result EXCEPT ![p] = "none"]
  /\ UNCHANGED <<files, lease, up, held, faults>>

\* The rows of threads that forget their tokens stay.
Forgotten(threads) ==
  [path \in AllPaths |->
     IF lease[path] # NoLease /\ lease[path].owner \in threads
     THEN [lease[path] EXCEPT !.owner = Nobody] ELSE lease[path]]

\* A statement of release fails; its caller ignores that, the rows stay.
LeakLeases(p) ==
  /\ pc[p] \in {"backoff", "release", "fail"} /\ held[p] # {}
  /\ faults < MaxFaults /\ faults' = faults + 1
  /\ held' = [held EXCEPT ![p] = {}]
  /\ lease' = Forgotten({p})
  /\ UNCHANGED <<files, up, pc, op, slot, result>>

\* expires_at of a row passes.  Unless operations are slow, no thread still
\* works under it then.
Expire(path) ==
  /\ lease[path] # NoLease /\ ~lease[path].expired
  /\ SlowOps \/ lease[path].owner = Nobody
  /\ lease' = [lease EXCEPT ![path].expired = TRUE]
  /\ UNCHANGED <<files, up, pc, op, slot, held, result, faults>>

-----------------------------------------------------------------------------
(* Working under the leases *)

\* os.ReadFile, with a missing file read as no bytes
Bytes(path) == IF files[path] = NoFile THEN {} ELSE files[path]

Diverged(o) == o.expected # Unknown /\ Bytes(o.path) # o.expected

\* ErrDivergedWorkingCopy, ErrUnsafeDelete, ErrPathCollision
Unsafe(o) ==
  \/ o.kind = "write" /\ Diverged(o)
  \/ o.kind = "delete" /\ files[o.path] # NoFile /\ Diverged(o)
  \/ o.kind = "move" /\ files[o.to] # NoFile

\* Early returns without error
Nothing(o) ==
  \/ o.kind = "read"
  \/ o.kind = "write" /\ ~Diverged(o) /\ files[o.path] = o.content
  \/ o.kind \in {"delete", "archive"} /\ files[o.path] = NoFile

\* An archive finds its target taken: unlock and choose another name.
SlotTaken(p) == op[p].kind = "archive" /\ files[op[p].path] # NoFile /\ files[slot[p]] # NoFile

Finish(p, outcome) ==
  /\ pc' = [pc EXCEPT ![p] = IF outcome = "ok" THEN "release" ELSE "fail"]
  /\ result' = [result EXCEPT ![p] = outcome]

Check(p) ==
  /\ pc[p] = "check"
  /\ \/ Unsafe(op[p]) /\ Finish(p, "error") /\ UNCHANGED slot
     \/ Nothing(op[p]) /\ Finish(p, "ok") /\ UNCHANGED slot
     \/ /\ SlotTaken(p)
        /\ \/ /\ \E s \in Slots \ {slot[p]} : slot' = [slot EXCEPT ![p] = s]
              /\ pc' = [pc EXCEPT ![p] = "backoff"]
              /\ UNCHANGED result
           \/ Finish(p, "error") /\ UNCHANGED slot
     \/ /\ ~Unsafe(op[p]) /\ ~Nothing(op[p]) /\ ~SlotTaken(p)
        /\ pc' = [pc EXCEPT ![p] = "act"]
        /\ UNCHANGED <<slot, result>>
  /\ UNCHANGED <<files, lease, up, op, held, faults>>

\* The one system call of a write (the rename of the staged file), a delete, a
\* move and an archive; os.Rename replaces its target.
Changed(p) ==
  LET o == op[p] IN
  CASE o.kind = "write"  -> [files EXCEPT ![o.path] = o.content]
    [] o.kind = "delete" -> [files EXCEPT ![o.path] = NoFile]
    [] OTHER             -> [files EXCEPT ![o.path] = NoFile, ![Target(p)] = files[o.path]]

Act(p) ==
  /\ pc[p] = "act" /\ op[p].kind \in {"write", "delete", "move", "archive"}
  /\ op[p].kind \in {"move", "archive"} => files[op[p].path] # NoFile
  /\ files' = Changed(p)
  /\ Finish(p, "ok")
  /\ UNCHANGED <<lease, up, op, slot, held, faults>>

\* commitReplacement on Windows: the staged file is renamed, the flush fails.
FlushFails(p) ==
  /\ pc[p] = "act" /\ op[p].kind = "write"
  /\ files' = Changed(p)
  /\ Finish(p, "error")
  /\ UNCHANGED <<lease, up, op, slot, held, faults>>

\* os.OpenFile with O_CREATE; an existing file is kept, by Append as it is and
\* by createEmptyOrRead because it accepts ErrExist.
OpenFile(p) ==
  /\ pc[p] = "act" /\ op[p].kind \in {"append", "create"}
  /\ files' = [files EXCEPT ![op[p].path] = Bytes(op[p].path)]
  /\ pc' = [pc EXCEPT ![p] = "opened"]
  /\ UNCHANGED <<lease, up, op, slot, held, result, faults>>

\* writeFullString appends some of the bytes.
AppendPart(p) ==
  /\ pc[p] = "opened" /\ op[p].kind = "append"
  /\ \E part \in SUBSET op[p].content :
       files' = [files EXCEPT ![op[p].path] = Bytes(op[p].path) \cup part]
  /\ UNCHANGED <<lease, up, pc, op, slot, held, result, faults>>

\* writeFullString is through, or the file that was created has been read back.
FinishOpened(p) ==
  /\ pc[p] = "opened"
  /\ files' = IF op[p].kind = "append"
              THEN [files EXCEPT ![op[p].path] = Bytes(op[p].path) \cup op[p].content]
              ELSE files
  /\ Finish(p, "ok")
  /\ UNCHANGED <<lease, up, op, slot, held, faults>>

\* A system call fails.  It changes nothing itself, but what the operation has
\* created, appended or copied before stays.
ActFails(p) ==
  /\ pc[p] \in {"act", "opened", "remove"}
  /\ Finish(p, "error")
  /\ UNCHANGED <<files, lease, up, op, slot, held, faults>>

\* copyThenRemove, when the archive is on another device; io.Copy may fail.
CopyToSlot(p) ==
  /\ pc[p] = "act" /\ op[p].kind = "archive"
  /\ files[op[p].path] # NoFile /\ files[slot[p]] = NoFile
  /\ \E part \in SUBSET files[op[p].path] :
       /\ files' = [files EXCEPT ![slot[p]] = part]
       /\ IF part = files[op[p].path]
          THEN pc' = [pc EXCEPT ![p] = "remove"] /\ UNCHANGED result
          ELSE Finish(p, "error")
  /\ UNCHANGED <<lease, up, op, slot, held, faults>>

RemoveSource(p) ==
  /\ pc[p] = "remove"
  /\ files' = [files EXCEPT ![op[p].path] = NoFile]
  /\ Finish(p, "ok")
  /\ UNCHANGED <<lease, up, op, slot, held, faults>>

-----------------------------------------------------------------------------
(* Crash and restart *)

Crash ==
  /\ up
  /\ faults < MaxFaults /\ faults' = faults + 1
  /\ up' = FALSE
  /\ pc' = [p \in Procs |-> "idle"]
  /\ op' = [p \in Procs |-> NoOp]
  /\ slot' = [p \in Procs |-> AnySlot]
  /\ held' = [p \in Procs |-> {}]
  /\ lease' = Forgotten(Procs)
  /\ result' = [p \in Procs |-> "none"]
  /\ UNCHANGED files

\* CleanupStaleLocks before the watchers and the reconciliation begin
Startup ==
  /\ ~up
  /\ up' = TRUE
  /\ lease' = [path \in AllPaths |->
                 IF lease[path] # NoLease /\ lease[path].expired THEN NoLease ELSE lease[path]]
  /\ UNCHANGED <<files, pc, op, slot, held, result, faults>>

-----------------------------------------------------------------------------

Lock(p)   == Acquire(p) \/ Refused(p) \/ ReleaseOne(p) \/ Retry(p) \/ GiveUp(p) \/ Return(p)
Open(p)   == OpenFile(p) \/ AppendPart(p) \/ FinishOpened(p)
Work(p)   == \/ Check(p) \/ Act(p) \/ FlushFails(p) \/ ActFails(p)
             \/ Open(p) \/ CopyToSlot(p) \/ RemoveSource(p)
Thread(p) == Begin(p) \/ Lock(p) \/ Work(p) \/ LeakLeases(p)

Next ==
  \/ \E p \in Procs : Thread(p)
  \/ \E path \in AllPaths : Expire(path)
  \/ Crash \/ Startup

Spec == Init /\ [][Next]_vars

\* Threads keep being scheduled, time passes, a crashed daemon is restarted.
Fairness ==
  /\ \A p \in Procs : WF_vars(Lock(p) \/ Work(p))
  /\ \A path \in AllPaths : WF_vars(Expire(path))
  /\ WF_vars(Startup)

FairSpec == Spec /\ Fairness

-----------------------------------------------------------------------------
(* Properties *)

PCs == {"idle", "lock", "backoff", "check", "act", "opened", "remove", "release", "fail"}

\* Files hold contents, rows name threads, threads execute requests.
TypeOK ==
  /\ files \in [AllPaths -> Contents \cup {NoFile}]
  /\ lease \in [AllPaths -> [owner : Procs \cup {Nobody}, expired : BOOLEAN] \cup {NoLease}]
  /\ up \in BOOLEAN
  /\ pc \in [Procs -> PCs]
  /\ op \in [Procs -> Operations \cup {NoOp}]
  /\ slot \in [Procs -> Slots]
  /\ held \in [Procs -> SUBSET AllPaths]
  /\ result \in [Procs -> {"none", "ok", "error"}]
  /\ faults \in Nat

Working(p) == pc[p] \in {"check", "act", "opened", "remove"}

\* Two threads never work on a common path at the same time.
MutualExclusion ==
  \A p, q \in Procs :
    p # q /\ Working(p) /\ Working(q) => Needed(p) \cap Needed(q) = {}

\* Neither crossing lock orders nor leases left behind by a crash or a failed
\* release keep all threads waiting for ever.
Waiting == {p \in Procs : pc[p] \in {"lock", "backoff"}}
SomebodyWorks == (Waiting # {}) ~> (\E p \in Procs : Working(p)) \/ Waiting = {}

\* The operation a caller still waits for the effect of.
Pending == [p \in Procs |->
  IF pc[p] \in {"lock", "backoff"} \/ Working(p) THEN op[p] ELSE NoOp]

\* The threads in the middle of an operation of several system calls.
HalfDone == {p \in Procs : pc[p] \in {"opened", "remove"}}

Atomic == INSTANCE AtomicFiles WITH request <- Pending, begun <- HalfDone

\* With other threads' steps, failing calls, crashes and leaked leases between
\* check and act, a write, a delete and a move are one step under exactly the
\* condition that was checked.  An append, a creation or an archive that fails
\* half-way leaves no more than the file it created and a part of the bytes,
\* and no other thread sees or changes its path meanwhile.
IsAtomic == Atomic!Spec
==============================================================================
