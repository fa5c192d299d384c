-------------------------- MODULE WorkspaceFSProofs --------------------------
(***************************************************************************)
(* Proofs about WorkspaceFS: with any number of threads, paths, crashes    *)
(* and leaked leases, as long as no operation outlives its lease, the      *)
(* leases exclude each other and every operation is atomic.                *)
(***************************************************************************)
EXTENDS WorkspaceFS, TLAPS

\* A thread that is not idle executes an operation it was asked for.
Busy == \A p \in Procs : pc[p] # "idle" => op[p] \in Requests

Typed == TypeOK /\ Busy

-----------------------------------------------------------------------------
(* Type correctness *)

LEMMA AnySlotType == AnySlot \in Slots
BY WorkspaceAssumption DEF AnySlot

\* What a thread that executes an operation needs are paths.
LEMMA NeededType ==
  ASSUME Typed, NEW p \in Procs, pc[p] # "idle"
  PROVE  /\ op[p] \in Operations
         /\ op[p].path \in Paths /\ op[p].to \in Paths /\ slot[p] \in Slots
         /\ Needed(p) \subseteq AllPaths
<1>1. op[p] \in Operations
  BY WorkspaceAssumption DEF Typed, Busy
<1>2. op[p].path \in Paths /\ op[p].to \in Paths /\ slot[p] \in Slots
  BY <1>1 DEF Typed, TypeOK, Operations
<1> QED
  BY <1>1, <1>2 DEF Needed, Target, AllPaths

\* A row that is forgotten stays a row.
LEMMA ForgottenType ==
  ASSUME TypeOK, NEW threads
  PROVE  Forgotten(threads) \in
           [AllPaths -> [owner : Procs \cup {Nobody}, expired : BOOLEAN] \cup {NoLease}]
BY DEF Forgotten, TypeOK

\* The steps of locking and unlocking preserve the types.
LEMMA TypeLock ==
  ASSUME Typed, NEW p \in Procs, Begin(p) \/ Lock(p) \/ LeakLeases(p)
  PROVE  Typed'
<1> USE DEF Typed, TypeOK, Busy, PCs
<1>1. CASE Begin(p)
  <2>1. Requests \subseteq Operations
    BY WorkspaceAssumption
  <2> QED
    BY <1>1, <2>1 DEF Begin
<1>2. CASE Acquire(p)
  <2>1. PICK path \in NextPath(p) :
          /\ lease' = [lease EXCEPT ![path] = [owner |-> p, expired |-> FALSE]]
          /\ held' = [held EXCEPT ![p] = @ \cup {path}]
          /\ pc' = [pc EXCEPT ![p] = IF Needed(p) \subseteq held[p] \cup {path}
                                     THEN "check" ELSE "lock"]
    BY <1>2 DEF Acquire
  <2>2. path \in AllPaths
    BY <1>2, NeededType DEF NextPath, Acquire
  <2>3. [owner |-> p, expired |-> FALSE] \in [owner : Procs \cup {Nobody}, expired : BOOLEAN]
    OBVIOUS
  <2> QED
    BY <1>2, <2>1, <2>2, <2>3 DEF Acquire
<1>3. CASE Refused(p) \/ Retry(p) \/ GiveUp(p)
  BY <1>3 DEF Refused, Retry, GiveUp
<1>4. CASE ReleaseOne(p)
  BY <1>4 DEF ReleaseOne, DeleteOwn
<1>5. CASE Return(p)
  BY <1>5, AnySlotType DEF Return
<1>6. CASE LeakLeases(p)
  <2>1. /\ faults' \in Nat
        /\ lease' \in [AllPaths -> [owner : Procs \cup {Nobody}, expired : BOOLEAN] \cup {NoLease}]
    BY <1>6, ForgottenType DEF LeakLeases
  <2> QED
    BY <1>6, <2>1 DEF LeakLeases
<1> QED
  BY <1>1, <1>2, <1>3, <1>4, <1>5, <1>6 DEF Lock

\* The steps under the leases are those of a thread at work.
LEMMA AtWork ==
  ASSUME NEW p \in Procs, Work(p)
  PROVE  Working(p) /\ UNCHANGED <<op, held, lease, up, faults>>
BY DEF Work, Check, Act, FlushFails, Open, OpenFile, AppendPart, FinishOpened, ActFails,
       CopyToSlot, RemoveSource, Working

\* So do the steps under the leases.
LEMMA TypeWork ==
  ASSUME Typed, NEW p \in Procs, Work(p)
  PROVE  Typed'
<1> USE DEF Typed, TypeOK, Busy, PCs
<1>0. pc[p] # "idle"
  BY AtWork DEF Working
<1>1. /\ op[p] \in Operations
      /\ op[p].path \in AllPaths /\ Target(p) \in AllPaths /\ slot[p] \in AllPaths
  BY <1>0, NeededType DEF Target, AllPaths
<1>2. CASE Check(p)
  BY <1>2 DEF Check, Finish
<1>b. Bytes(op[p].path) \in Contents /\ op[p].content \in Contents
  BY <1>1 DEF Bytes, Contents, Operations
<1>3. CASE Act(p) \/ FlushFails(p)
  <2>1. files' \in [AllPaths -> Contents \cup {NoFile}]
    BY <1>1, <1>3, <1>b DEF Act, FlushFails, Changed
  <2> QED
    BY <1>3, <2>1 DEF Act, FlushFails, Finish
<1>o. CASE Open(p)
  <2>1. \A part \in SUBSET op[p].content : Bytes(op[p].path) \cup part \in Contents
    BY <1>b DEF Contents
  <2>2. files' \in [AllPaths -> Contents \cup {NoFile}]
    <3>1. CASE OpenFile(p)
      BY <1>1, <1>b, <3>1 DEF OpenFile
    <3>2. CASE AppendPart(p)
      <4>1. PICK part \in SUBSET op[p].content :
              files' = [files EXCEPT ![op[p].path] = Bytes(op[p].path) \cup part]
        BY <3>2 DEF AppendPart
      <4>2. PICK content \in Contents : content = Bytes(op[p].path) \cup part
        BY <2>1
      <4> QED
        BY <1>1, <4>1, <4>2
    <3>3. CASE FinishOpened(p)
      <4>1. Bytes(op[p].path) \cup op[p].content \in Contents
        BY <2>1
      <4> QED
        BY <1>1, <3>3, <4>1 DEF FinishOpened
    <3> QED
      BY <1>o, <3>1, <3>2, <3>3 DEF Open
  <2> QED
    BY <1>o, <2>2 DEF Open, OpenFile, AppendPart, FinishOpened, Finish
<1>4. CASE ActFails(p)
  BY <1>4 DEF ActFails, Finish
<1>5. CASE CopyToSlot(p)
  <2>1. PICK part \in SUBSET files[op[p].path] :
          /\ files' = [files EXCEPT ![slot[p]] = part]
          /\ IF part = files[op[p].path]
             THEN pc' = [pc EXCEPT ![p] = "remove"] /\ UNCHANGED result
             ELSE Finish(p, "error")
    BY <1>5 DEF CopyToSlot
  <2>2. part \in Contents
    BY <1>1, <1>5 DEF CopyToSlot, Contents
  <2> QED
    BY <1>1, <1>5, <2>1, <2>2 DEF CopyToSlot, Finish
<1>6. CASE RemoveSource(p)
  BY <1>1, <1>6 DEF RemoveSource, Finish
<1> QED
  BY <1>2, <1>3, <1>o, <1>4, <1>5, <1>6 DEF Work

\* And the steps of time, crash and restart.
LEMMA TypeRest ==
  ASSUME Typed, (\E path \in AllPaths : Expire(path)) \/ Crash \/ Startup
  PROVE  Typed'
<1> USE DEF Typed, TypeOK, Busy, PCs
<1>1. ASSUME NEW path \in AllPaths, Expire(path)
      PROVE  Typed'
  BY <1>1 DEF Expire
<1>2. CASE Crash
  <2>1. /\ faults' \in Nat
        /\ lease' \in [AllPaths -> [owner : Procs \cup {Nobody}, expired : BOOLEAN] \cup {NoLease}]
    BY <1>2, ForgottenType DEF Crash
  <2> QED
    BY <1>2, <2>1, AnySlotType DEF Crash
<1>3. CASE Startup
  BY <1>3 DEF Startup
<1> QED
  BY <1>1, <1>2, <1>3

LEMMA TypedKept == Spec => []Typed
<1>1. Init => Typed
  BY AnySlotType DEF Init, Typed, TypeOK, Busy, PCs
<1>2. Typed /\ [Next]_vars => Typed'
  <2> SUFFICES ASSUME Typed, [Next]_vars
               PROVE  Typed'
    OBVIOUS
  <2>1. CASE Next
    BY <2>1, TypeLock, TypeWork, TypeRest DEF Next, Thread
  <2>2. CASE UNCHANGED vars
    BY <2>2 DEF Typed, TypeOK, Busy, vars
  <2> QED
    BY <2>1, <2>2
<1> QED
  BY <1>1, <1>2, PTL DEF Spec

\* Every reachable state is well typed: an archive always goes to the recovery
\* directory, a row always names a thread, a file holds a content.
THEOREM WorkspaceTypeCorrect == Spec => []TypeOK
<1>1. Typed => TypeOK
  BY DEF Typed
<1> QED
  BY <1>1, TypedKept, PTL

-----------------------------------------------------------------------------
(* Mutual exclusion *)

\* What a thread was granted and has not given back is still its own.
HeldRows ==
  \A p \in Procs : \A path \in held[p] :
    lease[path] # NoLease /\ lease[path].owner = p /\ ~lease[path].expired

\* A thread works only when it has been granted everything it needs.
AllGranted == \A p \in Procs : Working(p) => Needed(p) \subseteq held[p]

Exclusive == Typed /\ HeldRows /\ AllGranted

LEMMA ExclusiveStep ==
  ASSUME SlowOps = FALSE, Exclusive, Next
  PROVE  HeldRows' /\ AllGranted'
<1> USE DEF Exclusive, Typed, TypeOK
<1>1. ASSUME NEW p \in Procs, Begin(p)
      PROVE  HeldRows' /\ AllGranted'
  BY <1>1 DEF Begin, HeldRows, AllGranted, Working, Needed, Target
<1>2. ASSUME NEW p \in Procs, Acquire(p)
      PROVE  HeldRows' /\ AllGranted'
  <2>1. PICK path \in NextPath(p) :
          /\ Free(path)
          /\ lease' = [lease EXCEPT ![path] = [owner |-> p, expired |-> FALSE]]
          /\ held' = [held EXCEPT ![p] = @ \cup {path}]
          /\ pc' = [pc EXCEPT ![p] = IF Needed(p) \subseteq held[p] \cup {path}
                                     THEN "check" ELSE "lock"]
    BY <1>2 DEF Acquire
  <2>2. path \in AllPaths
    BY <1>2, NeededType DEF NextPath, Acquire
  <2>3. \A q \in Procs : path \notin held[q]
    BY <2>1 DEF HeldRows, Free
  <2>4. HeldRows'
    <3>1. /\ lease'[path] # NoLease /\ lease'[path].owner = p /\ lease'[path].expired = FALSE
          /\ \A other \in AllPaths : other # path => lease'[other] = lease[other]
      BY <2>1, <2>2, WorkspaceAssumption
    <3>2. \A q \in Procs : held'[q] = IF q = p THEN held[p] \cup {path} ELSE held[q]
      BY <2>1
    <3> QED
      BY <2>2, <2>3, <3>1, <3>2 DEF HeldRows
  <2>5. AllGranted'
    BY <1>2, <2>1 DEF Acquire, AllGranted, Working, Needed, Target
  <2> QED
    BY <2>4, <2>5
<1>3. ASSUME NEW p \in Procs, Refused(p) \/ Retry(p) \/ GiveUp(p)
      PROVE  HeldRows' /\ AllGranted'
  BY <1>3 DEF Refused, Retry, GiveUp, HeldRows, AllGranted, Working, Needed, Target
<1>4. ASSUME NEW p \in Procs, ReleaseOne(p)
      PROVE  HeldRows' /\ AllGranted'
  <2>1. PICK path \in held[p] :
          /\ DeleteOwn(p, path)
          /\ held' = [held EXCEPT ![p] = @ \ {path}]
    BY <1>4 DEF ReleaseOne
  <2>2. \A q \in Procs : q # p => path \notin held[q]
    BY <2>1 DEF HeldRows
  <2>3. HeldRows'
    BY <2>1, <2>2 DEF HeldRows, DeleteOwn
  <2>4. AllGranted'
    BY <1>4, <2>1 DEF ReleaseOne, AllGranted, Working, Needed, Target
  <2> QED
    BY <2>3, <2>4
<1>5. ASSUME NEW p \in Procs, Return(p)
      PROVE  HeldRows' /\ AllGranted'
  BY <1>5 DEF Return, HeldRows, AllGranted, Working, Needed, Target
<1>6. ASSUME NEW p \in Procs, LeakLeases(p)
      PROVE  HeldRows' /\ AllGranted'
  <2>1. /\ UNCHANGED <<pc, op, slot>> /\ pc[p] \in {"backoff", "release", "fail"}
        /\ \A q \in Procs : held'[q] = IF q = p THEN {} ELSE held[q]
    BY <1>6 DEF LeakLeases
  <2>2. \A path \in AllPaths : lease[path] # NoLease /\ lease[path].owner # p =>
          lease'[path] = lease[path]
    BY <1>6 DEF LeakLeases, Forgotten
  <2>3. HeldRows'
    BY <2>1, <2>2 DEF HeldRows
  <2> QED
    BY <2>1, <2>3 DEF AllGranted, Working, Needed, Target
<1>7. ASSUME NEW p \in Procs, Work(p)
      PROVE  HeldRows' /\ AllGranted'
  <2>1. HeldRows'
    BY <1>7, AtWork DEF HeldRows
  <2>2. AllGranted'
    <3>1. CASE Check(p)
      BY <3>1 DEF Check, Finish, AllGranted, Working, Needed, Target
    <3>2. CASE Act(p) \/ FlushFails(p) \/ ActFails(p) \/ CopyToSlot(p) \/ RemoveSource(p)
      BY <3>2 DEF Act, FlushFails, ActFails, CopyToSlot, RemoveSource, Finish, AllGranted,
                  Working, Needed, Target
    <3>3. CASE Open(p)
      BY <3>3 DEF Open, OpenFile, AppendPart, FinishOpened, Finish, AllGranted, Working,
                  Needed, Target
    <3> QED
      BY <1>7, <3>1, <3>2, <3>3 DEF Work
  <2> QED
    BY <2>1, <2>2
<1>8. ASSUME NEW path \in AllPaths, Expire(path)
      PROVE  HeldRows' /\ AllGranted'
  <2>1. lease[path].owner \notin Procs
    BY <1>8, WorkspaceAssumption DEF Expire
  <2>2. \A q \in Procs : path \notin held[q]
    BY <2>1 DEF HeldRows
  <2> QED
    BY <1>8, <2>2 DEF Expire, HeldRows, AllGranted, Working, Needed, Target
<1>9. CASE Crash
  BY <1>9 DEF Crash, HeldRows, AllGranted, Working
<1>10. CASE Startup
  <2>1. HeldRows'
    <3>1. ASSUME NEW q \in Procs, NEW path \in held[q]
          PROVE  lease'[path] = lease[path]
      <4>1. path \in AllPaths /\ ~lease[path].expired
        BY <3>1 DEF HeldRows
      <4> QED
        BY <1>10, <4>1 DEF Startup
    <3> QED
      BY <1>10, <3>1 DEF Startup, HeldRows
  <2> QED
    BY <1>10, <2>1 DEF Startup, AllGranted, Working, Needed, Target
<1> QED
  BY <1>1, <1>2, <1>3, <1>4, <1>5, <1>6, <1>7, <1>8, <1>9, <1>10 DEF Next, Thread, Lock

LEMMA ExclusiveKept == SlowOps = FALSE => (Spec => []Exclusive)
<1> SUFFICES ASSUME SlowOps = FALSE
             PROVE  Spec => []Exclusive
  OBVIOUS
<1>1. Init => HeldRows /\ AllGranted
  BY DEF Init, HeldRows, AllGranted, Working
<1>2. Typed /\ HeldRows /\ AllGranted /\ [Next]_vars => (HeldRows /\ AllGranted)'
  <2> SUFFICES ASSUME Typed, HeldRows, AllGranted, [Next]_vars
               PROVE  HeldRows' /\ AllGranted'
    OBVIOUS
  <2>1. CASE Next
    BY <2>1, ExclusiveStep DEF Exclusive
  <2>2. CASE UNCHANGED vars
    BY <2>2 DEF HeldRows, AllGranted, Working, Needed, Target, vars
  <2> QED
    BY <2>1, <2>2
<1> QED
  BY <1>1, <1>2, TypedKept, PTL DEF Spec, Exclusive

LEMMA ExclusiveMeans ==
  ASSUME Exclusive
  PROVE  MutualExclusion
BY DEF Exclusive, HeldRows, AllGranted, MutualExclusion

\* Two threads never work on a common path at the same time: tryAcquire grants a
\* path only when its row is gone or expired, and rows of threads at work do
\* neither, across crashes, restarts and releases that fail.
THEOREM LeasesExclude == SlowOps = FALSE => (Spec => []MutualExclusion)
<1>1. Exclusive => MutualExclusion
  BY ExclusiveMeans
<1> QED
  BY <1>1, ExclusiveKept, PTL

-----------------------------------------------------------------------------
(* Atomicity *)

\* What a thread found out by its check, on the files it will act on.
Ready(p) ==
  /\ op[p].kind # "read"
  /\ op[p].kind \in {"write", "delete"} => ~Diverged(op[p])
  /\ op[p].kind \in {"move", "archive"} => files[Target(p)] = NoFile

\* What it has done half-way: the file is there, the copy is complete.
Opened(p) == op[p].kind \in {"append", "create"} /\ files[op[p].path] # NoFile
Copied(p) == op[p].kind = "archive" /\ files[slot[p]] = files[op[p].path]

\* The check still holds when the thread acts, the file it opened is still there
\* and the copy still complete when it goes on.
Found(p) ==
  /\ pc[p] = "act" => Ready(p)
  /\ pc[p] = "opened" => Opened(p)
  /\ pc[p] = "remove" => Copied(p)

Checked == \A p \in Procs : Found(p)

\* A thread's findings depend on nothing but its operation and its paths.
LEMMA CheckedFrame ==
  ASSUME Typed, NEW p \in Procs, pc[p] # "idle",
         op'[p] = op[p], slot'[p] = slot[p],
         \A path \in Needed(p) : files'[path] = files[path]
  PROVE  (Ready(p) => Ready(p)') /\ (Opened(p) => Opened(p)') /\ (Copied(p) => Copied(p)')
<1>1. op[p].path \in Needed(p)
  BY DEF Needed
<1>2. op[p].kind \in {"move", "archive"} => Target(p) \in Needed(p) /\ Target(p)' = Target(p)
  BY DEF Needed, Target
<1>3. op[p].kind = "archive" => slot[p] \in Needed(p)
  BY DEF Needed, Target
<1> QED
  BY <1>1, <1>2, <1>3 DEF Ready, Opened, Copied, Diverged, Bytes

\* A thread at work changes files at its own paths only.
LEMMA WorkFrame ==
  ASSUME Typed, Checked, NEW q \in Procs, Work(q)
  PROVE  /\ Working(q)
         /\ \A path \in AllPaths : path \notin Needed(q) => files'[path] = files[path]
         /\ \A p \in Procs : p # q => pc'[p] = pc[p] /\ op'[p] = op[p] /\ slot'[p] = slot[p]
<1> USE DEF Typed, TypeOK
<1>1. Working(q) /\ pc[q] # "idle"
  BY AtWork DEF Working
<1>2. \A p \in Procs : p # q => pc'[p] = pc[p] /\ op'[p] = op[p] /\ slot'[p] = slot[p]
  BY DEF Work, Check, Act, FlushFails, Open, OpenFile, AppendPart, FinishOpened, ActFails,
         CopyToSlot, RemoveSource, Finish
<1>3. op[q].path \in Needed(q) /\ op[q] \in Operations
  BY <1>1, NeededType DEF Needed
<1>4. op[q].kind \in {"move", "archive"} => Target(q) \in Needed(q)
  BY DEF Needed
<1>5. ASSUME NEW path \in AllPaths, path \notin Needed(q)
      PROVE  files'[path] = files[path]
  <2>1. CASE Check(q) \/ ActFails(q)
    BY <2>1 DEF Check, ActFails
  <2>2. CASE Act(q) \/ FlushFails(q)
    <3>1. CASE op[q].kind \in {"move", "archive"}
      BY <1>3, <1>4, <1>5, <2>2, <3>1 DEF Act, FlushFails, Changed
    <3>2. CASE op[q].kind \in {"write", "delete"}
      BY <1>3, <1>5, <2>2, <3>2 DEF Act, FlushFails, Changed
    <3> QED
      BY <2>2, <3>1, <3>2 DEF Act, FlushFails
  <2>5. CASE Open(q)
    BY <1>3, <1>5, <2>5 DEF Open, OpenFile, AppendPart, FinishOpened
  <2>3. CASE CopyToSlot(q)
    BY <1>4, <1>5, <2>3 DEF CopyToSlot, Target
  <2>4. CASE RemoveSource(q)
    BY <1>3, <1>5, <2>4 DEF RemoveSource
  <2> QED
    BY <2>1, <2>2, <2>3, <2>4, <2>5 DEF Work
<1> QED
  BY <1>1, <1>2, <1>5

LEMMA CheckedStep ==
  ASSUME Exclusive, Checked, Next
  PROVE  Checked'
<1>0. Typed /\ MutualExclusion
  BY ExclusiveMeans DEF Exclusive
<1> USE DEF Typed, TypeOK
<1> DEFINE Acting == {"act", "opened", "remove"}
<1>1. ASSUME UNCHANGED files,
             \A p \in Procs : pc'[p] \in Acting =>
               pc'[p] = pc[p] /\ op'[p] = op[p] /\ slot'[p] = slot[p]
      PROVE  Checked'
  <2> SUFFICES ASSUME NEW p \in Procs, pc'[p] \in Acting
               PROVE  Found(p)'
    BY DEF Checked, Found
  <2>1. pc'[p] = pc[p] /\ pc[p] # "idle" /\ op'[p] = op[p] /\ slot'[p] = slot[p]
    BY <1>1
  <2>2. (Ready(p) => Ready(p)') /\ (Opened(p) => Opened(p)') /\ (Copied(p) => Copied(p)')
    BY <1>0, <1>1, <2>1, CheckedFrame
  <2> QED
    BY <2>1, <2>2 DEF Checked, Found
<1>2. ASSUME NEW q \in Procs, Begin(q) \/ Lock(q) \/ LeakLeases(q)
      PROVE  Checked'
  <2>1. /\ UNCHANGED files
        /\ \A p \in Procs : pc'[p] \in Acting =>
             pc'[p] = pc[p] /\ op'[p] = op[p] /\ slot'[p] = slot[p]
    BY <1>0, <1>2 DEF Begin, Lock, LeakLeases, Acquire, Refused, ReleaseOne, Retry, GiveUp, Return
  <2> QED
    BY <1>1, <2>1
<1>3. ASSUME NEW q \in Procs, Work(q)
      PROVE  Checked'
  <2>1. ASSUME NEW p \in Procs, p # q
        PROVE  Found(p)'
    <3>1. SUFFICES ASSUME pc[p] \in Acting
                   PROVE  /\ Ready(p) => Ready(p)'
                          /\ Opened(p) => Opened(p)'
                          /\ Copied(p) => Copied(p)'
      BY <1>0, <1>3, <2>1, WorkFrame DEF Checked, Found
    <3>2. Needed(p) \cap Needed(q) = {} /\ Needed(p) \subseteq AllPaths
      BY <1>0, <1>3, <2>1, <3>1, WorkFrame, NeededType DEF MutualExclusion, Working
    <3>3. \A path \in Needed(p) : files'[path] = files[path]
      BY <1>0, <1>3, <3>2, WorkFrame
    <3> QED
      BY <1>0, <1>3, <2>1, <3>1, <3>3, WorkFrame, CheckedFrame
  <2>2. Found(q)'
    <3>1. /\ pc[q] # "idle" /\ op[q] \in Operations
          /\ op[q].path \in Paths /\ op[q].path \in AllPaths /\ slot[q] \in Slots
      BY <1>0, <1>3, AtWork, NeededType DEF Working, AllPaths
    <3>2. CASE Check(q)
      <4>1. SUFFICES ASSUME pc'[q] \in Acting
                     PROVE  pc'[q] = "act" /\ Ready(q)'
        BY DEF Found
      <4>2. /\ ~Unsafe(op[q]) /\ ~Nothing(op[q]) /\ ~SlotTaken(q) /\ pc'[q] = "act"
            /\ UNCHANGED <<files, op, slot>>
        BY <1>0, <3>2, <4>1 DEF Check, Finish
      <4>3. Ready(q)
        BY <4>2 DEF Ready, Unsafe, Nothing, SlotTaken, Target
      <4> QED
        BY <4>2, <4>3 DEF Ready, Target, Diverged, Bytes
    <3>3. CASE CopyToSlot(q)
      <4>1. SUFFICES ASSUME pc'[q] \in Acting
                     PROVE  pc'[q] = "remove" /\ Copied(q)'
        BY DEF Found
      <4>2. /\ pc'[q] = "remove" /\ op[q].kind = "archive" /\ UNCHANGED <<op, slot>>
            /\ files' = [files EXCEPT ![slot[q]] = files[op[q].path]]
        BY <1>0, <3>3, <4>1 DEF CopyToSlot, Finish
      <4>3. slot[q] \in AllPaths /\ op[q].path \in AllPaths /\ slot[q] # op[q].path
        BY <3>1, WorkspaceAssumption DEF AllPaths
      <4> QED
        BY <1>0, <4>2, <4>3 DEF Copied
    <3>4. CASE OpenFile(q) \/ AppendPart(q)
      <4>1. /\ pc'[q] = "opened" /\ op' = op
            /\ op[q].kind \in {"append", "create"}
        BY <1>0, <3>4 DEF OpenFile, AppendPart
      <4>2. Bytes(op[q].path) \in Contents /\ op[q].content \in Contents
        BY <1>0, <3>1 DEF Bytes, Contents, Operations
      <4>3. \A part \in SUBSET op[q].content : Bytes(op[q].path) \cup part \in Contents
        BY <4>2 DEF Contents
      <4>4. files'[op[q].path] \in Contents
        BY <1>0, <3>1, <3>4, <4>2, <4>3 DEF OpenFile, AppendPart
      <4>5. files'[op[q].path] # NoFile
        BY <4>4, WorkspaceAssumption
      <4> QED
        BY <4>1, <4>5 DEF Found, Opened
    <3>5. CASE Act(q) \/ FlushFails(q) \/ FinishOpened(q) \/ ActFails(q) \/ RemoveSource(q)
      BY <1>0, <3>5 DEF Act, FlushFails, FinishOpened, ActFails, RemoveSource, Finish, Found
    <3> QED
      BY <1>3, <3>2, <3>3, <3>4, <3>5 DEF Work, Open
  <2> QED
    BY <2>1, <2>2 DEF Checked
<1>4. CASE (\E path \in AllPaths : Expire(path)) \/ Crash \/ Startup
  <2>1. /\ UNCHANGED files
        /\ \A p \in Procs : pc'[p] \in Acting =>
             pc'[p] = pc[p] /\ op'[p] = op[p] /\ slot'[p] = slot[p]
    BY <1>0, <1>4 DEF Expire, Crash, Startup
  <2> QED
    BY <1>1, <2>1
<1> QED
  BY <1>2, <1>3, <1>4 DEF Next, Thread

Unanswered == {"lock", "backoff", "check", "act", "opened", "remove"}

\* The operation a step of thread q is about, seen from the abstract side.
LEMMA PendingStep ==
  ASSUME Typed, NEW q \in Procs,
         \A p \in Procs : p # q => pc'[p] = pc[p] /\ op'[p] = op[p]
  PROVE  /\ Pending \in [Procs -> Operations \cup {NoOp}]
         /\ Pending' = [Pending EXCEPT ![q] = Pending'[q]]
         /\ \A p \in Procs : Pending[p] = IF pc[p] \in Unanswered THEN op[p] ELSE NoOp
         /\ \A p \in Procs : Pending'[p] = IF pc'[p] \in Unanswered THEN op'[p] ELSE NoOp
<1>1. Pending \in [Procs -> Operations \cup {NoOp}]
  BY DEF Pending, Typed, TypeOK
<1> QED
  BY <1>1 DEF Pending, Working, Unanswered

\* And whether it is half-way.
LEMMA HalfDoneStep ==
  ASSUME Typed, NEW q \in Procs, \A p \in Procs : p # q => pc'[p] = pc[p]
  PROVE  HalfDone' = IF pc'[q] \in {"opened", "remove"} THEN HalfDone \cup {q} ELSE HalfDone \ {q}
BY DEF HalfDone

\* No other thread is half-way on a path of a thread at work.
LEMMA NobodyHalfWay ==
  ASSUME Exclusive, NEW q \in Procs, Working(q)
  PROVE  Atomic!Undisturbed(q)
<1>1. Typed /\ MutualExclusion
  BY ExclusiveMeans DEF Exclusive
<1>2. Pending[q] = op[q] /\ op[q].path \in Needed(q) /\ (op[q].kind = "move" => op[q].to \in Needed(q))
  BY DEF Pending, Needed, Target
<1>3. ASSUME NEW r \in HalfDone \ {q}
      PROVE  Pending[r] = op[r] /\ op[r].path \in Needed(r) /\ Needed(r) \cap Needed(q) = {}
  <2>1. r \in Procs /\ Working(r)
    BY DEF HalfDone, Working
  <2> QED
    BY <1>1, <2>1 DEF Pending, Needed, MutualExclusion
<1> QED
  BY <1>2, <1>3 DEF Atomic!Undisturbed

\* Finishing an operation answers the abstract request.
LEMMA DoneStep ==
  ASSUME Typed, NEW q \in Procs, NEW outcome, UNCHANGED op, Finish(q, outcome),
         pc[q] \in Unanswered
  PROVE  Atomic!Done(q, outcome) /\ Pending[q] = op[q]
<1> USE DEF Typed, TypeOK
<1>1. \A p \in Procs : p # q => pc'[p] = pc[p] /\ op'[p] = op[p]
  BY DEF Finish
<1>2. pc'[q] \in {"release", "fail"}
  BY DEF Finish
<1>3. Pending[q] = op[q] /\ Pending'[q] = NoOp /\ Pending' = [Pending EXCEPT ![q] = Pending'[q]]
  BY <1>1, <1>2, PendingStep DEF Unanswered
<1>4. op[q] # NoOp
  BY NeededType, WorkspaceAssumption DEF Unanswered
<1>5. HalfDone' = HalfDone \ {q}
  BY <1>1, <1>2, HalfDoneStep
<1> QED
  BY <1>3, <1>4, <1>5 DEF Atomic!Done, Finish

\* A thread that stays at its operation keeps the abstract request.
LEMMA KeepStep ==
  ASSUME Typed, NEW q \in Procs, UNCHANGED op, pc[q] \in Unanswered, pc'[q] \in Unanswered,
         \A p \in Procs : p # q => pc'[p] = pc[p]
  PROVE  Pending[q] = op[q] /\ UNCHANGED Pending
<1>1. \A p \in Procs : p # q => pc'[p] = pc[p] /\ op'[p] = op[p]
  OBVIOUS
<1>2. /\ Pending[q] = op[q] /\ Pending'[q] = op[q]
      /\ Pending' = [Pending EXCEPT ![q] = Pending'[q]]
      /\ Pending \in [Procs -> Operations \cup {NoOp}]
  BY <1>1, PendingStep
<1> QED
  BY <1>2

\* One that has changed files and is not done proceeds.
LEMMA ProceedStep ==
  ASSUME Exclusive, NEW q \in Procs, UNCHANGED <<op, result>>, Working(q),
         pc' = [pc EXCEPT ![q] = pc'[q]], pc'[q] \in {"opened", "remove"}
  PROVE  Atomic!Proceed(q) /\ Pending[q] = op[q]
<1>1. Typed /\ pc[q] \in Unanswered /\ pc'[q] \in Unanswered
  BY DEF Exclusive, Working, Unanswered
<1>2. \A p \in Procs : p # q => pc'[p] = pc[p]
  BY <1>1 DEF Typed, TypeOK
<1>3. Pending[q] = op[q] /\ UNCHANGED Pending
  BY <1>1, <1>2, KeepStep
<1>4. op[q] # NoOp
  BY <1>1, NeededType, WorkspaceAssumption DEF Unanswered
<1>5. HalfDone' = HalfDone \cup {q}
  BY <1>1, <1>2, HalfDoneStep
<1> QED
  BY <1>3, <1>4, <1>5, NobodyHalfWay DEF Atomic!Proceed

AbstractVars == <<files, Pending, HalfDone, result>>

\* One step of a thread at work is an abstract step or nothing.
LEMMA AtomicWork ==
  ASSUME Exclusive, Checked, NEW q \in Procs, Work(q)
  PROVE  Atomic!Next \/ UNCHANGED AbstractVars
<1>0. Typed /\ Working(q) /\ UNCHANGED op
  BY AtWork DEF Exclusive
<1>u. Atomic!Undisturbed(q)
  BY <1>0, NobodyHalfWay
<1> USE DEF Typed, TypeOK
<1>1. /\ pc[q] \in Unanswered /\ op[q] \in Operations
      /\ op[q].path \in Paths /\ op[q].to \in Paths /\ slot[q] \in Slots
  BY <1>0, NeededType DEF Working, Unanswered
<1>2. op[q] # NoOp
  BY <1>1, WorkspaceAssumption
<1>3. ASSUME Finish(q, "error"), UNCHANGED files
      PROVE  Atomic!Next
  <2>1. Atomic!Refuse(q)
    BY <1>0, <1>1, <1>3, DoneStep DEF Atomic!Refuse
  <2> QED
    BY <2>1 DEF Atomic!Next
<1>4. ASSUME Finish(q, "ok"), UNCHANGED files, Atomic!AlreadyDone(op[q])
      PROVE  Atomic!Next
  <2>1. Atomic!Done(q, "ok") /\ Pending[q] = op[q]
    BY <1>0, <1>1, <1>4, DoneStep
  <2>2. Atomic!Skip(q)
    BY <1>u, <1>4, <2>1 DEF Atomic!Skip
  <2> QED
    BY <2>2 DEF Atomic!Next
<1>5. ASSUME Finish(q, "ok"), Atomic!Effect(op[q])
      PROVE  Atomic!Next
  <2>1. Atomic!Done(q, "ok") /\ Pending[q] = op[q]
    BY <1>0, <1>1, <1>5, DoneStep
  <2>2. Atomic!Perform(q)
    BY <1>u, <1>5, <2>1 DEF Atomic!Perform
  <2> QED
    BY <2>2 DEF Atomic!Next
<1>6. CASE Check(q)
  <2>1. pc[q] = "check" /\ UNCHANGED files
    BY <1>6 DEF Check
  <2>2. CASE Finish(q, "error")
    BY <1>3, <2>1, <2>2
  <2>3. CASE Nothing(op[q]) /\ Finish(q, "ok")
    <3>1. Atomic!AlreadyDone(op[q])
      BY <2>3 DEF Nothing, Atomic!AlreadyDone, Atomic!Matches, Diverged, Bytes, Atomic!Bytes
    <3> QED
      BY <1>4, <2>1, <2>3, <3>1
  <2>4. CASE /\ pc' = [pc EXCEPT ![q] = "backoff"] \/ pc' = [pc EXCEPT ![q] = "act"]
             /\ UNCHANGED result
    <3>1. pc'[q] \in {"backoff", "act"} /\ \A p \in Procs : p # q => pc'[p] = pc[p]
      BY <1>0, <2>4
    <3>2. UNCHANGED Pending
      BY <1>0, <1>1, <3>1, KeepStep DEF Unanswered
    <3>3. UNCHANGED HalfDone
      BY <1>0, <2>1, <3>1, HalfDoneStep DEF HalfDone
    <3> QED
      BY <2>1, <2>4, <3>2, <3>3 DEF AbstractVars
  <2> QED
    BY <1>6, <2>2, <2>3, <2>4 DEF Check
<1>7. ASSUME pc[q] = "act", files' = Changed(q), op[q].kind \in {"write", "delete"}
      PROVE  Atomic!Effect(op[q])
  <2>1. Ready(q)
    BY <1>7 DEF Checked, Found
  <2>2. Atomic!Matches(op[q])
    BY <1>7, <2>1 DEF Ready, Diverged, Bytes, Atomic!Matches, Atomic!Bytes
  <2> QED
    BY <1>7, <2>2 DEF Changed, Atomic!Effect
<1>8. CASE Act(q)
  <2>1. pc[q] = "act" /\ Finish(q, "ok") /\ files' = Changed(q) /\ Ready(q)
    BY <1>8 DEF Act, Checked, Found
  <2>2. CASE op[q].kind \in {"write", "delete"}
    BY <1>5, <1>7, <2>1, <2>2
  <2>3. CASE op[q].kind = "move"
    <3>1. files[op[q].path] # NoFile /\ files[op[q].to] = NoFile
      BY <1>8, <2>1, <2>3 DEF Act, Ready, Target
    <3>2. files' = [files EXCEPT ![op[q].path] = NoFile, ![op[q].to] = files[op[q].path]]
      BY <2>1, <2>3 DEF Changed, Target
    <3>3. Atomic!Effect(op[q])
      BY <2>3, <3>1, <3>2 DEF Atomic!Effect
    <3> QED
      BY <1>5, <2>1, <3>3
  <2>4. CASE op[q].kind = "archive"
    <3>1. files[op[q].path] # NoFile /\ files[slot[q]] = NoFile
      BY <1>8, <2>1, <2>4 DEF Act, Ready, Target
    <3>2. files' = [files EXCEPT ![op[q].path] = NoFile, ![slot[q]] = files[op[q].path]]
      BY <2>1, <2>4 DEF Changed, Target
    <3>3. Atomic!Effect(op[q])
      BY <1>1, <2>4, <3>1, <3>2 DEF Atomic!Effect
    <3> QED
      BY <1>5, <2>1, <3>3
  <2> QED
    BY <1>8, <2>2, <2>3, <2>4 DEF Act
<1>9. CASE FlushFails(q)
  <2>1. pc[q] = "act" /\ op[q].kind = "write" /\ files' = Changed(q) /\ Finish(q, "error")
    BY <1>9 DEF FlushFails
  <2>2. Atomic!Done(q, "error") /\ Pending[q] = op[q]
    BY <1>0, <1>1, <2>1, DoneStep
  <2>3. Atomic!Effect(op[q])
    BY <1>7, <2>1
  <2>4. Atomic!Unflushed(q)
    BY <1>u, <2>1, <2>2, <2>3 DEF Atomic!Unflushed
  <2> QED
    BY <2>4 DEF Atomic!Next
<1>10. CASE ActFails(q)
  BY <1>3, <1>10 DEF ActFails
<1>11. CASE OpenFile(q)
  <2>1. /\ pc' = [pc EXCEPT ![q] = "opened"] /\ UNCHANGED result
        /\ op[q].kind \in {"append", "create"}
        /\ files' = [files EXCEPT ![op[q].path] = Bytes(op[q].path)]
    BY <1>11 DEF OpenFile
  <2>2. pc'[q] = "opened"
    BY <1>0, <2>1
  <2>3. Atomic!Proceed(q) /\ Pending[q] = op[q]
    BY <1>0, <2>1, <2>2, ProceedStep
  <2>4. Atomic!Open(q)
    BY <2>1, <2>3 DEF Atomic!Open, Bytes, Atomic!Bytes
  <2> QED
    BY <2>4 DEF Atomic!Next
<1>12. CASE AppendPart(q)
  <2>1. PICK part \in SUBSET op[q].content :
          files' = [files EXCEPT ![op[q].path] = Bytes(op[q].path) \cup part]
    BY <1>12 DEF AppendPart
  <2>2. pc[q] = "opened" /\ op[q].kind = "append" /\ UNCHANGED <<pc, result>>
    BY <1>12 DEF AppendPart
  <2>3. pc'[q] = "opened" /\ pc' = [pc EXCEPT ![q] = pc'[q]]
    BY <1>0, <2>2
  <2>4. Atomic!Proceed(q) /\ Pending[q] = op[q]
    BY <1>0, <2>2, <2>3, ProceedStep
  <2>5. q \in HalfDone
    BY <2>2 DEF HalfDone
  <2>6. Atomic!AppendPart(q)
    BY <2>1, <2>2, <2>4, <2>5 DEF Atomic!AppendPart, Bytes, Atomic!Bytes
  <2> QED
    BY <2>6 DEF Atomic!Next
<1>13. CASE FinishOpened(q)
  <2>1. pc[q] = "opened" /\ Finish(q, "ok") /\ Opened(q)
    BY <1>13 DEF FinishOpened, Checked, Found
  <2>2. CASE op[q].kind = "append"
    <3>1. Atomic!Effect(op[q])
      BY <1>13, <2>2 DEF FinishOpened, Atomic!Effect, Bytes, Atomic!Bytes
    <3> QED
      BY <1>5, <2>1, <3>1
  <2>3. CASE op[q].kind = "create"
    <3>1. Atomic!AlreadyDone(op[q]) /\ UNCHANGED files
      BY <1>13, <2>1, <2>3 DEF FinishOpened, Opened, Atomic!AlreadyDone
    <3> QED
      BY <1>4, <2>1, <3>1
  <2> QED
    BY <2>1, <2>2, <2>3 DEF Opened
<1>14. CASE CopyToSlot(q)
  <2>1. PICK part \in SUBSET files[op[q].path] :
          /\ files' = [files EXCEPT ![slot[q]] = part]
          /\ \/ pc' = [pc EXCEPT ![q] = "remove"] /\ UNCHANGED result
             \/ Finish(q, "error")
    BY <1>14 DEF CopyToSlot
  <2>2. /\ op[q].kind = "archive"
        /\ files[op[q].path] # NoFile /\ files[slot[q]] = NoFile
    BY <1>14 DEF CopyToSlot
  <2>3. CASE pc' = [pc EXCEPT ![q] = "remove"] /\ UNCHANGED result
    <3>1. pc'[q] = "remove"
      BY <1>0, <2>3
    <3>2. Atomic!Proceed(q) /\ Pending[q] = op[q]
      BY <1>0, <2>3, <3>1, ProceedStep
    <3>3. Atomic!CopyPart(q)
      BY <1>1, <1>2, <1>u, <2>1, <2>2, <3>2 DEF Atomic!CopyPart
    <3> QED
      BY <3>3 DEF Atomic!Next
  <2>4. CASE Finish(q, "error")
    <3>1. Atomic!Done(q, "error") /\ Pending[q] = op[q]
      BY <1>0, <1>1, <2>4, DoneStep
    <3>2. Atomic!CopyPart(q)
      BY <1>1, <1>2, <1>u, <2>1, <2>2, <3>1 DEF Atomic!CopyPart
    <3> QED
      BY <3>2 DEF Atomic!Next
  <2> QED
    BY <2>1, <2>3, <2>4
<1>15. CASE RemoveSource(q)
  <2>1. pc[q] = "remove" /\ Finish(q, "ok") /\ files' = [files EXCEPT ![op[q].path] = NoFile]
    BY <1>15 DEF RemoveSource
  <2>2. Copied(q) /\ q \in HalfDone
    BY <2>1 DEF Checked, Found, HalfDone
  <2>3. Atomic!Done(q, "ok") /\ Pending[q] = op[q]
    BY <1>0, <1>1, <2>1, DoneStep
  <2>4. Atomic!RemoveCopied(q)
    BY <1>1, <1>2, <1>u, <2>1, <2>2, <2>3 DEF Atomic!RemoveCopied, Copied
  <2> QED
    BY <2>4 DEF Atomic!Next
<1> QED
  BY <1>6, <1>8, <1>9, <1>10, <1>11, <1>12, <1>13, <1>14, <1>15 DEF Work, Open

\* A result is there from the end of the operation until it returns.
Silent == \A p \in Procs : result[p] = "none" <=> pc[p] \notin {"release", "fail"}

LEMMA SilentKept == Spec => []Silent
<1>1. Init => Silent
  BY DEF Init, Silent
<1>2. Typed /\ Silent /\ [Next]_vars => Silent'
  <2> SUFFICES ASSUME Typed, Silent, [Next]_vars
               PROVE  Silent'
    OBVIOUS
  <2> USE DEF Typed, TypeOK, Silent
  <2>1. ASSUME NEW q \in Procs, Begin(q) \/ Lock(q) \/ LeakLeases(q)
        PROVE  Silent'
    BY <2>1 DEF Begin, Lock, Acquire, Refused, ReleaseOne, Retry, GiveUp, Return, LeakLeases
  <2>2. ASSUME NEW q \in Procs, Work(q)
        PROVE  Silent'
    <3>1. pc[q] \notin {"release", "fail"}
      BY <2>2, AtWork DEF Working
    <3>2. \/ \E outcome \in {"ok", "error"} : Finish(q, outcome)
          \/ /\ UNCHANGED result
             /\ \E to \in {"backoff", "act", "opened", "remove"} : pc' = [pc EXCEPT ![q] = to]
          \/ UNCHANGED <<pc, result>>
      BY <2>2 DEF Work, Check, Act, FlushFails, Open, OpenFile, AppendPart, FinishOpened,
                  ActFails, CopyToSlot, RemoveSource
    <3> QED
      BY <3>1, <3>2 DEF Finish
  <2>3. CASE (\E path \in AllPaths : Expire(path)) \/ Crash \/ Startup \/ UNCHANGED vars
    BY <2>3 DEF Expire, Crash, Startup, vars
  <2> QED
    BY <2>1, <2>2, <2>3 DEF Next, Thread
<1> QED
  BY <1>1, <1>2, TypedKept, PTL DEF Spec

\* So is every other step.
LEMMA AtomicOther ==
  ASSUME Typed, Silent, [Next]_vars, ~\E q \in Procs : Work(q)
  PROVE  Atomic!Next \/ UNCHANGED AbstractVars
<1> USE DEF Typed, TypeOK
<1>1. ASSUME NEW q \in Procs, Begin(q)
      PROVE  Atomic!Next
  <2>1. PICK o \in Requests : op' = [op EXCEPT ![q] = o]
    BY <1>1 DEF Begin
  <2>2. \A p \in Procs : p # q => pc'[p] = pc[p] /\ op'[p] = op[p]
    BY <1>1, <2>1 DEF Begin
  <2>3. pc[q] = "idle" /\ pc'[q] = "lock" /\ op'[q] = o
    BY <1>1, <2>1 DEF Begin
  <2>4. Pending[q] = NoOp /\ Pending' = [Pending EXCEPT ![q] = o]
    BY <2>2, <2>3, PendingStep DEF Unanswered
  <2>5. UNCHANGED HalfDone
    BY <2>2, <2>3, HalfDoneStep DEF HalfDone
  <2>6. result[q] = "none" /\ UNCHANGED <<files, result>>
    BY <1>1, <2>3 DEF Begin, Silent
  <2>7. Atomic!Ask(q)
    BY <2>4, <2>5, <2>6 DEF Atomic!Ask
  <2> QED
    BY <2>7 DEF Atomic!Next
<1>2. ASSUME NEW q \in Procs, GiveUp(q)
      PROVE  Atomic!Next
  <2>1. /\ pc[q] \in {"lock", "backoff"} /\ Finish(q, "error") /\ UNCHANGED <<files, op>>
    BY <1>2 DEF GiveUp, Finish
  <2>2. Atomic!Refuse(q)
    BY <2>1, DoneStep DEF Atomic!Refuse, Unanswered
  <2> QED
    BY <2>2 DEF Atomic!Next
<1>3. ASSUME NEW q \in Procs,
             Acquire(q) \/ Refused(q) \/ ReleaseOne(q) \/ Retry(q) \/ LeakLeases(q)
      PROVE  UNCHANGED AbstractVars
  <2>1. UNCHANGED <<files, result>>
    BY <1>3 DEF Acquire, Refused, ReleaseOne, Retry, LeakLeases
  <2>2. /\ \A p \in Procs : p # q => pc'[p] = pc[p] /\ op'[p] = op[p]
        /\ op'[q] = op[q]
        /\ \/ pc[q] \in {"lock", "backoff"} /\ pc'[q] \in {"lock", "backoff", "check"}
           \/ pc'[q] = pc[q]
    BY <1>3 DEF Acquire, Refused, ReleaseOne, Retry, LeakLeases
  <2>3. Pending'[q] = Pending[q]
    BY <2>2, PendingStep DEF Unanswered
  <2>4. Pending' = [Pending EXCEPT ![q] = Pending[q]] /\ Pending \in [Procs -> Operations \cup {NoOp}]
    BY <2>2, <2>3, PendingStep
  <2>5. UNCHANGED HalfDone
    BY <2>2, HalfDoneStep DEF HalfDone
  <2> QED
    BY <2>1, <2>4, <2>5 DEF AbstractVars
<1>4. ASSUME NEW q \in Procs, Return(q)
      PROVE  Atomic!Next
  <2>1. /\ pc[q] \in {"release", "fail"} /\ pc'[q] = "idle"
        /\ \A p \in Procs : p # q => pc'[p] = pc[p] /\ op'[p] = op[p]
    BY <1>4 DEF Return
  <2>2. /\ Pending[q] = NoOp /\ Pending'[q] = NoOp
        /\ Pending' = [Pending EXCEPT ![q] = Pending'[q]]
        /\ Pending \in [Procs -> Operations \cup {NoOp}]
    BY <2>1, PendingStep DEF Unanswered
  <2>3. UNCHANGED Pending
    BY <2>2
  <2>4. UNCHANGED HalfDone
    BY <2>1, HalfDoneStep DEF HalfDone
  <2>5. result[q] # "none"
    BY <2>1 DEF Silent
  <2>6. Atomic!Return(q)
    BY <1>4, <2>2, <2>3, <2>4, <2>5 DEF Return, Atomic!Return
  <2> QED
    BY <2>6 DEF Atomic!Next
<1>5. CASE (\E path \in AllPaths : Expire(path)) \/ Startup \/ UNCHANGED vars
  BY <1>5 DEF Expire, Startup, vars, Pending, HalfDone, Working, AbstractVars
<1>6. CASE Crash
  <2>1. Pending' = [p \in Procs |-> NoOp] /\ HalfDone' = {}
    BY <1>6 DEF Crash, Pending, HalfDone, Working
  <2> QED
    BY <1>6, <2>1 DEF Crash, Atomic!Crash, Atomic!Next
<1> QED
  BY <1>1, <1>2, <1>3, <1>4, <1>5, <1>6 DEF Next, Thread, Lock

\* WorkspaceFS implements the abstract file system: with any number of threads,
\* crashes, failing calls, failed and timed out lock attempts, WriteIfUnchanged,
\* DeleteIfUnchanged and MoveIfNoTarget take effect in one step under exactly
\* the condition they checked; Append, CreateEmptyOrRead and Archive report
\* success only with their whole effect in place, leave at most a created file
\* or a part of the bytes when they fail, and nobody else acts on their path
\* meanwhile; provided no operation outlives its 30 second lease.
THEOREM OperationsAreAtomic == SlowOps = FALSE => (Spec => IsAtomic)
<1> SUFFICES ASSUME SlowOps = FALSE
             PROVE  Spec => IsAtomic
  OBVIOUS
<1>1. Init => Atomic!Init /\ Checked
  BY DEF Init, Atomic!Init, Atomic!AllPaths, AllPaths, Atomic!Contents, Contents, Pending,
         HalfDone, Working, Checked, Found
<1>2. Exclusive /\ Checked /\ [Next]_vars => Checked'
  <2>1. ASSUME Checked, UNCHANGED vars
        PROVE  Checked'
    BY <2>1 DEF Checked, Found, Ready, Opened, Copied, Target, Diverged, Bytes, vars
  <2> QED
    BY <2>1, CheckedStep
<1>3. Exclusive /\ Checked /\ Silent /\ [Next]_vars => [Atomic!Next]_AbstractVars
  BY AtomicWork, AtomicOther DEF Exclusive
<1> QED
  BY <1>1, <1>2, <1>3, ExclusiveKept, SilentKept, PTL
     DEF Spec, IsAtomic, Atomic!Spec, AbstractVars
==============================================================================
