----------------------------- MODULE AtomicFiles -----------------------------
(***************************************************************************)
(* What WorkspaceFS promises to the daemon's own threads.  A               *)
(* compare-and-write, a compare-and-delete and a move that never replaces  *)
(* a file take effect in one atomic step.  An append, a creation and an    *)
(* archive across devices take several, and one that fails or is cut off   *)
(* by a crash leaves the file it created or a part of the bytes behind;    *)
(* but while it is under way no other operation acts on its path.  Success *)
(* is reported only when what was asked has been done.                     *)
(***************************************************************************)
CONSTANTS
  Procs,    \* threads that use the workspace
  Paths,    \* workspace paths
  Slots,    \* the paths under .notty/recovered
  Marks,    \* what files contain: a content is a set of marks
  NoFile,   \* a path without a file
  Unknown,  \* the zero projectedContentHash: nothing is expected
  Requests, \* the operations the callers ask for
  NoOp      \* no operation

VARIABLES
  files,    \* what is on disk
  request,  \* the operation each thread waits for
  begun,    \* the threads whose operation has begun to change files
  result    \* what it has to say when it is done

Contents == SUBSET Marks
AllPaths == Paths \cup Slots

\* os.ReadFile, with a missing file read as no bytes
Bytes(path) == IF files[path] = NoFile THEN {} ELSE files[path]

\* The file is as the caller last knew it, or the caller knows nothing.
Matches(op) == op.expected = Unknown \/ Bytes(op.path) = op.expected

Init ==
  /\ files \in [AllPaths -> Contents \cup {NoFile}]
  /\ request = [p \in Procs |-> NoOp]
  /\ begun = {}
  /\ result = [p \in Procs |-> "none"]

Ask(p) ==
  /\ request[p] = NoOp /\ result[p] = "none"
  /\ \E op \in Requests : request' = [request EXCEPT ![p] = op]
  /\ UNCHANGED <<files, begun, result>>

\* The caller learns the result.
Return(p) ==
  /\ request[p] = NoOp /\ result[p] # "none"
  /\ result' = [result EXCEPT ![p] = "none"]
  /\ UNCHANGED <<files, request, begun>>

\* There is nothing to do: the result asked for is already there.
AlreadyDone(op) ==
  \/ op.kind = "write" /\ Matches(op) /\ files[op.path] = op.content
  \/ op.kind \in {"delete", "archive"} /\ files[op.path] = NoFile
  \/ op.kind = "create" /\ files[op.path] # NoFile
  \/ op.kind = "read"

\* No other thread is half-way through an operation on a path of this one.
Undisturbed(p) ==
  \A q \in begun \ {p} :
    /\ request[q].path # request[p].path
    /\ request[p].kind = "move" => request[q].path # request[p].to

\* The step in which the operation has its effect.
Effect(op) ==
  \/ /\ op.kind = "append"
     /\ files' = [files EXCEPT ![op.path] = Bytes(op.path) \cup op.content]
  \/ /\ op.kind = "write" /\ Matches(op)
     /\ files' = [files EXCEPT ![op.path] = op.content]
  \/ /\ op.kind = "delete" /\ Matches(op)
     /\ files' = [files EXCEPT ![op.path] = NoFile]
  \/ /\ op.kind \in {"move", "archive"}
     /\ files[op.path] # NoFile
     /\ \E to \in IF op.kind = "move" THEN {op.to} ELSE Slots :
          /\ files[to] = NoFile
          /\ files' = [files EXCEPT ![op.path] = NoFile, ![to] = files[op.path]]

Done(p, outcome) ==
  /\ request[p] # NoOp
  /\ request' = [request EXCEPT ![p] = NoOp]
  /\ begun' = begun \ {p}
  /\ result' = [result EXCEPT ![p] = outcome]

Perform(p) == Done(p, "ok") /\ Undisturbed(p) /\ Effect(request[p])
Skip(p)    == Done(p, "ok") /\ Undisturbed(p) /\ AlreadyDone(request[p]) /\ UNCHANGED files

\* An error: whatever has begun goes no further.
Refuse(p)  == Done(p, "error") /\ UNCHANGED files

\* A write whose flush failed is reported as an error although it replaced the file.
Unflushed(p) ==
  /\ Done(p, "error") /\ request[p].kind = "write"
  /\ Undisturbed(p) /\ Effect(request[p])

\* The operation goes on: it has changed files and is not done.
Proceed(p) ==
  /\ request[p] # NoOp /\ Undisturbed(p)
  /\ begun' = begun \cup {p}
  /\ UNCHANGED <<request, result>>

\* An append and a creation make sure that the file exists,
Open(p) ==
  /\ Proceed(p) /\ request[p].kind \in {"append", "create"}
  /\ files' = [files EXCEPT ![request[p].path] = Bytes(request[p].path)]

\* and an append adds its bytes bit by bit.
AppendPart(p) ==
  /\ p \in begun /\ Proceed(p) /\ request[p].kind = "append"
  /\ \E part \in SUBSET request[p].content :
       files' = [files EXCEPT ![request[p].path] = Bytes(request[p].path) \cup part]

\* An archive to another device copies first, perhaps only a part, and removes
\* the source only when a complete copy is in place.
CopyPart(p) ==
  /\ request[p] # NoOp /\ request[p].kind = "archive"
  /\ files[request[p].path] # NoFile
  /\ \E slot \in Slots, part \in SUBSET files[request[p].path] :
       files[slot] = NoFile /\ files' = [files EXCEPT ![slot] = part]
  /\ Undisturbed(p) /\ (Proceed(p) \/ Done(p, "error"))

RemoveCopied(p) ==
  /\ request[p] # NoOp /\ request[p].kind = "archive"
  /\ p \in begun /\ Undisturbed(p)
  /\ \E slot \in Slots : files[slot] = files[request[p].path]
  /\ files' = [files EXCEPT ![request[p].path] = NoFile]
  /\ Done(p, "ok")

Crash ==
  /\ request' = [p \in Procs |-> NoOp]
  /\ begun' = {}
  /\ result' = [p \in Procs |-> "none"]
  /\ UNCHANGED files

Next ==
  \/ \E p \in Procs : \/ Ask(p) \/ Return(p) \/ Perform(p) \/ Skip(p) \/ Refuse(p)
                      \/ Unflushed(p) \/ Open(p) \/ AppendPart(p)
                      \/ CopyPart(p) \/ RemoveCopied(p)
  \/ Crash

Spec == Init /\ [][Next]_<<files, request, begun, result>>
==============================================================================
