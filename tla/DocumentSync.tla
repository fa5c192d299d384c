---------------------------- MODULE DocumentSync ----------------------------
(***************************************************************************)
(* One content document in one workspaceRuntime of the daemon: the file on *)
(* disk, the trackedFile flags, the SQLite cache (CRDT log, content        *)
(* outbox, incoming updates, projected base), the document websocket and   *)
(* the backend's authoritative document.                                   *)
(*                                                                         *)
(* Text is abstracted to a bag of tokens.  A CRDT document is a pair of    *)
(* grow-only sets: the items ever inserted and the items deleted.  An item *)
(* is <<token, client, k>>: the k-th item a Yjs client inserted for that   *)
(* token.  Updates are documents as well and merge by union, which is what *)
(* makes them idempotent and commutative; a state vector is the set of     *)
(* items a peer has.  buildLocalUpdateFromBase opens a new Yjs document,   *)
(* hence a fresh client, for every update it builds.                       *)
(*                                                                         *)
(* Threads: the reconcile loop (pc, job), the file watcher, the socket's   *)
(* reader and writer, the backend's session, and the environment (editors  *)
(* of the file, remote users, network, crashes).  The sections of the      *)
(* reconcile loop that hold the cache entry's mutex are the values of pc   *)
(* in EntryLocked.                                                         *)
(***************************************************************************)
EXTENDS Integers, Sequences, FiniteSets

CONSTANTS
  LocalTokens,      \* what editors of the local file may type, once each
  RemoteTokens,     \* what remote users may type, once each
  MaxDeletes,       \* bound on the tokens removed, by editors and remotely
  MaxCrashes,       \* bound on daemon crashes
  MaxDisconnects,   \* bound on websocket failures
  MaxSendFailures,  \* bound on awaited sends that time out or fail
  MaxWriteErrors,   \* bound on failing file operations (for instance lock timeouts)
  SendCap,          \* capacity of workspaceDocumentSocket.send
  RacyEdits,        \* may an editor write between a check and the write it guards?
  MayUndo,          \* may an editor take back a change that is not projected yet?
  FoldBeatsRedial   \* is a sent update folded before the redial backoff (1s or more) ends?

ASSUME ConstantsAssumption ==
  /\ LocalTokens \cap RemoteTokens = {}
  /\ IsFiniteSet(LocalTokens) /\ IsFiniteSet(RemoteTokens)
  /\ MaxDeletes \in Nat /\ MaxCrashes \in Nat /\ MaxDisconnects \in Nat
  /\ MaxSendFailures \in Nat /\ MaxWriteErrors \in Nat
  /\ SendCap \in Nat \ {0}
  /\ RacyEdits \in BOOLEAN /\ MayUndo \in BOOLEAN /\ FoldBeatsRedial \in BOOLEAN

VARIABLES
  disk,      \* the file: exists, text
  archived,  \* texts moved to .notty/recovered
  tracked,   \* trackedFile: known (projectedContentKnown), hash, dirty (localDirty)
  queued,    \* the document is in reconcileQueue.dirty
  fsEvent,   \* an fsnotify event for the file has not been handled yet
  cache,     \* crdt_updates up to applied_seq: known, doc
  incoming,  \* incoming_updates
  outbox,    \* content_outbox, at most one row per document here
  base,      \* documents.projection_known, projected_bases, doc at projected_seq
  pc,        \* where the reconcile loop is
  job,       \* its local variables
  socket,    \* connected, needsSync, subscribed (the backend's room has us)
  sendq,     \* workspaceDocumentSocket.send
  toBackend, \* frames on the connection towards the backend
  toDaemon,  \* frames on the connection towards the daemon
  backend,   \* the backend's document
  clients,   \* number of Yjs clients used so far by local captures
  faults,    \* how often each bounded event has happened
  hist       \* what was typed, is owed to its author, was erased: for the properties

diskVars  == <<disk, archived>>
cacheVars == <<cache, incoming, outbox, base>>
netVars   == <<socket, sendq, toBackend, toDaemon, backend>>
vars == <<disk, archived, tracked, queued, fsEvent, cache, incoming, outbox, base,
          pc, job, socket, sendq, toBackend, toDaemon, backend, clients, faults, hist>>

-----------------------------------------------------------------------------
(* Texts and CRDT documents *)

Tokens == LocalTokens \cup RemoteTokens
Items  == Tokens \X Nat \X Nat
Texts  == [Tokens -> Nat]

FiniteSubsets(S) == {sub \in SUBSET S : IsFiniteSet(sub)}
Docs == [ins : FiniteSubsets(Items), del : FiniteSubsets(Items)]

EmptyText == [t \in Tokens |-> 0]
EmptyDoc  == [ins |-> {}, del |-> {}]

Visible(doc, t) == {i \in doc.ins \ doc.del : i[1] = t}

\* The Y.Text "content" of a document.
Text(doc) == [t \in Tokens |-> Cardinality(Visible(doc, t))]

\* Everything in doc is in other as well.
Within(doc, other) == doc.ins \subseteq other.ins /\ doc.del \subseteq other.del

\* crdt.ApplyUpdateV1
Merge(doc, update) ==
  [ins |-> doc.ins \cup update.ins, del |-> doc.del \cup update.del]

\* Doc.EncodeStateAsUpdateV1: a Yjs diff leaves out the items the state vector
\* covers and always carries the whole delete set.
DiffSince(doc, stateVector) ==
  [ins |-> doc.ins \ stateVector, del |-> doc.del]

\* What is missing in the local text and what it has too much, by token.
Missing(doc, local, t) == {i \in 1..Text(doc)[t] : i > local[t]}
Extra(doc, local, t)   == {i \in 1..local[t] : i > Text(doc)[t]}

\* computeLocalTextEdits and the transaction of buildLocalUpdateFromBase: the
\* updates that turn the text of doc into the local one.  The diff may delete
\* any of several equal items.
LocalUpdates(doc, local, client) ==
  {[ins |-> UNION {{<<t, client, k>> : k \in Extra(doc, local, t)} : t \in Tokens},
    del |-> gone] : gone \in
      {g \in SUBSET (doc.ins \ doc.del) : \A t \in Tokens :
         Cardinality({i \in g : i[1] = t}) = Cardinality(Missing(doc, local, t))}}

Update(doc)      == [type |-> "update", ins |-> doc.ins, del |-> doc.del]
SyncStep1(known) == [type |-> "step1", ins |-> known, del |-> {}]
AsDoc(msg)       == [ins |-> msg.ins, del |-> msg.del]

-----------------------------------------------------------------------------
(* State *)

PCs == {"idle", "send", "sending", "finalize", "clear", "archive", "write",
        "replace", "store", "storeObserved", "check"}

NoJob == [update |-> EmptyDoc, observed |-> EmptyText, obsDoc |-> EmptyDoc,
          final |-> EmptyDoc, expectKnown |-> FALSE, expect |-> EmptyText,
          onDiverge |-> "keep"]

FaultKinds == {"delete", "crash", "disconnect", "sendFailure", "ioError"}

\* The event happens once more, within its bound.
Count(kind, bound) ==
  /\ faults[kind] < bound
  /\ faults' = [faults EXCEPT ![kind] = @ + 1]

EntryLocked == pc \in {"clear", "archive", "write", "replace", "store", "storeObserved"}
Projecting  == pc \in {"replace", "store", "storeObserved"}

Init ==
  /\ disk = [exists |-> FALSE, text |-> EmptyText]
  /\ archived = {}
  /\ tracked = [known |-> FALSE, hash |-> EmptyText, dirty |-> TRUE]
  /\ queued = TRUE
  /\ fsEvent = FALSE
  /\ cache = [known |-> FALSE, doc |-> EmptyDoc]
  /\ incoming = {}
  /\ outbox = {}
  /\ base = [known |-> FALSE, text |-> EmptyText, doc |-> EmptyDoc, seqDoc |-> EmptyDoc]
  /\ pc = "idle"
  /\ job = NoJob
  /\ socket = [connected |-> FALSE, needsSync |-> TRUE, subscribed |-> FALSE]
  /\ sendq = <<>>
  /\ toBackend = <<>>
  /\ toDaemon = <<>>
  /\ backend = EmptyDoc
  /\ clients = 0
  /\ faults = [kind \in FaultKinds |-> 0]
  /\ hist = [typed |-> {}, owed |-> {}, erased |-> {}]

-----------------------------------------------------------------------------
(* Reconcile loop: reconcileTrackedDocument *)

DiskClean    == disk.exists /\ disk.text = base.text
BaseCoherent == Text(base.doc) = base.text
AllIncoming  == [ins |-> UNION {u.ins : u \in incoming}, del |-> UNION {u.del : u \in incoming}]
NextCache    == [known |-> cache.known \/ incoming # {}, doc |-> Merge(cache.doc, AllIncoming)]

\* reconcileDirtyDocuments drains the queue and turns to the document.
Drain ==
  /\ pc = "idle"
  /\ queued
  /\ queued' = FALSE

\* Mutant: a retry captures the file again instead of resending the row.
LoadOutboxRecaptures ==
  /\ Drain
  /\ outbox # {}
  /\ \E update \in LocalUpdates(base.doc, disk.text, clients + 1) :
       job' = [NoJob EXCEPT !.update = update, !.observed = disk.text]
  /\ clients' = clients + 1
  /\ pc' = "send"
  /\ UNCHANGED <<diskVars, tracked, fsEvent, cacheVars, netVars, faults, hist>>

\* An outbox row exists: retry it before anything else.  The row keeps no CRDT
\* state; loadOutboxUpdatesLocked rebuilds one from observed_projected_seq.
LoadOutbox ==
  /\ Drain
  /\ \E row \in outbox :
       job' = [NoJob EXCEPT !.update = row.update, !.observed = row.observed,
                            !.obsDoc = row.seqDoc]
  /\ pc' = "send"
  /\ UNCHANGED <<diskVars, tracked, fsEvent, cacheVars, netVars, clients, faults, hist>>

\* Mutant: the update is sent without being stored first.
CaptureWithoutStoring ==
  /\ Drain
  /\ outbox = {} /\ base.known /\ disk.exists
  /\ disk.text # base.text
  /\ BaseCoherent
  /\ \E update \in LocalUpdates(base.doc, disk.text, clients + 1) :
       job' = [NoJob EXCEPT !.update = update, !.observed = disk.text,
                            !.obsDoc = Merge(base.doc, update)]
  /\ clients' = clients + 1
  /\ tracked' = [tracked EXCEPT !.dirty = TRUE]
  /\ pc' = "send"
  /\ UNCHANGED <<diskVars, fsEvent, cacheVars, netVars, faults, hist>>

\* storeOutboxUpdatesLocked: the row remembers the text it was captured from and
\* documents.projected_seq, but not the CRDT state after the capture.
OutboxRow(update) == [update |-> update, observed |-> disk.text, seqDoc |-> base.seqDoc]

\* The file differs from the projected base: build the update, persist it.
CaptureLocalUpdate ==
  /\ Drain
  /\ outbox = {} /\ base.known /\ disk.exists
  /\ disk.text # base.text
  /\ BaseCoherent
  /\ \E update \in LocalUpdates(base.doc, disk.text, clients + 1) :
       /\ outbox' = {OutboxRow(update)}
       /\ job' = [NoJob EXCEPT !.update = update, !.observed = disk.text,
                               !.obsDoc = Merge(base.doc, update)]
  /\ clients' = clients + 1
  /\ tracked' = [tracked EXCEPT !.dirty = TRUE]
  /\ pc' = "send"
  /\ UNCHANGED <<diskVars, fsEvent, cache, incoming, base, netVars, faults, hist>>

\* errProjectedBaseDoesNotMatchCRDTState: the edit is not captured, the
\* incoming updates are applied to the cache and nothing is projected.
SkipMismatchedBase ==
  /\ Drain
  /\ outbox = {} /\ base.known /\ disk.exists
  /\ disk.text # base.text
  /\ ~BaseCoherent
  /\ cache' = NextCache
  /\ incoming' = {}
  /\ tracked' = [tracked EXCEPT !.dirty = TRUE]
  /\ pc' = "check"
  /\ UNCHANGED <<diskVars, fsEvent, outbox, base, job, netVars, clients, faults, hist>>

\* The file is as last projected: apply the incoming updates, then project.
ApplyIncoming ==
  /\ Drain
  /\ outbox = {} /\ base.known /\ DiskClean
  /\ tracked' = [known |-> TRUE, dirty |-> FALSE,
                  hash |-> IF tracked.known THEN tracked.hash ELSE base.text]
  /\ cache' = NextCache
  /\ incoming' = {}
  /\ job' = [NoJob EXCEPT !.final = NextCache.doc, !.expectKnown = TRUE,
                          !.expect = tracked'.hash]
  /\ pc' = IF incoming = {} THEN "check" ELSE "write"
  /\ UNCHANGED <<diskVars, fsEvent, outbox, base, netVars, clients, faults, hist>>

\* No projected base: an existing file is an unknown working copy to archive.
FirstProjection ==
  /\ Drain
  /\ outbox = {} /\ ~base.known
  /\ cache' = NextCache
  /\ incoming' = {}
  /\ tracked' = [tracked EXCEPT !.known = FALSE, !.dirty = TRUE]
  /\ job' = [NoJob EXCEPT !.final = NextCache.doc]
  /\ pc' = CASE disk.exists /\ tracked.dirty -> "archive"
            [] ~(disk.exists /\ tracked.dirty) /\ NextCache.known -> "write"
            [] OTHER -> "check"
  /\ UNCHANGED <<diskVars, fsEvent, outbox, base, netVars, clients, faults, hist>>

\* archiveUnknownWorkingCopy
Archive ==
  /\ pc = "archive"
  /\ archived' = archived \cup {disk.text}
  /\ disk' = [exists |-> FALSE, text |-> EmptyText]
  /\ pc' = IF cache.known THEN "write" ELSE "check"
  /\ UNCHANGED <<tracked, queued, fsEvent, cacheVars, job, netVars, clients, faults, hist>>

\* Mutant: the write does not look at the file first.
NeverDiverged == FALSE

\* WriteIfUnchanged, up to its comparison with the expected hash.
Diverged == job.expectKnown /\ disk.text # job.expect

WriteDiverged ==
  /\ pc = "write"
  /\ Diverged
  /\ \/ /\ job.onDiverge = "keep"
        /\ tracked' = [tracked EXCEPT !.dirty = TRUE]
        /\ pc' = "check"
     \/ /\ job.onDiverge = "observed"
        /\ tracked' = tracked
        /\ pc' = "storeObserved"
  /\ UNCHANGED <<diskVars, queued, fsEvent, cacheVars, job, netVars, clients, faults, hist>>

WriteUnchanged ==
  /\ pc = "write"
  /\ ~Diverged
  /\ tracked' = [tracked EXCEPT !.known = TRUE, !.hash = Text(job.final)]
  /\ pc' = IF disk.exists /\ disk.text = Text(job.final) THEN "store" ELSE "replace"
  /\ UNCHANGED <<diskVars, queued, fsEvent, cacheVars, job, netVars, clients, faults, hist>>

\* replaceFileAtomically
Replace ==
  /\ pc = "replace"
  /\ disk' = [exists |-> TRUE, text |-> Text(job.final)]
  /\ fsEvent' = TRUE
  /\ pc' = "store"
  /\ UNCHANGED <<archived, tracked, queued, cacheVars, job, netVars, clients, faults, hist>>

\* Mutant: the base's text is read back from the file.
StoreBaseFromDisk ==
  /\ pc = "store"
  /\ base' = [known |-> TRUE, text |-> disk.text, doc |-> job.final, seqDoc |-> job.final]
  /\ tracked' = [tracked EXCEPT !.dirty = FALSE]
  /\ pc' = "check"
  /\ UNCHANGED <<diskVars, queued, fsEvent, cache, incoming, outbox, job, netVars, clients, faults, hist>>

\* storeProjectedBaseAtSeq after a successful write
StoreBase ==
  /\ pc = "store"
  /\ base' = [known |-> TRUE, text |-> Text(job.final), doc |-> job.final,
              seqDoc |-> job.final]
  /\ tracked' = [tracked EXCEPT !.dirty = FALSE]
  /\ pc' = "check"
  /\ UNCHANGED <<diskVars, queued, fsEvent, cache, incoming, outbox, job, netVars, clients, faults, hist>>

\* projectMergedContentOverLocalDisk: the file changed again after the capture,
\* so the captured text becomes the projected base.
StoreObserved ==
  /\ pc = "storeObserved"
  /\ base' = [known |-> TRUE, text |-> job.observed, doc |-> job.obsDoc, seqDoc |-> cache.doc]
  /\ tracked' = [known |-> TRUE, hash |-> job.observed, dirty |-> TRUE]
  /\ pc' = "check"
  /\ UNCHANGED <<diskVars, queued, fsEvent, cache, incoming, outbox, job, netVars, clients, faults, hist>>

\* A file or database operation fails: the error ends the cycle and
\* reconcileDocumentIDsWithTracked marks the document dirty.
OperationFails ==
  /\ pc \in {"archive", "clear", "write", "store", "storeObserved"}
  /\ Count("ioError", MaxWriteErrors)
  /\ pc' = "idle"
  /\ queued' = TRUE
  /\ UNCHANGED <<diskVars, tracked, fsEvent, cacheVars, job, netVars, clients, hist>>

\* documentNeedsReconcile
NeedsReconcile ==
  /\ pc = "check"
  /\ queued' = (queued \/ tracked.dirty \/ outbox # {} \/ incoming # {})
  /\ pc' = "idle"
  /\ UNCHANGED <<diskVars, tracked, fsEvent, cacheVars, job, netVars, clients, faults, hist>>

-----------------------------------------------------------------------------
(* Reconcile loop: flushOutboxUpdates and finalizeSentOutbox *)

\* SendProtocolMessage: hand the frame to the writer and wait for its result.
SendUpdate ==
  /\ pc = "send"
  /\ Len(sendq) < SendCap
  /\ sendq' = Append(sendq, [msg |-> Update(job.update), awaited |-> TRUE])
  /\ pc' = "sending"
  /\ UNCHANGED <<diskVars, tracked, queued, fsEvent, cacheVars, job, socket, toBackend,
                 toDaemon, backend, clients, faults, hist>>

NoneAwaited(q) == [i \in 1..Len(q) |-> [q[i] EXCEPT !.awaited = FALSE]]

\* documentSocketSendTimeout: the frame, if queued, is still written later.
SendTimesOut ==
  /\ pc \in {"send", "sending"}
  /\ Count("sendFailure", MaxSendFailures)
  /\ sendq' = NoneAwaited(sendq)
  /\ pc' = "idle"
  /\ queued' = TRUE
  /\ UNCHANGED <<diskVars, tracked, fsEvent, cacheVars, job, socket, toBackend, toDaemon,
                 backend, clients, hist>>

\* Mutant: the sent update is projected but never folded into the log.
FinalizeWithoutFold ==
  /\ pc = "finalize"
  /\ tracked' = [tracked EXCEPT !.dirty = @ /\ ~DiskClean]
  /\ job' = [job EXCEPT !.final = Merge(cache.doc, job.update), !.expectKnown = TRUE,
                        !.expect = job.observed, !.onDiverge = "observed"]
  /\ pc' = "clear"
  /\ UNCHANGED <<diskVars, queued, fsEvent, cacheVars, netVars, clients, faults, hist>>

\* Mutant: the sent update alone, not the merged document, is projected.
FinalizeUnmerged ==
  /\ pc = "finalize"
  /\ tracked' = [tracked EXCEPT !.dirty = @ /\ ~DiskClean]
  /\ cache' = [known |-> TRUE, doc |-> Merge(cache.doc, job.update)]
  /\ job' = [job EXCEPT !.final = job.update, !.expectKnown = TRUE,
                        !.expect = job.observed, !.onDiverge = "observed"]
  /\ pc' = "clear"
  /\ UNCHANGED <<diskVars, queued, fsEvent, incoming, outbox, base, netVars, clients, faults, hist>>

\* The frame was written: fold the update into the cache.
FinalizeApply ==
  /\ pc = "finalize"
  /\ tracked' = [tracked EXCEPT !.dirty = @ /\ ~DiskClean]
  /\ cache' = [known |-> TRUE, doc |-> Merge(cache.doc, job.update)]
  /\ job' = [job EXCEPT !.final = cache'.doc, !.expectKnown = TRUE,
                        !.expect = job.observed, !.onDiverge = "observed"]
  /\ pc' = "clear"
  /\ UNCHANGED <<diskVars, queued, fsEvent, incoming, outbox, base, netVars, clients, faults, hist>>

\* clearOutboxUpdate, a statement of its own after the transaction above
FinalizeClear ==
  /\ pc = "clear"
  /\ outbox' = {}
  /\ pc' = "write"
  /\ UNCHANGED <<diskVars, tracked, queued, fsEvent, cache, incoming, base, job, netVars,
                 clients, faults, hist>>

-----------------------------------------------------------------------------
(* File watcher *)

\* handleWatcherEvent: ignored while projecting and before the first projection.
HandleWatcherEvent ==
  /\ fsEvent
  /\ fsEvent' = FALSE
  /\ tracked' = [tracked EXCEPT !.dirty = @ \/ (tracked.known /\ ~Projecting)]
  /\ queued' = (queued \/ tracked'.dirty)
  /\ UNCHANGED <<diskVars, cacheVars, pc, job, netVars, clients, faults, hist>>

\* reconcileLocalWorkspace, at every workspaceLocalScanInterval
ScanWorkspace ==
  /\ tracked.known /\ ~Projecting
  /\ disk.exists /\ disk.text # tracked.hash
  /\ tracked' = [tracked EXCEPT !.dirty = TRUE]
  /\ queued' = TRUE
  /\ UNCHANGED <<diskVars, fsEvent, cacheVars, pc, job, netVars, clients, faults, hist>>

-----------------------------------------------------------------------------
(* Document websocket: daemon side *)

\* Mutant: a new connection keeps the sync state of the old one.
ConnectWithoutReset ==
  /\ ~socket.connected
  /\ FoldBeatsRedial => pc # "finalize"
  /\ socket' = [socket EXCEPT !.connected = TRUE, !.subscribed = FALSE]
  /\ UNCHANGED <<diskVars, tracked, queued, fsEvent, cacheVars, pc, job, sendq, toBackend,
                 toDaemon, backend, clients, faults, hist>>

\* runOnce dials and calls resetConnectionSyncState.
Connect ==
  /\ ~socket.connected
  /\ FoldBeatsRedial => pc # "finalize"
  /\ socket' = [connected |-> TRUE, needsSync |-> TRUE, subscribed |-> FALSE]
  /\ UNCHANGED <<diskVars, tracked, queued, fsEvent, cacheVars, pc, job, sendq, toBackend,
                 toDaemon, backend, clients, faults, hist>>

\* flushSyncSteps: SyncStep1 with the state vector of the cache
FlushSyncStep ==
  /\ socket.connected /\ socket.needsSync /\ ~EntryLocked
  /\ toBackend' = Append(toBackend, SyncStep1(cache.doc.ins))
  /\ socket' = [socket EXCEPT !.needsSync = FALSE]
  /\ UNCHANGED <<diskVars, tracked, queued, fsEvent, cacheVars, pc, job, sendq, toDaemon,
                 backend, clients, faults, hist>>

\* writeLoop: a frame counts as sent once it is written to the connection.
WriteFrame ==
  /\ socket.connected /\ ~socket.needsSync
  /\ sendq # <<>>
  /\ toBackend' = Append(toBackend, Head(sendq).msg)
  /\ pc' = IF Head(sendq).awaited THEN "finalize" ELSE pc
  /\ sendq' = Tail(sendq)
  /\ UNCHANGED <<diskVars, tracked, queued, fsEvent, cacheVars, job, socket, toDaemon,
                 backend, clients, faults, hist>>

\* handleDocumentSyncMessage, SyncStep1: queue the diff the backend lacks, or
\* drop it when the send queue is full.
ReceiveStep1 ==
  /\ toDaemon # <<>> /\ Head(toDaemon).type = "step1"
  /\ ~EntryLocked
  /\ LET diff == DiffSince(cache.doc, Head(toDaemon).ins) IN
       sendq' = IF diff # EmptyDoc /\ Len(sendq) < SendCap
                THEN Append(sendq, [msg |-> Update(diff), awaited |-> FALSE])
                ELSE sendq
  /\ toDaemon' = Tail(toDaemon)
  /\ UNCHANGED <<diskVars, tracked, queued, fsEvent, cacheVars, pc, job, socket, toBackend,
                 backend, clients, faults, hist>>

\* Mutant: the whole frame is stored, not the update it carries.
ReceiveFrame ==
  /\ toDaemon # <<>> /\ Head(toDaemon).type = "update"
  /\ ~EntryLocked
  /\ incoming' = incoming \cup {Head(toDaemon)}
  /\ queued' = (queued \/ incoming' # incoming)
  /\ toDaemon' = Tail(toDaemon)
  /\ UNCHANGED <<diskVars, tracked, fsEvent, cache, outbox, base, pc, job, socket, sendq,
                 toBackend, backend, clients, faults, hist>>

\* handleDocumentSyncMessage, SyncStep2 and SyncUpdate
ReceiveUpdate ==
  /\ toDaemon # <<>> /\ Head(toDaemon).type = "update"
  /\ ~EntryLocked
  /\ incoming' = incoming \cup {AsDoc(Head(toDaemon))}
  /\ queued' = (queued \/ incoming' # incoming)
  /\ toDaemon' = Tail(toDaemon)
  /\ UNCHANGED <<diskVars, tracked, fsEvent, cache, outbox, base, pc, job, socket, sendq,
                 toBackend, backend, clients, faults, hist>>

-----------------------------------------------------------------------------
(* Backend: handleDocumentProtocolMessageWithStore *)

BackendStep1 ==
  /\ toBackend # <<>> /\ Head(toBackend).type = "step1"
  /\ socket' = [socket EXCEPT !.subscribed = TRUE]
  /\ toDaemon' = toDaemon \o <<Update(DiffSince(backend, Head(toBackend).ins)),
                               SyncStep1(backend.ins)>>
  /\ toBackend' = Tail(toBackend)
  /\ UNCHANGED <<diskVars, tracked, queued, fsEvent, cacheVars, pc, job, sendq, backend,
                 clients, faults, hist>>

\* applyAndPublishDocumentUpdate; the sender gets the new state vector back.
BackendUpdate ==
  /\ toBackend # <<>> /\ Head(toBackend).type = "update"
  /\ socket' = [socket EXCEPT !.subscribed = TRUE]
  /\ backend' = Merge(backend, AsDoc(Head(toBackend)))
  /\ toDaemon' = IF backend' = backend THEN toDaemon
                 ELSE Append(toDaemon, SyncStep1(backend'.ins))
  /\ toBackend' = Tail(toBackend)
  /\ UNCHANGED <<diskVars, tracked, queued, fsEvent, cacheVars, pc, job, sendq, clients, faults, hist>>

\* A remote user's update reaches the backend and is broadcast to the room.
RemoteUpdate(update) ==
  /\ backend' = Merge(backend, update)
  /\ toDaemon' = IF socket.subscribed THEN Append(toDaemon, Update(update)) ELSE toDaemon
  /\ UNCHANGED <<diskVars, tracked, queued, fsEvent, cacheVars, pc, job, socket, sendq,
                 toBackend, clients>>

RemoteType(t) ==
  /\ t \notin hist.typed
  /\ UNCHANGED faults
  /\ hist' = [hist EXCEPT !.typed = @ \cup {t}, !.owed = @ \cup {t}]
  /\ RemoteUpdate([ins |-> {<<t, 0, 1>>}, del |-> {}])

RemoteErase(t) ==
  /\ Count("delete", MaxDeletes)
  /\ Visible(backend, t) # {}
  /\ hist' = [hist EXCEPT !.owed = @ \ {t}, !.erased = @ \cup {t}]
  /\ RemoteUpdate([ins |-> {}, del |-> Visible(backend, t)])

-----------------------------------------------------------------------------
(* Editors of the file, the network, crashes *)

\* The daemon acts on a check it made earlier: between the comparison and the
\* rename of WriteIfUnchanged, and before the unconditional first write.
InCheckedWindow == pc = "replace" \/ (pc = "write" /\ ~job.expectKnown)

Edit(text) ==
  /\ RacyEdits \/ ~InCheckedWindow
  /\ disk' = [exists |-> TRUE, text |-> text]
  /\ fsEvent' = TRUE
  /\ UNCHANGED <<archived, tracked, queued, cacheVars, pc, job, netVars, clients>>

Type(t) ==
  /\ t \notin hist.typed
  /\ UNCHANGED faults
  /\ hist' = [hist EXCEPT !.typed = @ \cup {t}, !.owed = @ \cup {t}]
  /\ Edit([disk.text EXCEPT ![t] = @ + 1])

Erase(t) ==
  /\ Count("delete", MaxDeletes)
  /\ disk.exists /\ disk.text[t] > 0
  /\ MayUndo \/ base.text[t] > 0
  /\ hist' = [hist EXCEPT !.owed = @ \ {t}, !.erased = @ \cup {t}]
  /\ Edit([disk.text EXCEPT ![t] = 0])

\* The connection breaks; frames in flight are lost in both directions.
LoseConnection ==
  /\ socket.connected
  /\ socket' = [socket EXCEPT !.connected = FALSE, !.subscribed = FALSE]
  /\ toBackend' = <<>> /\ toDaemon' = <<>>

Disconnect ==
  /\ LoseConnection
  /\ Count("disconnect", MaxDisconnects)
  /\ UNCHANGED <<diskVars, tracked, queued, fsEvent, cacheVars, pc, job, sendq, backend, clients, hist>>

\* The writer finds out by its own failing write: the frame it took is gone,
\* and a reconcile cycle that awaits it ends with the error.
WriteFails ==
  /\ LoseConnection
  /\ ~socket.needsSync /\ sendq # <<>>
  /\ LET awaited == Head(sendq).awaited IN
       /\ IF awaited THEN Count("sendFailure", MaxSendFailures)
                     ELSE Count("disconnect", MaxDisconnects)
       /\ pc' = IF awaited THEN "idle" ELSE pc
       /\ queued' = (queued \/ awaited)
  /\ sendq' = Tail(sendq)
  /\ UNCHANGED <<diskVars, tracked, fsEvent, cacheVars, job, backend, clients, hist>>

\* materializeTrackedFileWithFS: the flags of a file the runtime starts to track.
RestoredTracked ==
  [known |-> base.known,
   hash  |-> IF base.known THEN base.text ELSE EmptyText,
   dirty |-> ~base.known \/ (disk.exists /\ disk.text # base.text)]

\* documentsNeedingReconcile: what the store alone asks to be reconciled.
StartupWork == outbox # {} \/ incoming # {}

\* The process dies and starts again: the volatile state is rebuilt from the
\* disk and the store (ensureTracked, enqueueStartupStoreWork).
Crash ==
  /\ Count("crash", MaxCrashes)
  /\ tracked' = RestoredTracked
  /\ queued' = (RestoredTracked.dirty \/ StartupWork)
  /\ fsEvent' = FALSE
  /\ pc' = "idle" /\ job' = NoJob
  /\ socket' = [connected |-> FALSE, needsSync |-> TRUE, subscribed |-> FALSE]
  /\ sendq' = <<>> /\ toBackend' = <<>> /\ toDaemon' = <<>>
  /\ UNCHANGED <<diskVars, cacheVars, backend, clients, hist>>

-----------------------------------------------------------------------------

Reconcile ==
  \/ LoadOutbox \/ CaptureLocalUpdate \/ SkipMismatchedBase \/ ApplyIncoming
  \/ FirstProjection \/ Archive \/ WriteDiverged \/ WriteUnchanged \/ Replace
  \/ StoreBase \/ StoreObserved \/ NeedsReconcile \/ SendUpdate \/ FinalizeApply
  \/ FinalizeClear

Watcher == HandleWatcherEvent \/ ScanWorkspace

Socket == Connect \/ FlushSyncStep \/ WriteFrame \/ ReceiveStep1 \/ ReceiveUpdate

Backend == BackendStep1 \/ BackendUpdate

Environment ==
  \/ \E t \in LocalTokens : Type(t)
  \/ \E t \in Tokens : Erase(t)
  \/ \E t \in RemoteTokens : RemoteType(t)
  \/ \E t \in Tokens : RemoteErase(t)
  \/ Disconnect \/ WriteFails \/ Crash \/ SendTimesOut \/ OperationFails

Next == Reconcile \/ Watcher \/ Socket \/ Backend \/ Environment

Spec == Init /\ [][Next]_vars

\* The goroutines of a running daemon and the backend's session loop keep
\* being scheduled, the watcher's timer keeps firing, and the socket's Run
\* loop keeps reconnecting.  The socket's handlers wait for the cache entry's
\* mutex, which Go hands over without starvation.  Nobody is obliged to edit, fail or crash.
Fairness ==
  /\ WF_vars(Reconcile)
  /\ WF_vars(HandleWatcherEvent) /\ WF_vars(ScanWorkspace)
  /\ WF_vars(Connect) /\ WF_vars(WriteFrame)
  /\ SF_vars(FlushSyncStep) /\ SF_vars(ReceiveStep1) /\ SF_vars(ReceiveUpdate)
  /\ WF_vars(Backend)

FairSpec == Spec /\ Fairness

-----------------------------------------------------------------------------
(* Properties *)

Messages ==
  [type : {"update", "step1"}, ins : FiniteSubsets(Items), del : FiniteSubsets(Items)]
Frames == [msg : Messages, awaited : BOOLEAN]
Rows == [update : Docs, observed : Texts, seqDoc : Docs]
Jobs == [update : Docs, observed : Texts, obsDoc : Docs, final : Docs,
         expectKnown : BOOLEAN, expect : Texts, onDiverge : {"keep", "observed"}]

\* Every variable keeps the shape of the Go value or table it stands for.
TypeOK ==
  /\ disk \in [exists : BOOLEAN, text : Texts]
  /\ archived \in SUBSET Texts
  /\ tracked \in [known : BOOLEAN, hash : Texts, dirty : BOOLEAN]
  /\ queued \in BOOLEAN
  /\ fsEvent \in BOOLEAN
  /\ cache \in [known : BOOLEAN, doc : Docs]
  /\ incoming \in FiniteSubsets(Docs)
  /\ outbox \in SUBSET Rows
  /\ base \in [known : BOOLEAN, text : Texts, doc : Docs, seqDoc : Docs]
  /\ pc \in PCs
  /\ job \in Jobs
  /\ socket \in [connected : BOOLEAN, needsSync : BOOLEAN, subscribed : BOOLEAN]
  /\ sendq \in Seq(Frames)
  /\ toBackend \in Seq(Messages)
  /\ toDaemon \in Seq(Messages)
  /\ backend \in Docs
  /\ clients \in Nat
  /\ faults \in [FaultKinds -> Nat]
  /\ hist \in [typed : SUBSET Tokens, owed : SUBSET Tokens, erased : SUBSET Tokens]

\* The CRDT items the daemon has on stable storage.
Persisted == cache.doc.ins \cup UNION {row.update.ins : row \in outbox}
\* The items minted by captures of the local file.
Local(items) == {i \in items : i[2] > 0}

\* Persist before send, and keep: any locally captured item that is in a queue,
\* on the wire or at the backend is still in the outbox or the CRDT log, so a
\* crash or a lost frame at any point can be repaired from the daemon's store.
SentIsPersisted ==
  /\ \A i \in 1..Len(sendq) : Local(sendq[i].msg.ins) \subseteq Persisted
  /\ \A i \in 1..Len(toBackend) : toBackend[i].type = "update"
        => Local(toBackend[i].ins) \subseteq Persisted
  /\ Local(backend.ins) \subseteq Persisted

\* What an editor typed and did not erase is still in the file, in the
\* recovery directory, or captured: no projection overwrites uncaptured bytes.
NoLostEdit ==
  \A t \in hist.owed \cap LocalTokens :
    \/ disk.exists /\ disk.text[t] > 0
    \/ \E text \in archived : text[t] > 0
    \/ \E i \in Persisted : i[1] = t

\* One keystroke is one insertion: neither the cache nor the backend ever holds
\* a second live copy of a token that was typed once.
NoDuplicateText ==
  \A t \in Tokens : Text(cache.doc)[t] <= 1 /\ Text(backend)[t] <= 1

\* Short of a crash or a failure between the write of the file and that of its
\* base, sends that time out, fail or are repeated insert no text a second time.
RetriesInsertOnce == faults["crash"] + faults["ioError"] = 0 => NoDuplicateText

\* The projected base's text is the text of its CRDT state, which is what
\* buildLocalUpdateFromBase needs to capture any later edit at all.
BaseMatchesState == base.known => BaseCoherent

\* The projected base only moves forward, and never past what the cache holds:
\* a later capture can not undo remote text it never showed to the editor.
BaseAdvances == [][Within(base.doc, base'.doc)]_vars
BaseBehindCache == Within(base.doc, base.seqDoc) /\ Within(base.seqDoc, cache.doc)

\* What the proofs of the two invariants above rest on.  While a row is being
\* sent, the job works on that row; while the file is being written, there is
\* no row; and what a store step will record lies between base and cache.
Flushing == pc \in {"send", "sending", "finalize", "clear"}
Writing  == pc \in {"archive", "write", "replace", "store", "storeObserved"}

RowsInOrder ==
  /\ \A row1, row2 \in outbox : row1 = row2
  /\ \A row \in outbox : Within(base.doc, row.seqDoc) /\ Within(row.seqDoc, cache.doc)
  /\ Writing => outbox = {}

JobInOrder ==
  /\ Flushing => /\ \E row \in outbox : row.update = job.update
                 /\ Within(base.doc, job.obsDoc)
                 /\ Within(job.obsDoc, Merge(cache.doc, job.update))
  /\ pc = "clear" => Within(job.update, cache.doc) /\ job.onDiverge = "observed"
  /\ Writing \/ pc = "clear" =>
       /\ Within(base.doc, job.final) /\ Within(job.final, cache.doc)
       /\ job.onDiverge = "observed" =>
            Within(base.doc, job.obsDoc) /\ Within(job.obsDoc, cache.doc)
  /\ pc = "storeObserved" => job.onDiverge = "observed"

\* At most one frame has a waiter, and it waits.
OneWaiter ==
  /\ \A i \in 1..Len(sendq) : sendq[i].awaited => pc = "sending"
  /\ \A i, j \in 1..Len(sendq) : sendq[i].awaited /\ sendq[j].awaited => i = j

Ledger == BaseBehindCache /\ RowsInOrder /\ JobInOrder

Recovered == {t \in Tokens : \E text \in archived : text[t] > 0}

\* Once nobody edits and nothing fails any more, file and backend agree, every
\* token that was typed and kept is there once, and every erased one is gone.
Converged ==
  /\ disk.exists
  /\ disk.text = Text(backend)
  /\ \A t \in hist.owed \ Recovered : Text(backend)[t] = 1
  /\ \A t \in hist.erased : Text(backend)[t] = 0

EventuallyConverged == <>[]Converged
=============================================================================
