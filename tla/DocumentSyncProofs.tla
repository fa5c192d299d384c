------------------------- MODULE DocumentSyncProofs -------------------------
(***************************************************************************)
(* Proofs about DocumentSync, for all constants that satisfy               *)
(* ConstantsAssumption: any number of editors' tokens, crashes, lost       *)
(* connections, failing sends and failing writes.                          *)
(***************************************************************************)
EXTENDS DocumentSync, FiniteSetTheorems, TLAPS

-----------------------------------------------------------------------------
(* Types of the operators *)

\* The image of a finite set under a function is finite.
LEMMA ImageFinite ==
  ASSUME NEW S, IsFiniteSet(S), NEW f
  PROVE  IsFiniteSet({f[x] : x \in S})
<1> DEFINE T == {f[x] : x \in S}
           g == [x \in S |-> f[x]]
<1>1. g \in Surjection(S, T)
  BY DEF Surjection
<1> QED
  BY <1>1, FS_Surjection

\* Finitely many tokens.
LEMMA TokensFinite == IsFiniteSet(Tokens)
BY ConstantsAssumption, FS_Union DEF Tokens

\* The content of a document counts every token.
LEMMA TextType ==
  ASSUME NEW doc \in Docs
  PROVE  Text(doc) \in Texts
<1> SUFFICES ASSUME NEW t \in Tokens
             PROVE  Cardinality(Visible(doc, t)) \in Nat
  BY DEF Text, Texts
<1>1. IsFiniteSet(doc.ins)
  BY DEF Docs, FiniteSubsets
<1>2. Visible(doc, t) \in SUBSET doc.ins
  BY DEF Visible
<1>3. IsFiniteSet(Visible(doc, t))
  BY <1>1, <1>2, FS_Subset
<1> QED
  BY <1>3, FS_CardinalityType

\* Merging and diffing documents yields documents.
LEMMA MergeType ==
  ASSUME NEW doc \in Docs, NEW update \in Docs
  PROVE  Merge(doc, update) \in Docs
<1>1. IsFiniteSet(doc.ins \cup update.ins) /\ IsFiniteSet(doc.del \cup update.del)
  BY FS_Union DEF Docs, FiniteSubsets
<1> QED
  BY <1>1 DEF Merge, Docs, FiniteSubsets

LEMMA DiffType ==
  ASSUME NEW doc \in Docs, NEW known
  PROVE  DiffSince(doc, known) \in Docs
<1>1. IsFiniteSet(doc.ins \ known)
  BY FS_Difference DEF Docs, FiniteSubsets
<1> QED
  BY <1>1 DEF DiffSince, Docs, FiniteSubsets

LEMMA EmptyType == EmptyDoc \in Docs /\ EmptyText \in Texts
BY FS_EmptySet DEF EmptyDoc, EmptyText, Docs, Texts, FiniteSubsets

\* The update built from a local text is a document.
LEMMA LocalUpdateType ==
  ASSUME NEW doc \in Docs, NEW local \in Texts, NEW client \in Nat,
         NEW update \in LocalUpdates(doc, local, client)
  PROVE  update \in Docs
<1> DEFINE Minted(t) == {<<t, client, k>> : k \in Extra(doc, local, t)}
<1>1. PICK gone \in SUBSET (doc.ins \ doc.del) :
        update = [ins |-> UNION {Minted(t) : t \in Tokens}, del |-> gone]
  BY DEF LocalUpdates
<1>2. gone \in FiniteSubsets(Items)
  BY <1>1, FS_Subset DEF Docs, FiniteSubsets
<1>3. ASSUME NEW t \in Tokens
      PROVE  Minted(t) \in FiniteSubsets(Items)
  <2>1. local[t] \in Nat
    BY DEF Texts
  <2>2. IsFiniteSet(1..local[t])
    BY <2>1, FS_Interval
  <2>3. Extra(doc, local, t) \in SUBSET (1..local[t])
    BY DEF Extra
  <2>4. IsFiniteSet(Extra(doc, local, t))
    BY <2>2, <2>3, FS_Subset
  <2> DEFINE f == [k \in Extra(doc, local, t) |-> <<t, client, k>>]
  <2>5. IsFiniteSet({f[k] : k \in Extra(doc, local, t)})
    BY <2>4, ImageFinite
  <2>6. {f[k] : k \in Extra(doc, local, t)} = Minted(t)
    OBVIOUS
  <2>7. Extra(doc, local, t) \subseteq Nat
    BY <2>1, <2>3
  <2>8. Minted(t) \subseteq Items
    BY <2>7 DEF Items
  <2> QED
    BY <2>5, <2>6, <2>8 DEF FiniteSubsets
<1>4. UNION {Minted(t) : t \in Tokens} \in FiniteSubsets(Items)
  <2> DEFINE f == [t \in Tokens |-> Minted(t)]
  <2>1. IsFiniteSet({f[t] : t \in Tokens})
    BY TokensFinite, ImageFinite
  <2>2. {f[t] : t \in Tokens} = {Minted(t) : t \in Tokens}
    OBVIOUS
  <2>3. IsFiniteSet({Minted(t) : t \in Tokens})
    BY <2>1, <2>2
  <2>4. \A M \in {Minted(t) : t \in Tokens} : IsFiniteSet(M) /\ M \subseteq Items
    BY <1>3 DEF FiniteSubsets
  <2>5. IsFiniteSet(UNION {Minted(t) : t \in Tokens})
    BY <2>3, <2>4, FS_UNION
  <2> QED
    BY <2>4, <2>5 DEF FiniteSubsets
<1> QED
  BY <1>1, <1>2, <1>4 DEF Docs

\* The incoming updates together form a document.
LEMMA NextCacheType ==
  ASSUME cache \in [known : BOOLEAN, doc : Docs], incoming \in FiniteSubsets(Docs)
  PROVE  NextCache \in [known : BOOLEAN, doc : Docs]
<1> DEFINE Ins == [u \in incoming |-> u.ins]
           Del == [u \in incoming |-> u.del]
<1>1. IsFiniteSet({Ins[u] : u \in incoming}) /\ IsFiniteSet({Del[u] : u \in incoming})
  <2>1. IsFiniteSet(incoming)
    BY DEF FiniteSubsets
  <2>2. \A f : IsFiniteSet({f[u] : u \in incoming})
    BY <2>1, ImageFinite
  <2> HIDE DEF Ins, Del
  <2> QED
    BY <2>2
<1>2. /\ {Ins[u] : u \in incoming} = {u.ins : u \in incoming}
      /\ {Del[u] : u \in incoming} = {u.del : u \in incoming}
  OBVIOUS
<1>3. /\ \A s \in {u.ins : u \in incoming} : IsFiniteSet(s) /\ s \subseteq Items
      /\ \A s \in {u.del : u \in incoming} : IsFiniteSet(s) /\ s \subseteq Items
  <2>1. ASSUME NEW u \in incoming
        PROVE  u.ins \in FiniteSubsets(Items) /\ u.del \in FiniteSubsets(Items)
    <3>1. u \in Docs
      BY DEF FiniteSubsets
    <3> QED
      BY <3>1 DEF Docs
  <2> QED
    BY <2>1 DEF FiniteSubsets
<1>4. /\ IsFiniteSet(UNION {u.ins : u \in incoming})
      /\ IsFiniteSet(UNION {u.del : u \in incoming})
  BY <1>1, <1>2, <1>3, FS_UNION
<1>5. AllIncoming \in Docs
  BY <1>3, <1>4 DEF AllIncoming, Docs, FiniteSubsets
<1> QED
  BY <1>5, MergeType DEF NextCache

-----------------------------------------------------------------------------
(* Type correctness *)

Histories == [typed : SUBSET Tokens, owed : SUBSET Tokens, erased : SUBSET Tokens]

\* The parts of TypeOK about queues and history.
LEMMA TypeParts ==
  ASSUME TypeOK
  PROVE  /\ sendq \in Seq(Frames) /\ toBackend \in Seq(Messages) /\ toDaemon \in Seq(Messages)
         /\ hist \in Histories
BY DEF TypeOK, Histories

\* Counting an event keeps the counters natural numbers.
LEMMA CountType ==
  ASSUME faults \in [FaultKinds -> Nat], NEW kind \in FaultKinds, NEW bound, Count(kind, bound)
  PROVE  faults' \in [FaultKinds -> Nat]
BY DEF Count

\* Frames carry documents, and documents travel in frames.
LEMMA MessageType ==
  /\ \A doc \in Docs : Update(doc) \in Messages
  /\ \A doc \in Docs : SyncStep1(doc.ins) \in Messages
  /\ \A msg \in Messages : AsDoc(msg) \in Docs
BY FS_EmptySet DEF Update, SyncStep1, AsDoc, Messages, Docs, FiniteSubsets

\* Cancelling the waiters of a queue keeps it a queue.
LEMMA NoneAwaitedType ==
  ASSUME NEW q \in Seq(Frames)
  PROVE  /\ NoneAwaited(q) \in Seq(Frames)
         /\ Len(NoneAwaited(q)) = Len(q)
         /\ \A i \in 1..Len(q) : NoneAwaited(q)[i].msg = q[i].msg
                                 /\ ~NoneAwaited(q)[i].awaited
<1>1. \A i \in 1..Len(q) : q[i] \in Frames
  OBVIOUS
<1>2. \A i \in 1..Len(q) : [q[i] EXCEPT !.awaited = FALSE] \in Frames
  BY <1>1 DEF Frames
<1>3. /\ NoneAwaited(q) \in [1..Len(q) -> Frames]
      /\ Len(q) \in Nat
  BY <1>2 DEF NoneAwaited
<1>4. \A i \in 1..Len(q) : NoneAwaited(q)[i] = [q[i] EXCEPT !.awaited = FALSE]
  BY DEF NoneAwaited
<1>5. NoneAwaited(q) \in Seq(Frames) /\ Len(NoneAwaited(q)) = Len(q)
  BY <1>3
<1> QED
  BY <1>1, <1>4, <1>5 DEF Frames

LEMMA EmptyQueues == <<>> \in Seq(Messages) /\ <<>> \in Seq(Frames)
OBVIOUS

LEMMA NoJobType == NoJob \in Jobs
BY EmptyType DEF NoJob, Jobs

\* One step of the reconcile loop preserves the types.
LEMMA TypeReconcile ==
  ASSUME TypeOK, Reconcile
  PROVE  TypeOK'
<1> USE DEF diskVars, cacheVars, netVars
<1> USE NoJobType, EmptyType
<1>1. CASE LoadOutbox
  <2>1. PICK row \in outbox : job' = [NoJob EXCEPT !.update = row.update,
                                 !.observed = row.observed, !.obsDoc = row.seqDoc]
    BY <1>1 DEF LoadOutbox
  <2>2. row.update \in Docs /\ row.observed \in Texts /\ row.seqDoc \in Docs
    BY DEF TypeOK, Rows
  <2>3. job' \in Jobs
    BY <2>1, <2>2 DEF Jobs
  <2>4. pc' \in PCs /\ queued' \in BOOLEAN
    BY <1>1 DEF LoadOutbox, Drain, PCs
  <2> QED
    BY <1>1, <2>3, <2>4 DEF LoadOutbox, TypeOK
<1>2. CASE CaptureLocalUpdate
  <2>1. PICK update \in LocalUpdates(base.doc, disk.text, clients + 1) :
          /\ outbox' = {OutboxRow(update)}
          /\ job' = [NoJob EXCEPT !.update = update, !.observed = disk.text,
                                  !.obsDoc = Merge(base.doc, update)]
    BY <1>2 DEF CaptureLocalUpdate
  <2>2. base.doc \in Docs /\ disk.text \in Texts /\ clients + 1 \in Nat
    BY DEF TypeOK
  <2>3. update \in Docs
    BY <2>2, LocalUpdateType
  <2>4. Merge(base.doc, update) \in Docs
    BY <2>2, <2>3, MergeType
  <2>5. outbox' \in SUBSET Rows
    <3>1. base.seqDoc \in Docs
      BY DEF TypeOK
    <3>2. OutboxRow(update) \in Rows
      BY <2>2, <2>3, <3>1 DEF OutboxRow, Rows
    <3> QED
      BY <2>1, <3>2
  <2>6. job' \in Jobs
    BY <2>1, <2>2, <2>3, <2>4 DEF Jobs
  <2> QED
    BY <1>2, <2>2, <2>5, <2>6 DEF CaptureLocalUpdate, Drain, TypeOK, PCs
<1>3. CASE SkipMismatchedBase
  <2>1. cache' \in [known : BOOLEAN, doc : Docs] /\ incoming' \in FiniteSubsets(Docs)
    BY <1>3, NextCacheType, FS_EmptySet DEF SkipMismatchedBase, TypeOK, FiniteSubsets
  <2> QED
    BY <1>3, <2>1 DEF SkipMismatchedBase, Drain, TypeOK, PCs
<1>4. CASE ApplyIncoming
  <2>1. NextCache \in [known : BOOLEAN, doc : Docs] /\ incoming' \in FiniteSubsets(Docs)
    BY <1>4, NextCacheType, FS_EmptySet DEF ApplyIncoming, TypeOK, FiniteSubsets
  <2>2. tracked' \in [known : BOOLEAN, hash : Texts, dirty : BOOLEAN]
    BY <1>4 DEF ApplyIncoming, TypeOK
  <2>3. job' \in Jobs
    BY <1>4, <2>1, <2>2 DEF ApplyIncoming, Jobs
  <2> QED
    BY <1>4, <2>1, <2>2, <2>3 DEF ApplyIncoming, Drain, TypeOK, PCs
<1>5. CASE FirstProjection
  <2>1. NextCache \in [known : BOOLEAN, doc : Docs] /\ incoming' \in FiniteSubsets(Docs)
    BY <1>5, NextCacheType, FS_EmptySet DEF FirstProjection, TypeOK, FiniteSubsets
  <2>2. job' \in Jobs
    BY <1>5, <2>1 DEF FirstProjection, Jobs
  <2>3. pc' \in PCs
    BY <1>5 DEF FirstProjection, PCs
  <2> QED
    BY <1>5, <2>1, <2>2, <2>3 DEF FirstProjection, Drain, TypeOK
<1>6. CASE Archive
  BY <1>6 DEF Archive, TypeOK, PCs
<1>7. CASE WriteDiverged
  <2>1. tracked' \in [known : BOOLEAN, hash : Texts, dirty : BOOLEAN] /\ pc' \in PCs
    BY <1>7 DEF WriteDiverged, TypeOK, PCs
  <2> QED
    BY <1>7, <2>1 DEF WriteDiverged, TypeOK
<1>8. CASE WriteUnchanged
  <2>1. Text(job.final) \in Texts
    BY TextType DEF TypeOK, Jobs
  <2>2. tracked' \in [known : BOOLEAN, hash : Texts, dirty : BOOLEAN] /\ pc' \in PCs
    BY <1>8, <2>1 DEF WriteUnchanged, TypeOK, PCs
  <2> QED
    BY <1>8, <2>2 DEF WriteUnchanged, TypeOK
<1>9. CASE Replace
  <2>1. Text(job.final) \in Texts
    BY TextType DEF TypeOK, Jobs
  <2>2. disk' \in [exists : BOOLEAN, text : Texts] /\ pc' \in PCs /\ fsEvent' \in BOOLEAN
    BY <1>9, <2>1 DEF Replace, PCs
  <2> QED
    BY <1>9, <2>2 DEF Replace, TypeOK
<1>10. CASE StoreBase
  <2>1. Text(job.final) \in Texts
    BY TextType DEF TypeOK, Jobs
  <2>2. job.final \in Docs
    BY DEF TypeOK, Jobs
  <2>3. /\ base' \in [known : BOOLEAN, text : Texts, doc : Docs, seqDoc : Docs]
        /\ tracked' \in [known : BOOLEAN, hash : Texts, dirty : BOOLEAN]
        /\ pc' \in PCs
    BY <1>10, <2>1, <2>2 DEF StoreBase, TypeOK, PCs
  <2> QED
    BY <1>10, <2>3 DEF StoreBase, TypeOK
<1>11. CASE StoreObserved
  <2>1. job.observed \in Texts /\ job.obsDoc \in Docs /\ cache.doc \in Docs
    BY DEF TypeOK, Jobs
  <2>2. /\ base' \in [known : BOOLEAN, text : Texts, doc : Docs, seqDoc : Docs]
        /\ tracked' \in [known : BOOLEAN, hash : Texts, dirty : BOOLEAN]
        /\ pc' \in PCs
    BY <1>11, <2>1 DEF StoreObserved, PCs
  <2> QED
    BY <1>11, <2>2 DEF StoreObserved, TypeOK
<1>12. CASE NeedsReconcile
  BY <1>12 DEF NeedsReconcile, TypeOK, PCs
<1>13. CASE SendUpdate
  <2>1. [msg |-> Update(job.update), awaited |-> TRUE] \in Frames
    BY MessageType DEF TypeOK, Frames, Jobs
  <2>2. sendq' \in Seq(Frames)
    BY <1>13, <2>1, TypeParts DEF SendUpdate
  <2> QED
    BY <1>13, <2>2 DEF SendUpdate, TypeOK, PCs
<1>14. CASE FinalizeApply
  <2>1. Merge(cache.doc, job.update) \in Docs
    BY MergeType DEF TypeOK, Jobs
  <2>2. job' \in Jobs
    BY <1>14, <2>1 DEF FinalizeApply, TypeOK, Jobs
  <2> QED
    BY <1>14, <2>1, <2>2 DEF FinalizeApply, TypeOK, PCs
<1>15. CASE FinalizeClear
  BY <1>15 DEF FinalizeClear, TypeOK, PCs
<1> QED
  BY <1>1, <1>2, <1>3, <1>4, <1>5, <1>6, <1>7, <1>8, <1>9, <1>10, <1>11, <1>12, <1>13,
     <1>14, <1>15 DEF Reconcile

\* So does a step of the watcher, the socket or the backend.
LEMMA TypeServices ==
  ASSUME TypeOK, Watcher \/ Socket \/ Backend
  PROVE  TypeOK'
<1> USE DEF diskVars, cacheVars, netVars
<1> USE TypeParts
<1>1. CASE HandleWatcherEvent
  BY <1>1 DEF HandleWatcherEvent, TypeOK
<1>2. CASE ScanWorkspace
  BY <1>2 DEF ScanWorkspace, TypeOK
<1>3. CASE Connect
  BY <1>3 DEF Connect, TypeOK
<1>4. CASE FlushSyncStep
  <2>1. SyncStep1(cache.doc.ins) \in Messages
    BY MessageType DEF TypeOK
  <2>2. toBackend' \in Seq(Messages)
    BY <1>4, <2>1 DEF FlushSyncStep
  <2> QED
    BY <1>4, <2>2 DEF FlushSyncStep, TypeOK
<1>5. CASE WriteFrame
  <2>1. Head(sendq) \in Frames /\ Tail(sendq) \in Seq(Frames)
    BY <1>5 DEF WriteFrame
  <2>2. toBackend' \in Seq(Messages)
    BY <1>5, <2>1 DEF WriteFrame, Frames
  <2> QED
    BY <1>5, <2>1, <2>2 DEF WriteFrame, TypeOK, PCs
<1>6. CASE ReceiveStep1
  <2> DEFINE diff == DiffSince(cache.doc, Head(toDaemon).ins)
  <2>1. diff \in Docs
    BY DiffType DEF TypeOK
  <2>2. [msg |-> Update(diff), awaited |-> FALSE] \in Frames
    BY <2>1, MessageType DEF Frames
  <2>3. sendq' \in Seq(Frames)
    BY <1>6, <2>2 DEF ReceiveStep1
  <2>4. toDaemon' \in Seq(Messages)
    BY <1>6 DEF ReceiveStep1
  <2> QED
    BY <1>6, <2>3, <2>4 DEF ReceiveStep1, TypeOK
<1>7. CASE ReceiveUpdate
  <2>1. AsDoc(Head(toDaemon)) \in Docs /\ toDaemon' \in Seq(Messages)
    BY <1>7, MessageType DEF ReceiveUpdate, TypeOK
  <2>2. incoming' \in FiniteSubsets(Docs)
    BY <1>7, <2>1, FS_AddElement DEF ReceiveUpdate, TypeOK, FiniteSubsets
  <2> QED
    BY <1>7, <2>1, <2>2 DEF ReceiveUpdate, TypeOK
<1>8. CASE BackendStep1
  <2>1. Update(DiffSince(backend, Head(toBackend).ins)) \in Messages
    BY DiffType, MessageType DEF TypeOK
  <2>2. SyncStep1(backend.ins) \in Messages
    BY MessageType DEF TypeOK
  <2>3. toDaemon' \in Seq(Messages)
    BY <1>8, <2>1, <2>2 DEF BackendStep1, TypeOK
  <2>4. toBackend' \in Seq(Messages)
    BY <1>8 DEF BackendStep1, TypeOK
  <2> QED
    BY <1>8, <2>3, <2>4 DEF BackendStep1, TypeOK
<1>9. CASE BackendUpdate
  <2>1. AsDoc(Head(toBackend)) \in Docs /\ toBackend' \in Seq(Messages)
    BY <1>9, MessageType DEF BackendUpdate, TypeOK
  <2>2. backend' \in Docs
    BY <1>9, <2>1, MergeType DEF BackendUpdate, TypeOK
  <2>3. toDaemon' \in Seq(Messages)
    BY <1>9, <2>2, MessageType DEF BackendUpdate, TypeOK
  <2> QED
    BY <1>9, <2>1, <2>2, <2>3 DEF BackendUpdate, TypeOK
<1> QED
  BY <1>1, <1>2, <1>3, <1>4, <1>5, <1>6, <1>7, <1>8, <1>9 DEF Watcher, Socket, Backend

\* A remote user's update keeps the types.
LEMMA TypeRemote ==
  ASSUME TypeOK, NEW update \in Docs, RemoteUpdate(update), hist' \in Histories,
         faults' \in [FaultKinds -> Nat]
  PROVE  TypeOK'
<1>1. backend' \in Docs
  BY MergeType DEF RemoteUpdate, TypeOK
<1>2. toDaemon' \in Seq(Messages)
  BY MessageType DEF RemoteUpdate, TypeOK
<1> QED
  BY <1>1, <1>2 DEF RemoteUpdate, TypeOK, Histories, diskVars, cacheVars

\* So does everything the environment may do.
LEMMA TypeEnvironment ==
  ASSUME TypeOK, Environment
  PROVE  TypeOK'
<1> USE DEF diskVars, cacheVars, netVars
<1> USE TypeParts
<1>0. /\ "delete" \in FaultKinds /\ "crash" \in FaultKinds /\ "disconnect" \in FaultKinds
      /\ "sendFailure" \in FaultKinds /\ "ioError" \in FaultKinds
      /\ faults \in [FaultKinds -> Nat]
  BY DEF FaultKinds, TypeOK
<1>1. ASSUME NEW t \in LocalTokens, Type(t)
      PROVE  TypeOK'
  <2>1. t \in Tokens
    BY DEF Tokens
  <2>2. [disk.text EXCEPT ![t] = @ + 1] \in Texts
    BY <2>1 DEF TypeOK, Texts
  <2>3. hist' \in Histories
    BY <1>1, <2>1 DEF Type, Histories
  <2> QED
    BY <1>1, <2>2, <2>3 DEF Type, Edit, TypeOK, Histories
<1>2. ASSUME NEW t \in Tokens, Erase(t)
      PROVE  TypeOK'
  <2>1. [disk.text EXCEPT ![t] = 0] \in Texts
    BY DEF TypeOK, Texts
  <2>2. hist' \in Histories
    BY <1>2 DEF Erase, Histories
  <2>3. faults' \in [FaultKinds -> Nat]
    BY <1>0, <1>2, CountType DEF Erase
  <2> QED
    BY <1>2, <2>1, <2>2, <2>3 DEF Erase, Edit, TypeOK, Histories
<1>3. ASSUME NEW t \in RemoteTokens, RemoteType(t)
      PROVE  TypeOK'
  <2>1. t \in Tokens
    BY DEF Tokens
  <2>2. [ins |-> {<<t, 0, 1>>}, del |-> {}] \in Docs
    <3>1. <<t, 0, 1>> \in Items
      BY <2>1 DEF Items
    <3>2. IsFiniteSet({<<t, 0, 1>>}) /\ IsFiniteSet({})
      BY FS_Singleton, FS_EmptySet
    <3> QED
      BY <3>1, <3>2 DEF Docs, FiniteSubsets
  <2>3. hist' \in Histories /\ faults' \in [FaultKinds -> Nat]
    BY <1>0, <1>3, <2>1 DEF RemoteType, Histories
  <2> QED
    BY <1>3, <2>2, <2>3, TypeRemote DEF RemoteType
<1>4. ASSUME NEW t \in Tokens, RemoteErase(t)
      PROVE  TypeOK'
  <2>1. Visible(backend, t) \in SUBSET backend.ins
    BY DEF Visible
  <2>2. [ins |-> {}, del |-> Visible(backend, t)] \in Docs
    BY <2>1, FS_Subset, FS_EmptySet DEF TypeOK, Docs, FiniteSubsets
  <2>3. hist' \in Histories
    BY <1>4 DEF RemoteErase, Histories
  <2>4. faults' \in [FaultKinds -> Nat]
    BY <1>0, <1>4, CountType DEF RemoteErase
  <2> QED
    BY <1>4, <2>2, <2>3, <2>4, TypeRemote DEF RemoteErase
<1>5. CASE Disconnect
  <2>1. faults' \in [FaultKinds -> Nat]
    BY <1>0, <1>5, CountType DEF Disconnect
  <2>2. socket' \in [connected : BOOLEAN, needsSync : BOOLEAN, subscribed : BOOLEAN]
    BY <1>5 DEF Disconnect, LoseConnection, TypeOK
  <2> QED
    BY <1>5, <2>1, <2>2, EmptyQueues DEF Disconnect, LoseConnection, TypeOK
<1>6. CASE WriteFails
  <2>1. Head(sendq) \in Frames /\ sendq' \in Seq(Frames)
    BY <1>6 DEF WriteFails
  <2>2. Head(sendq).awaited \in BOOLEAN
    BY <2>1 DEF Frames
  <2>3. faults' \in [FaultKinds -> Nat]
    BY <1>0, <1>6, <2>2, CountType DEF WriteFails
  <2>4. pc' \in PCs /\ queued' \in BOOLEAN
    BY <1>6, <2>2 DEF WriteFails, TypeOK, PCs
  <2>5. socket' \in [connected : BOOLEAN, needsSync : BOOLEAN, subscribed : BOOLEAN]
    BY <1>6 DEF WriteFails, LoseConnection, TypeOK
  <2> QED
    BY <1>6, <2>1, <2>3, <2>4, <2>5, EmptyQueues DEF WriteFails, LoseConnection, TypeOK
<1>7. CASE Crash
  <2>1. RestoredTracked \in [known : BOOLEAN, hash : Texts, dirty : BOOLEAN]
    BY EmptyType DEF RestoredTracked, TypeOK
  <2>2. faults' \in [FaultKinds -> Nat]
    BY <1>0, <1>7, CountType DEF Crash
  <2>3. pc' \in PCs /\ job' \in Jobs /\ queued' \in BOOLEAN
    BY <1>7, <2>1, NoJobType DEF Crash, PCs, StartupWork
  <2> QED
    BY <1>7, <2>1, <2>2, <2>3, EmptyQueues DEF Crash, TypeOK
<1>8. CASE SendTimesOut
  <2>1. faults' \in [FaultKinds -> Nat]
    BY <1>0, <1>8, CountType DEF SendTimesOut
  <2>2. sendq' \in Seq(Frames)
    BY <1>8, NoneAwaitedType DEF SendTimesOut
  <2> QED
    BY <1>8, <2>1, <2>2 DEF SendTimesOut, TypeOK, PCs
<1>9. CASE OperationFails
  <2>1. faults' \in [FaultKinds -> Nat]
    BY <1>0, <1>9, CountType DEF OperationFails
  <2> QED
    BY <1>9, <2>1 DEF OperationFails, TypeOK, PCs
<1> QED
  BY <1>1, <1>2, <1>3, <1>4, <1>5, <1>6, <1>7, <1>8, <1>9 DEF Environment

\* Every reachable state is well typed: no operation of the daemon stores a
\* frame for an update, an infinite document or a text with a negative count.
THEOREM TypeCorrect == Spec => []TypeOK
<1>1. Init => TypeOK
  <2> SUFFICES ASSUME Init
               PROVE  TypeOK
    OBVIOUS
  <2>1. incoming \in FiniteSubsets(Docs)
    BY FS_EmptySet DEF Init, FiniteSubsets
  <2>2. job \in Jobs /\ pc \in PCs
    BY NoJobType DEF Init, PCs
  <2> QED
    BY <2>1, <2>2, EmptyType, EmptyQueues DEF Init, TypeOK
<1>2. TypeOK /\ [Next]_vars => TypeOK'
  <2> SUFFICES ASSUME TypeOK, [Next]_vars
               PROVE  TypeOK'
    OBVIOUS
  <2>1. CASE Next
    BY <2>1, TypeReconcile, TypeServices, TypeEnvironment DEF Next
  <2>2. CASE UNCHANGED vars
    BY <2>2 DEF TypeOK, vars
  <2> QED
    BY <2>1, <2>2
<1> QED
  BY <1>1, <1>2, PTL DEF Spec

-----------------------------------------------------------------------------
(* The projected base and the outbox *)

\* Steps that leave the store, pc and job alone preserve the ledger.
LEMMA LedgerFrame ==
  ASSUME Ledger, UNCHANGED <<cache, outbox, base, pc, job>>
  PROVE  Ledger'
BY DEF Ledger, BaseBehindCache, RowsInOrder, JobInOrder, Flushing, Writing

\* So do steps that end a cycle.
LEMMA LedgerIdle ==
  ASSUME Ledger, UNCHANGED <<cache, outbox, base>>, pc' \in {"idle", "check"}
  PROVE  Ledger'
BY DEF Ledger, BaseBehindCache, RowsInOrder, JobInOrder, Flushing, Writing

\* A merge contains both its arguments.
LEMMA MergeWithin ==
  ASSUME NEW doc, NEW update
  PROVE  Within(doc, Merge(doc, update)) /\ Within(update, Merge(doc, update))
BY DEF Within, Merge

LEMMA WithinTransitive ==
  ASSUME NEW d1, NEW d2, NEW d3, Within(d1, d2), Within(d2, d3)
  PROVE  Within(d1, d3)
BY DEF Within

\* The steps of the reconcile loop that start a cycle.
LEMMA LedgerStart ==
  ASSUME TypeOK, Ledger,
         \/ LoadOutbox \/ CaptureLocalUpdate \/ SkipMismatchedBase
         \/ ApplyIncoming \/ FirstProjection
  PROVE  Ledger'
<1> USE DEF Ledger, cacheVars
<1>1. CASE LoadOutbox
  <2>1. PICK row \in outbox : job' = [NoJob EXCEPT !.update = row.update,
                                 !.observed = row.observed, !.obsDoc = row.seqDoc]
    BY <1>1 DEF LoadOutbox
  <2>2. job'.update = row.update /\ job'.obsDoc = row.seqDoc
    BY <2>1 DEF NoJob
  <2>3. UNCHANGED <<cache, outbox, base>> /\ pc' = "send"
    BY <1>1 DEF LoadOutbox
  <2>4. Within(base.doc, row.seqDoc) /\ Within(row.seqDoc, Merge(cache.doc, row.update))
    BY MergeWithin, WithinTransitive DEF RowsInOrder
  <2>5. BaseBehindCache' /\ RowsInOrder'
    BY <2>3 DEF BaseBehindCache, RowsInOrder, Writing
  <2> QED
    BY <2>2, <2>3, <2>4, <2>5 DEF JobInOrder, Flushing, Writing
<1>2. CASE CaptureLocalUpdate
  <2>1. PICK update \in LocalUpdates(base.doc, disk.text, clients + 1) :
          /\ outbox' = {OutboxRow(update)}
          /\ job' = [NoJob EXCEPT !.update = update, !.observed = disk.text,
                                  !.obsDoc = Merge(base.doc, update)]
    BY <1>2 DEF CaptureLocalUpdate
  <2>2. job'.update = update /\ job'.obsDoc = Merge(base.doc, update)
    BY <2>1 DEF NoJob
  <2>3. UNCHANGED <<cache, base>> /\ pc' = "send"
    BY <1>2 DEF CaptureLocalUpdate
  <2>4. Within(base.doc, base.seqDoc) /\ Within(base.seqDoc, cache.doc)
    BY DEF BaseBehindCache
  <2>5. /\ Within(base.doc, Merge(base.doc, update))
        /\ Within(Merge(base.doc, update), Merge(cache.doc, update))
    BY <2>4 DEF Within, Merge
  <2>6. RowsInOrder'
    BY <2>1, <2>3, <2>4 DEF RowsInOrder, OutboxRow, Writing
  <2>7. JobInOrder'
    BY <2>1, <2>2, <2>3, <2>5 DEF JobInOrder, OutboxRow, Flushing, Writing
  <2> QED
    BY <2>3, <2>6, <2>7 DEF BaseBehindCache
<1>3. Within(cache.doc, NextCache.doc)
  BY MergeWithin DEF NextCache
<1>4. Within(base.doc, NextCache.doc) /\ Within(base.seqDoc, NextCache.doc)
  BY <1>3, WithinTransitive DEF BaseBehindCache
<1>5. CASE SkipMismatchedBase
  <2>1. cache' = NextCache /\ UNCHANGED base /\ outbox' = {} /\ pc' = "check"
    BY <1>5 DEF SkipMismatchedBase
  <2> QED
    BY <1>4, <2>1 DEF BaseBehindCache, RowsInOrder, JobInOrder, Flushing, Writing
<1>6. CASE ApplyIncoming
  <2>1. cache' = NextCache /\ UNCHANGED base /\ outbox' = {} /\ pc' \in {"check", "write"}
    BY <1>6 DEF ApplyIncoming
  <2>2. job'.final = NextCache.doc /\ job'.onDiverge = "keep"
    BY <1>6 DEF ApplyIncoming, NoJob
  <2>3. Within(NextCache.doc, NextCache.doc)
    BY DEF Within
  <2> QED
    BY <1>4, <2>1, <2>2, <2>3 DEF BaseBehindCache, RowsInOrder, JobInOrder, Flushing, Writing
<1>7. CASE FirstProjection
  <2>1. /\ cache' = NextCache /\ UNCHANGED base /\ outbox' = {}
        /\ pc' \in {"archive", "check", "write"}
    BY <1>7 DEF FirstProjection
  <2>2. job'.final = NextCache.doc /\ job'.onDiverge = "keep"
    BY <1>7 DEF FirstProjection, NoJob
  <2>3. Within(NextCache.doc, NextCache.doc)
    BY DEF Within
  <2> QED
    BY <1>4, <2>1, <2>2, <2>3 DEF BaseBehindCache, RowsInOrder, JobInOrder, Flushing, Writing
<1> QED
  BY <1>1, <1>2, <1>5, <1>6, <1>7

\* The steps that write the file, store the base, and send.
LEMMA LedgerWork ==
  ASSUME TypeOK, Ledger,
         \/ Archive \/ WriteDiverged \/ WriteUnchanged \/ Replace \/ StoreBase
         \/ StoreObserved \/ NeedsReconcile \/ SendUpdate \/ FinalizeApply \/ FinalizeClear
  PROVE  Ledger'
<1> USE DEF Ledger, cacheVars
<1>1. CASE Archive \/ WriteDiverged \/ WriteUnchanged \/ Replace
  <2>1. /\ UNCHANGED <<cache, outbox, base, job>>
        /\ Writing /\ pc' \in {"write", "replace", "store", "storeObserved", "check"}
        /\ pc' = "storeObserved" => job.onDiverge = "observed"
    BY <1>1 DEF Archive, WriteDiverged, WriteUnchanged, Replace, Writing
  <2> QED
    BY <2>1 DEF BaseBehindCache, RowsInOrder, JobInOrder, Flushing, Writing
<1>2. CASE StoreBase
  <2>1. /\ base'.doc = job.final /\ base'.seqDoc = job.final
        /\ UNCHANGED cache /\ outbox' = {} /\ pc' = "check"
        /\ Within(job.final, cache.doc)
    BY <1>2 DEF StoreBase, RowsInOrder, JobInOrder, Writing
  <2>2. Within(job.final, job.final)
    BY DEF Within
  <2> QED
    BY <2>1, <2>2 DEF BaseBehindCache, RowsInOrder, JobInOrder, Flushing, Writing
<1>3. CASE StoreObserved
  <2>1. /\ base'.doc = job.obsDoc /\ base'.seqDoc = cache.doc
        /\ UNCHANGED cache /\ outbox' = {} /\ pc' = "check"
        /\ Within(job.obsDoc, cache.doc)
    BY <1>3 DEF StoreObserved, RowsInOrder, JobInOrder, Writing
  <2>2. Within(cache.doc, cache.doc)
    BY DEF Within
  <2> QED
    BY <2>1, <2>2 DEF BaseBehindCache, RowsInOrder, JobInOrder, Flushing, Writing
<1>4. CASE NeedsReconcile
  BY <1>4, LedgerIdle DEF NeedsReconcile
<1>5. CASE SendUpdate
  <2>1. UNCHANGED <<cache, outbox, base, job>> /\ pc = "send" /\ pc' = "sending"
    BY <1>5 DEF SendUpdate
  <2> QED
    BY <2>1 DEF BaseBehindCache, RowsInOrder, JobInOrder, Flushing, Writing
<1>6. CASE FinalizeApply
  <2> DEFINE merged == Merge(cache.doc, job.update)
  <2>1. /\ cache'.doc = merged /\ UNCHANGED <<outbox, base>>
        /\ pc = "finalize" /\ pc' = "clear"
    BY <1>6 DEF FinalizeApply
  <2>2. /\ job'.update = job.update /\ job'.obsDoc = job.obsDoc
        /\ job'.final = merged /\ job'.onDiverge = "observed"
    BY <1>6 DEF FinalizeApply, TypeOK, Jobs
  <2>3. /\ \E row \in outbox : row.update = job.update
        /\ Within(base.doc, job.obsDoc) /\ Within(job.obsDoc, merged)
    BY <2>1 DEF JobInOrder, Flushing
  <2>4. Within(cache.doc, merged) /\ Within(job.update, merged) /\ Within(merged, merged)
    BY DEF Merge, Within
  <2>5. Within(base.doc, merged) /\ Within(base.seqDoc, merged)
    BY <2>4, WithinTransitive DEF BaseBehindCache
  <2>6. \A row \in outbox : Within(row.seqDoc, merged)
    BY <2>4, WithinTransitive DEF RowsInOrder
  <2>7. Within(job.obsDoc, Merge(merged, job.update))
    BY <2>3, MergeWithin, WithinTransitive
  <2>8. BaseBehindCache' /\ RowsInOrder'
    BY <2>1, <2>5, <2>6 DEF BaseBehindCache, RowsInOrder, Writing
  <2> HIDE DEF merged
  <2> QED
    BY <2>1, <2>2, <2>3, <2>4, <2>5, <2>7, <2>8 DEF JobInOrder, Flushing, Writing
<1>7. CASE FinalizeClear
  <2>1. UNCHANGED <<cache, base, job>> /\ outbox' = {} /\ pc = "clear" /\ pc' = "write"
    BY <1>7 DEF FinalizeClear
  <2> QED
    BY <2>1 DEF BaseBehindCache, RowsInOrder, JobInOrder, Flushing, Writing
<1> QED
  BY <1>1, <1>2, <1>3, <1>4, <1>5, <1>6, <1>7

\* Facts about the queues used below.
LEMMA QueueFacts ==
  ASSUME NEW S, NEW q \in Seq(S), NEW e \in S
  PROVE  /\ Len(Append(q, e)) = Len(q) + 1
         /\ \A i \in 1..Len(q) : Append(q, e)[i] = q[i]
         /\ Append(q, e)[Len(q) + 1] = e
         /\ q # <<>> => /\ Len(q) > 0 /\ Head(q) = q[1]
                        /\ Len(Tail(q)) = Len(q) - 1
                        /\ \A i \in 1..Len(Tail(q)) : Tail(q)[i] = q[i + 1]
OBVIOUS

\* Every step preserves OneWaiter.
LEMMA WaiterStep ==
  ASSUME TypeOK, OneWaiter, Next
  PROVE  OneWaiter'
<1> USE TypeParts
<1>1. CASE SendUpdate
  <2> DEFINE frame == [msg |-> Update(job.update), awaited |-> TRUE]
  <2>1. frame \in Frames
    BY MessageType DEF TypeOK, Frames, Jobs
  <2>2. /\ Len(sendq') = Len(sendq) + 1
        /\ \A i \in 1..Len(sendq) : sendq'[i] = sendq[i]
        /\ pc = "send" /\ pc' = "sending"
    BY <1>1, <2>1, QueueFacts DEF SendUpdate
  <2>3. \A i \in 1..Len(sendq) : ~sendq[i].awaited
    BY <2>2 DEF OneWaiter
  <2>4. \A i \in 1..Len(sendq') : sendq'[i].awaited => i = Len(sendq) + 1
    BY <2>2, <2>3
  <2> QED
    BY <2>2, <2>4 DEF OneWaiter
<1>2. CASE ReceiveStep1
  <2> DEFINE diff == DiffSince(cache.doc, Head(toDaemon).ins)
             frame == [msg |-> Update(diff), awaited |-> FALSE]
  <2>1. diff \in Docs
    BY DiffType DEF TypeOK
  <2>2. frame \in Frames
    BY <2>1, MessageType DEF Frames
  <2>3. (sendq' = sendq \/ sendq' = Append(sendq, frame)) /\ pc' = pc
    BY <1>2 DEF ReceiveStep1
  <2>4. CASE sendq' = sendq
    BY <2>3, <2>4 DEF OneWaiter
  <2>5. CASE sendq' = Append(sendq, frame)
    <3>1. /\ Len(sendq') = Len(sendq) + 1
          /\ \A i \in 1..Len(sendq) : sendq'[i] = sendq[i]
          /\ sendq'[Len(sendq) + 1] = frame
      BY <2>2, <2>5, QueueFacts
    <3>2. \A i \in 1..Len(sendq') : sendq'[i].awaited => i \in 1..Len(sendq)
      <4>1. ~sendq'[Len(sendq) + 1].awaited
        BY <3>1
      <4>2. \A i \in 1..Len(sendq') : i \in 1..Len(sendq) \/ i = Len(sendq) + 1
        BY <3>1
      <4> QED
        BY <4>1, <4>2
    <3> QED
      BY <2>3, <3>1, <3>2 DEF OneWaiter
  <2> QED
    BY <2>3, <2>4, <2>5
<1>3. CASE WriteFrame \/ WriteFails
  <2>1. /\ sendq # <<>> /\ sendq' = Tail(sendq)
        /\ ~Head(sendq).awaited => pc' = pc
    BY <1>3 DEF WriteFrame, WriteFails
  <2>2. /\ Len(sendq) > 0 /\ Head(sendq) = sendq[1]
        /\ Len(sendq') = Len(sendq) - 1
        /\ \A i \in 1..Len(sendq') : sendq'[i] = sendq[i + 1]
    <3>1. sendq[1] \in Frames
      BY <2>1
    <3> QED
      BY <2>1, <3>1, QueueFacts
  <2>3. CASE Head(sendq).awaited
    <3>1. \A i \in 1..Len(sendq') : i + 1 \in 1..Len(sendq) /\ i + 1 # 1
      BY <2>2
    <3>2. 1 \in 1..Len(sendq) /\ sendq[1].awaited
      BY <2>2, <2>3
    <3>3. \A j \in 1..Len(sendq) : j # 1 => ~sendq[j].awaited
      BY <3>2 DEF OneWaiter
    <3>4. \A i \in 1..Len(sendq') : ~sendq'[i].awaited
      BY <2>2, <3>1, <3>3
    <3> QED
      BY <3>4 DEF OneWaiter
  <2>4. CASE ~Head(sendq).awaited
    BY <2>1, <2>2, <2>4 DEF OneWaiter
  <2> QED
    BY <2>3, <2>4
<1>4. CASE SendTimesOut
  <2>1. Len(sendq') = Len(sendq) /\ \A i \in 1..Len(sendq) : ~sendq'[i].awaited
    BY <1>4, NoneAwaitedType DEF SendTimesOut
  <2> QED
    BY <2>1 DEF OneWaiter
<1>5. CASE Crash
  BY <1>5 DEF Crash, OneWaiter
<1>6. ASSUME UNCHANGED <<sendq, pc>>
      PROVE  OneWaiter'
  BY <1>6 DEF OneWaiter
<1>7. ASSUME UNCHANGED sendq, pc # "sending"
      PROVE  OneWaiter'
  BY <1>7 DEF OneWaiter
<1>8. CASE Reconcile
  <2>1. CASE SendUpdate
    BY <1>1, <2>1
  <2>2. CASE ~SendUpdate
    <3>1. UNCHANGED sendq /\ pc # "sending"
      BY <1>8, <2>2 DEF Reconcile, LoadOutbox, CaptureLocalUpdate, SkipMismatchedBase,
           ApplyIncoming, FirstProjection, Drain, Archive, WriteDiverged, WriteUnchanged,
           Replace, StoreBase, StoreObserved, NeedsReconcile, FinalizeApply, FinalizeClear,
           netVars
    <3> QED
      BY <1>7, <3>1
  <2> QED
    BY <2>1, <2>2
<1>9. CASE Watcher \/ Connect \/ FlushSyncStep \/ ReceiveUpdate \/ Backend
  <2>1. UNCHANGED <<sendq, pc>>
    BY <1>9 DEF Watcher, HandleWatcherEvent, ScanWorkspace, Connect, FlushSyncStep,
         ReceiveUpdate, Backend, BackendStep1, BackendUpdate, netVars
  <2> QED
    BY <1>6, <2>1
<1>10. CASE Environment
  <2>1. CASE WriteFails \/ Crash \/ SendTimesOut
    BY <1>3, <1>4, <1>5, <2>1
  <2>2. CASE OperationFails
    BY <1>7, <2>2 DEF OperationFails, netVars
  <2>3. ASSUME ~(WriteFails \/ Crash \/ SendTimesOut \/ OperationFails)
        PROVE  UNCHANGED <<sendq, pc>>
    BY <1>10, <2>3 DEF Environment, Type, Erase, Edit, RemoteType, RemoteErase, RemoteUpdate,
         Disconnect, netVars
  <2> QED
    BY <1>6, <2>1, <2>2, <2>3
<1> QED
  BY <1>2, <1>3, <1>8, <1>9, <1>10 DEF Next, Socket

\* Every step preserves the ledger.
LEMMA LedgerStep ==
  ASSUME TypeOK, Ledger, OneWaiter, Next
  PROVE  Ledger'
<1> USE DEF cacheVars
<1>1. CASE Reconcile
  BY <1>1, LedgerStart, LedgerWork DEF Reconcile
<1>2. CASE WriteFrame
  <2>1. Head(sendq).awaited => pc = "sending"
    <3>1. sendq # <<>> /\ sendq \in Seq(Frames)
      BY <1>2, TypeParts DEF WriteFrame
    <3>2. 1 \in 1..Len(sendq) /\ Head(sendq) = sendq[1]
      BY <3>1
    <3> QED
      BY <3>2 DEF OneWaiter
  <2>2. UNCHANGED <<cache, outbox, base, job>>
    BY <1>2 DEF WriteFrame
  <2>3. CASE pc' = pc
    BY <2>2, <2>3, LedgerFrame
  <2>4. CASE pc = "sending" /\ pc' = "finalize"
    BY <2>2, <2>4 DEF Ledger, BaseBehindCache, RowsInOrder, JobInOrder, Flushing, Writing
  <2> QED
    BY <1>2, <2>1, <2>3, <2>4 DEF WriteFrame
<1>3. CASE Watcher \/ Connect \/ FlushSyncStep \/ ReceiveStep1 \/ ReceiveUpdate \/ Backend
  <2>1. UNCHANGED <<cache, outbox, base, pc, job>>
    BY <1>3 DEF Watcher, HandleWatcherEvent, ScanWorkspace, Connect, FlushSyncStep,
         ReceiveStep1, ReceiveUpdate, Backend, BackendStep1, BackendUpdate
  <2> QED
    BY <2>1, LedgerFrame
<1>4. CASE WriteFails
  BY <1>4, LedgerFrame, LedgerIdle DEF WriteFails
<1>5. CASE Crash \/ SendTimesOut \/ OperationFails
  BY <1>5, LedgerIdle DEF Crash, SendTimesOut, OperationFails
<1>6. CASE Environment
  <2>1. ASSUME ~(WriteFails \/ Crash \/ SendTimesOut \/ OperationFails)
        PROVE  UNCHANGED <<cache, outbox, base, pc, job>>
    BY <1>6, <2>1 DEF Environment, Type, Erase, Edit, RemoteType, RemoteErase, RemoteUpdate,
         Disconnect
  <2> QED
    BY <1>4, <1>5, <2>1, LedgerFrame
<1> QED
  BY <1>1, <1>2, <1>3, <1>6 DEF Next, Socket

\* From the types, the ledger and the waiters together: an inductive invariant.
Inductive == TypeOK /\ Ledger /\ OneWaiter

LEMMA InductiveKept == Spec => []Inductive
<1>1. Init => Ledger /\ OneWaiter
  <2> SUFFICES ASSUME Init
               PROVE  Ledger /\ OneWaiter
    OBVIOUS
  <2>1. BaseBehindCache /\ RowsInOrder
    BY DEF Init, BaseBehindCache, RowsInOrder, Within, EmptyDoc
  <2>2. JobInOrder
    BY DEF Init, JobInOrder, Flushing, Writing
  <2>3. OneWaiter
    BY DEF Init, OneWaiter
  <2> QED
    BY <2>1, <2>2, <2>3 DEF Ledger
<1>2. TypeOK /\ Ledger /\ OneWaiter /\ [Next]_vars => (Ledger /\ OneWaiter)'
  <2> SUFFICES ASSUME TypeOK, Ledger, OneWaiter, [Next]_vars
               PROVE  Ledger' /\ OneWaiter'
    OBVIOUS
  <2>1. CASE Next
    BY <2>1, LedgerStep, WaiterStep
  <2>2. CASE UNCHANGED vars
    BY <2>2, LedgerFrame DEF OneWaiter, vars
  <2> QED
    BY <2>1, <2>2
<1> QED
  BY <1>1, <1>2, TypeCorrect, PTL DEF Spec, Inductive

\* The projected base never runs ahead of the cache: what the daemon takes for
\* already shown to the editor is always in its CRDT log (storeProjectedBaseAtSeq
\* and storeObservedProjectedBase), whatever crashes, fails or is retried.
THEOREM BaseStaysBehind == Spec => []BaseBehindCache
<1>1. Inductive => BaseBehindCache
  BY DEF Inductive, Ledger
<1> QED
  BY <1>1, InductiveKept, PTL

\* The projected base never moves backwards, neither on a projection nor when
\* finalizeSentOutboxUpdates falls back to the state that was observed.
THEOREM BaseOnlyAdvances == Spec => BaseAdvances
<1>1. Inductive /\ [Next]_vars => [Within(base.doc, base'.doc)]_vars
  <2> SUFFICES ASSUME Inductive, Next
               PROVE  Within(base.doc, base'.doc)
    OBVIOUS
  <2> USE DEF cacheVars
  <2>1. CASE UNCHANGED base
    BY <2>1 DEF Within
  <2>2. CASE StoreBase
    BY <2>2 DEF StoreBase, Inductive, Ledger, JobInOrder, Writing
  <2>3. CASE StoreObserved
    BY <2>3 DEF StoreObserved, Inductive, Ledger, JobInOrder, Writing
  <2>4. ASSUME Reconcile, ~StoreBase, ~StoreObserved
        PROVE  UNCHANGED base
    BY <2>4 DEF Reconcile, LoadOutbox, CaptureLocalUpdate, SkipMismatchedBase, ApplyIncoming,
         FirstProjection, Archive, WriteDiverged, WriteUnchanged, Replace, NeedsReconcile,
         SendUpdate, FinalizeApply, FinalizeClear
  <2>5. ASSUME Watcher \/ Socket \/ Backend
        PROVE  UNCHANGED base
    BY <2>5 DEF Watcher, HandleWatcherEvent, ScanWorkspace, Socket, Connect, FlushSyncStep,
         WriteFrame, ReceiveStep1, ReceiveUpdate, Backend, BackendStep1, BackendUpdate
  <2>6. ASSUME Environment
        PROVE  UNCHANGED base
    BY <2>6 DEF Environment, Type, Erase, Edit, RemoteType, RemoteErase, RemoteUpdate,
         Disconnect, WriteFails, Crash, SendTimesOut, OperationFails
  <2> QED
    BY <2>1, <2>2, <2>3, <2>4, <2>5, <2>6 DEF Next
<1> QED
  BY <1>1, InductiveKept, PTL DEF Spec, BaseAdvances

-----------------------------------------------------------------------------
(* Persist before send *)

\* Nothing that is on stable storage is ever dropped: the outbox row goes only
\* after its update is in the CRDT log.
LEMMA PersistedGrows ==
  ASSUME Inductive, Next
  PROVE  Persisted \subseteq Persisted'
<1> USE DEF cacheVars
<1>1. ASSUME cache.doc.ins \subseteq cache'.doc.ins, outbox \subseteq outbox'
      PROVE  Persisted \subseteq Persisted'
  BY <1>1 DEF Persisted
<1>2. CASE UNCHANGED <<cache, outbox>>
  BY <1>1, <1>2
<1>3. CASE CaptureLocalUpdate
  <2>1. UNCHANGED cache /\ outbox = {}
    BY <1>3 DEF CaptureLocalUpdate
  <2> QED
    BY <1>1, <2>1
<1>4. CASE SkipMismatchedBase \/ ApplyIncoming \/ FirstProjection
  <2>1. cache' = NextCache /\ UNCHANGED outbox
    BY <1>4 DEF SkipMismatchedBase, ApplyIncoming, FirstProjection
  <2>2. Within(cache.doc, NextCache.doc)
    BY MergeWithin DEF NextCache
  <2> QED
    BY <1>1, <2>1, <2>2 DEF Within
<1>5. CASE FinalizeApply
  <2>1. cache'.doc = Merge(cache.doc, job.update) /\ UNCHANGED outbox
    BY <1>5 DEF FinalizeApply
  <2> QED
    BY <1>1, <2>1, MergeWithin DEF Within
<1>6. CASE FinalizeClear
  <2>1. UNCHANGED cache /\ pc = "clear"
    BY <1>6 DEF FinalizeClear
  <2>2. \A row \in outbox : row.update = job.update
    BY <2>1 DEF Inductive, Ledger, RowsInOrder, JobInOrder, Flushing
  <2>3. job.update.ins \subseteq cache.doc.ins
    BY <2>1 DEF Inductive, Ledger, JobInOrder, Within
  <2>4. Persisted \subseteq cache.doc.ins
    BY <2>2, <2>3 DEF Persisted
  <2>5. cache'.doc.ins \subseteq Persisted'
    BY DEF Persisted
  <2> QED
    BY <2>1, <2>4, <2>5
<1>7. ASSUME Reconcile
      PROVE  \/ CaptureLocalUpdate \/ SkipMismatchedBase \/ ApplyIncoming \/ FirstProjection
             \/ FinalizeApply \/ FinalizeClear \/ UNCHANGED <<cache, outbox>>
  BY <1>7 DEF Reconcile, LoadOutbox, Archive, WriteDiverged, WriteUnchanged, Replace,
       StoreBase, StoreObserved, NeedsReconcile, SendUpdate
<1>8. ASSUME Watcher \/ Socket \/ Backend
      PROVE  UNCHANGED <<cache, outbox>>
  BY <1>8 DEF Watcher, HandleWatcherEvent, ScanWorkspace, Socket, Connect, FlushSyncStep,
       WriteFrame, ReceiveStep1, ReceiveUpdate, Backend, BackendStep1, BackendUpdate
<1>9. ASSUME Environment
      PROVE  UNCHANGED <<cache, outbox>>
  BY <1>9 DEF Environment, Type, Erase, Edit, RemoteType, RemoteErase, RemoteUpdate,
       Disconnect, WriteFails, Crash, SendTimesOut, OperationFails
<1> QED
  BY <1>2, <1>3, <1>4, <1>5, <1>6, <1>7, <1>8, <1>9 DEF Next

\* The three places a captured item can be on its way.
QueuePersisted == \A i \in 1..Len(sendq) : Local(sendq[i].msg.ins) \subseteq Persisted
WirePersisted ==
  \A i \in 1..Len(toBackend) :
    toBackend[i].type = "update" => Local(toBackend[i].ins) \subseteq Persisted
BackendPersisted == Local(backend.ins) \subseteq Persisted

\* A frame enters the send queue only with items of the outbox row or the log.
LEMMA QueueStep ==
  ASSUME Inductive, QueuePersisted, Next
  PROVE  QueuePersisted'
<1> USE TypeParts
<1>0. TypeOK /\ Persisted \subseteq Persisted'
  BY PersistedGrows DEF Inductive
<1>1. CASE UNCHANGED sendq
  BY <1>0, <1>1 DEF QueuePersisted
<1>2. ASSUME NEW frame \in Frames, sendq' = Append(sendq, frame),
             Local(frame.msg.ins) \subseteq Persisted
      PROVE  QueuePersisted'
  <2>1. /\ Len(sendq') = Len(sendq) + 1
        /\ \A i \in 1..Len(sendq) : sendq'[i] = sendq[i]
        /\ sendq'[Len(sendq) + 1] = frame
    BY <1>0, <1>2, QueueFacts
  <2>2. \A i \in 1..Len(sendq') : i \in 1..Len(sendq) \/ i = Len(sendq) + 1
    BY <2>1
  <2> QED
    BY <1>0, <1>2, <2>1, <2>2 DEF QueuePersisted
<1>3. CASE SendUpdate
  <2> DEFINE frame == [msg |-> Update(job.update), awaited |-> TRUE]
  <2>1. frame \in Frames
    BY <1>0, MessageType DEF TypeOK, Frames, Jobs
  <2>2. PICK row \in outbox : row.update = job.update
    BY <1>3 DEF SendUpdate, Inductive, Ledger, JobInOrder, Flushing
  <2>3. job.update.ins \subseteq Persisted
    BY <2>2 DEF Persisted
  <2>4. Local(frame.msg.ins) \subseteq Persisted
    BY <2>3 DEF Local, Update
  <2> HIDE DEF frame
  <2>5. sendq' = Append(sendq, frame)
    BY <1>3 DEF SendUpdate, frame
  <2> QED
    BY <1>2, <2>1, <2>4, <2>5
<1>4. CASE ReceiveStep1
  <2> DEFINE diff == DiffSince(cache.doc, Head(toDaemon).ins)
             frame == [msg |-> Update(diff), awaited |-> FALSE]
  <2>1. diff \in Docs
    BY <1>0, DiffType DEF TypeOK
  <2>2. frame \in Frames
    BY <2>1, MessageType DEF Frames
  <2>3. diff.ins \subseteq Persisted
    BY DEF DiffSince, Persisted
  <2>4. Local(frame.msg.ins) \subseteq Persisted
    BY <2>3 DEF Local, Update
  <2>5. sendq' = sendq \/ sendq' = Append(sendq, frame)
    BY <1>4 DEF ReceiveStep1
  <2> HIDE DEF frame
  <2> QED
    BY <1>1, <1>2, <2>2, <2>4, <2>5
<1>5. CASE WriteFrame \/ WriteFails
  <2>1. sendq # <<>> /\ sendq' = Tail(sendq)
    BY <1>5 DEF WriteFrame, WriteFails
  <2>2. /\ Len(sendq) > 0 /\ Len(sendq') = Len(sendq) - 1
        /\ \A i \in 1..Len(sendq') : sendq'[i] = sendq[i + 1]
    <3>1. sendq[1] \in Frames
      BY <1>0, <2>1
    <3> QED
      BY <1>0, <2>1, <3>1, QueueFacts
  <2>3. \A i \in 1..Len(sendq') : i + 1 \in 1..Len(sendq)
    BY <1>0, <2>2
  <2> QED
    BY <1>0, <2>2, <2>3 DEF QueuePersisted
<1>6. CASE SendTimesOut
  <2>1. Len(sendq') = Len(sendq) /\ \A i \in 1..Len(sendq) : sendq'[i].msg = sendq[i].msg
    BY <1>0, <1>6, NoneAwaitedType DEF SendTimesOut
  <2> QED
    BY <1>0, <2>1 DEF QueuePersisted
<1>7. CASE Crash
  BY <1>7 DEF Crash, QueuePersisted
<1>8. ASSUME ~SendUpdate, ~ReceiveStep1, ~WriteFrame, ~WriteFails, ~SendTimesOut, ~Crash
      PROVE  UNCHANGED sendq
  <2> USE DEF netVars
  <2>1. CASE Reconcile
    BY <1>8, <2>1 DEF Reconcile, LoadOutbox, CaptureLocalUpdate, SkipMismatchedBase,
         ApplyIncoming, FirstProjection, Archive, WriteDiverged, WriteUnchanged, Replace,
         StoreBase, StoreObserved, NeedsReconcile, FinalizeApply, FinalizeClear
  <2>2. CASE Watcher \/ Socket \/ Backend
    BY <1>8, <2>2 DEF Watcher, HandleWatcherEvent, ScanWorkspace, Socket, Connect,
         FlushSyncStep, ReceiveUpdate, Backend, BackendStep1, BackendUpdate
  <2>3. CASE Environment
    BY <1>8, <2>3 DEF Environment, Type, Erase, Edit, RemoteType, RemoteErase, RemoteUpdate,
         Disconnect, OperationFails
  <2> QED
    BY <2>1, <2>2, <2>3 DEF Next
<1> QED
  BY <1>1, <1>3, <1>4, <1>5, <1>6, <1>7, <1>8

\* The connection only carries what was in the send queue, and state vectors.
LEMMA WireStep ==
  ASSUME Inductive, QueuePersisted, WirePersisted, Next
  PROVE  WirePersisted'
<1> USE TypeParts
<1>0. TypeOK /\ Persisted \subseteq Persisted'
  BY PersistedGrows DEF Inductive
<1>1. CASE UNCHANGED toBackend
  BY <1>0, <1>1 DEF WirePersisted
<1>2. ASSUME NEW msg \in Messages, toBackend' = Append(toBackend, msg),
             msg.type = "update" => Local(msg.ins) \subseteq Persisted
      PROVE  WirePersisted'
  <2>1. /\ Len(toBackend') = Len(toBackend) + 1
        /\ \A i \in 1..Len(toBackend) : toBackend'[i] = toBackend[i]
        /\ toBackend'[Len(toBackend) + 1] = msg
    BY <1>0, <1>2, QueueFacts
  <2>2. \A i \in 1..Len(toBackend') : i \in 1..Len(toBackend) \/ i = Len(toBackend) + 1
    BY <2>1
  <2> QED
    BY <1>0, <1>2, <2>1, <2>2 DEF WirePersisted
<1>3. CASE FlushSyncStep
  <2>1. SyncStep1(cache.doc.ins) \in Messages
    BY <1>0, MessageType DEF TypeOK
  <2>2. SyncStep1(cache.doc.ins).type # "update"
    BY DEF SyncStep1
  <2>3. toBackend' = Append(toBackend, SyncStep1(cache.doc.ins))
    BY <1>3 DEF FlushSyncStep
  <2> QED
    BY <1>2, <2>1, <2>2, <2>3
<1>4. CASE WriteFrame
  <2>1. sendq # <<>> /\ toBackend' = Append(toBackend, Head(sendq).msg)
    BY <1>4 DEF WriteFrame
  <2>2. 1 \in 1..Len(sendq) /\ Head(sendq) = sendq[1] /\ Head(sendq) \in Frames
    BY <1>0, <2>1
  <2>3. Head(sendq).msg \in Messages /\ Local(Head(sendq).msg.ins) \subseteq Persisted
    BY <2>2 DEF Frames, QueuePersisted
  <2> QED
    BY <1>2, <2>1, <2>3
<1>5. CASE Backend
  <2>1. toBackend # <<>> /\ toBackend' = Tail(toBackend)
    BY <1>5 DEF Backend, BackendStep1, BackendUpdate
  <2>2. /\ Len(toBackend) > 0 /\ Len(toBackend') = Len(toBackend) - 1
        /\ \A i \in 1..Len(toBackend') : toBackend'[i] = toBackend[i + 1]
    <3>1. toBackend[1] \in Messages
      BY <1>0, <2>1
    <3> QED
      BY <1>0, <2>1, <3>1, QueueFacts
  <2>3. \A i \in 1..Len(toBackend') : i + 1 \in 1..Len(toBackend)
    BY <1>0, <2>2
  <2> QED
    BY <1>0, <2>2, <2>3 DEF WirePersisted
<1>6. CASE Disconnect \/ WriteFails \/ Crash
  <2>1. toBackend' = <<>>
    BY <1>6 DEF Disconnect, WriteFails, LoseConnection, Crash
  <2> QED
    BY <2>1 DEF WirePersisted
<1>7. ASSUME ~FlushSyncStep, ~WriteFrame, ~Backend, ~Disconnect, ~WriteFails, ~Crash
      PROVE  UNCHANGED toBackend
  <2> USE DEF netVars
  <2>1. CASE Reconcile
    BY <2>1 DEF Reconcile, LoadOutbox, CaptureLocalUpdate, SkipMismatchedBase,
         ApplyIncoming, FirstProjection, Archive, WriteDiverged, WriteUnchanged, Replace,
         StoreBase, StoreObserved, NeedsReconcile, SendUpdate, FinalizeApply, FinalizeClear
  <2>2. CASE Watcher \/ Socket
    BY <1>7, <2>2 DEF Watcher, HandleWatcherEvent, ScanWorkspace, Socket, Connect,
         ReceiveStep1, ReceiveUpdate
  <2>3. CASE Environment
    BY <1>7, <2>3 DEF Environment, Type, Erase, Edit, RemoteType, RemoteErase, RemoteUpdate,
         SendTimesOut, OperationFails
  <2> QED
    BY <1>7, <2>1, <2>2, <2>3 DEF Next
<1> QED
  BY <1>1, <1>3, <1>4, <1>5, <1>6, <1>7

\* The backend learns local items from the connection only; remote users mint
\* items of their own clients.
LEMMA BackendStep ==
  ASSUME Inductive, WirePersisted, BackendPersisted, Next
  PROVE  BackendPersisted'
<1> USE TypeParts
<1>0. TypeOK /\ Persisted \subseteq Persisted'
  BY PersistedGrows DEF Inductive
<1>1. CASE UNCHANGED backend
  BY <1>0, <1>1 DEF BackendPersisted
<1>2. CASE BackendUpdate
  <2>1. toBackend # <<>> /\ Head(toBackend).type = "update"
    BY <1>2 DEF BackendUpdate
  <2>2. 1 \in 1..Len(toBackend) /\ Head(toBackend) = toBackend[1]
    BY <1>0, <2>1
  <2>3. Local(Head(toBackend).ins) \subseteq Persisted
    BY <2>1, <2>2 DEF WirePersisted
  <2>4. backend'.ins = backend.ins \cup Head(toBackend).ins
    BY <1>2 DEF BackendUpdate, Merge, AsDoc
  <2> QED
    BY <1>0, <2>3, <2>4 DEF BackendPersisted, Local
<1>3. ASSUME NEW t \in Tokens, RemoteErase(t)
      PROVE  BackendPersisted'
  <2>1. backend'.ins = backend.ins
    BY <1>3 DEF RemoteErase, RemoteUpdate, Merge
  <2> QED
    BY <1>0, <2>1 DEF BackendPersisted, Local
<1>4. ASSUME NEW t \in RemoteTokens, RemoteType(t)
      PROVE  BackendPersisted'
  <2>1. backend'.ins = backend.ins \cup {<<t, 0, 1>>}
    BY <1>4 DEF RemoteType, RemoteUpdate, Merge
  <2>2. Local(backend'.ins) \subseteq Local(backend.ins)
    BY <2>1 DEF Local
  <2> QED
    BY <1>0, <2>2 DEF BackendPersisted
<1>5. ASSUME ~BackendUpdate, ~\E t \in Tokens : RemoteErase(t), ~\E t \in RemoteTokens : RemoteType(t)
      PROVE  UNCHANGED backend
  <2> USE DEF netVars
  <2>1. CASE Reconcile
    BY <2>1 DEF Reconcile, LoadOutbox, CaptureLocalUpdate, SkipMismatchedBase,
         ApplyIncoming, FirstProjection, Archive, WriteDiverged, WriteUnchanged, Replace,
         StoreBase, StoreObserved, NeedsReconcile, SendUpdate, FinalizeApply, FinalizeClear
  <2>2. CASE Watcher \/ Socket \/ Backend
    BY <1>5, <2>2 DEF Watcher, HandleWatcherEvent, ScanWorkspace, Socket, Connect,
         FlushSyncStep, WriteFrame, ReceiveStep1, ReceiveUpdate, Backend, BackendStep1
  <2>3. CASE Environment
    BY <1>5, <2>3 DEF Environment, Type, Erase, Edit, Disconnect, WriteFails, Crash,
         SendTimesOut, OperationFails
  <2> QED
    BY <2>1, <2>2, <2>3 DEF Next
<1> QED
  BY <1>1, <1>2, <1>3, <1>4, <1>5

\* Whatever a capture put into the send queue, on the wire or into the backend
\* is in the outbox or the CRDT log on the daemon's disk: with any number of
\* crashes, lost frames, timed-out sends and retries, the outbox row is deleted
\* (clearSentOutboxUpdates) only once the log has its update.
THEOREM PersistBeforeSend == Spec => []SentIsPersisted
<1>1. SentIsPersisted <=> QueuePersisted /\ WirePersisted /\ BackendPersisted
  BY DEF SentIsPersisted, QueuePersisted, WirePersisted, BackendPersisted
<1>2. Init => SentIsPersisted
  BY DEF Init, SentIsPersisted, Local, EmptyDoc
<1>3. Inductive /\ SentIsPersisted /\ [Next]_vars => SentIsPersisted'
  <2> SUFFICES ASSUME Inductive, SentIsPersisted, [Next]_vars
               PROVE  SentIsPersisted'
    OBVIOUS
  <2>1. CASE Next
    <3>1. QueuePersisted' /\ WirePersisted' /\ BackendPersisted'
      BY <1>1, <2>1, QueueStep, WireStep, BackendStep
    <3> QED
      BY <3>1 DEF SentIsPersisted, QueuePersisted, WirePersisted, BackendPersisted
  <2>2. CASE UNCHANGED vars
    BY <2>2 DEF SentIsPersisted, Persisted, vars
  <2> QED
    BY <2>1, <2>2
<1> QED
  BY <1>2, <1>3, InductiveKept, PTL DEF Spec
=============================================================================
