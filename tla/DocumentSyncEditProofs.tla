----------------------- MODULE DocumentSyncEditProofs -----------------------
(***************************************************************************)
(* Proofs about what happens to the text an editor types: it is kept until *)
(* it is captured, it is inserted once, and the projected base it is       *)
(* compared with matches its CRDT state.  They build on the inductive      *)
(* invariant of DocumentSyncProofs.                                        *)
(***************************************************************************)
EXTENDS DocumentSyncProofs

-----------------------------------------------------------------------------
(* Text in the file, in the recovery directory and in the store *)

\* The local tokens of a text, of the file, and those that are safe without it.
Held(text) == {t \in LocalTokens : text[t] > 0}
OnDisk == {t \in LocalTokens : disk.exists /\ disk.text[t] > 0}
Captured == {t \in LocalTokens : \/ \E text \in archived : text[t] > 0
                                 \/ \E i \in Persisted : i[1] = t}

\* The texts the daemon compares the file with are captured.
BasesKept ==
  /\ base.known => Held(base.text) \subseteq Captured
  /\ tracked.known => Held(tracked.hash) \subseteq Captured
  /\ \A row \in outbox : Held(row.observed) \subseteq Captured

\* So are those of the running job, and the file it is about to replace.
JobKept ==
  /\ Flushing => Held(job.observed) \subseteq Captured
  /\ Writing /\ job.onDiverge = "observed" => Held(job.observed) \subseteq Captured
  /\ (Writing \/ pc = "clear") /\ job.expectKnown => Held(job.expect) \subseteq Captured
  /\ pc = "replace" /\ job.expectKnown => Held(disk.text) \subseteq Captured

\* Before the first projection a file is dirty, so it is archived before the
\* unconditional first write.
FirstWrite ==
  /\ ~base.known => tracked.dirty /\ outbox = {}
  /\ Flushing => base.known
  /\ pc = "clear" => job.expectKnown
  /\ pc \in {"write", "replace"} /\ ~job.expectKnown => ~disk.exists

OwedKept == hist.owed \cap LocalTokens \subseteq OnDisk \cup Captured

EditsKept == BasesKept /\ JobKept /\ FirstWrite /\ OwedKept

\* A token with a positive count has an item.
LEMMA CountedItem ==
  ASSUME NEW doc \in Docs, NEW t \in Tokens, Text(doc)[t] > 0
  PROVE  \E i \in doc.ins : i[1] = t
<1>1. Cardinality(Visible(doc, t)) > 0
  BY DEF Text
<1>2. Visible(doc, t) # {}
  BY <1>1, FS_EmptySet
<1> QED
  BY <1>2 DEF Visible

\* The text of a persisted document is captured.
LEMMA TextCaptured ==
  ASSUME NEW doc \in Docs, doc.ins \subseteq cache.doc.ins
  PROVE  Held(Text(doc)) \subseteq Captured
<1> SUFFICES ASSUME NEW t \in LocalTokens, Text(doc)[t] > 0
             PROVE  t \in Captured
  BY DEF Held
<1>1. PICK i \in doc.ins : i[1] = t
  BY CountedItem DEF Tokens
<1>2. i \in Persisted
  BY <1>1 DEF Persisted
<1> QED
  BY <1>1, <1>2 DEF Captured

\* What is captured stays captured.
LEMMA CapturedGrows ==
  ASSUME Inductive, Next
  PROVE  Captured \subseteq Captured'
<1>1. Persisted \subseteq Persisted'
  BY PersistedGrows
<1>2. archived \subseteq archived'
  <2> USE DEF diskVars
  <2>1. CASE Reconcile
    BY <2>1 DEF Reconcile, LoadOutbox, CaptureLocalUpdate, SkipMismatchedBase,
         ApplyIncoming, FirstProjection, Archive, WriteDiverged, WriteUnchanged, Replace,
         StoreBase, StoreObserved, NeedsReconcile, SendUpdate, FinalizeApply, FinalizeClear
  <2>2. CASE Watcher \/ Socket \/ Backend
    BY <2>2 DEF Watcher, HandleWatcherEvent, ScanWorkspace, Socket, Connect, FlushSyncStep,
         WriteFrame, ReceiveStep1, ReceiveUpdate, Backend, BackendStep1, BackendUpdate
  <2>3. CASE Environment
    BY <2>3 DEF Environment, Type, Erase, Edit, RemoteType, RemoteErase, RemoteUpdate,
         Disconnect, WriteFails, Crash, SendTimesOut, OperationFails
  <2> QED
    BY <2>1, <2>2, <2>3 DEF Next
<1>3. \A t : /\ (\E text \in archived : text[t] > 0) => \E text \in archived' : text[t] > 0
             /\ (\E i \in Persisted : i[1] = t) => \E i \in Persisted' : i[1] = t
  BY <1>1, <1>2
<1> QED
  BY <1>3 DEF Captured

\* Capturing the file persists every token of its text: in the base, whose
\* items are in the log, or in the new outbox row.
LEMMA CaptureKeeps ==
  ASSUME Inductive, CaptureLocalUpdate
  PROVE  /\ Held(disk.text) \subseteq Captured'
         /\ \A row \in outbox' : row.observed = disk.text
         /\ job'.observed = disk.text /\ job'.onDiverge = "keep" /\ ~job'.expectKnown
<1>1. PICK update \in LocalUpdates(base.doc, disk.text, clients + 1) :
        /\ outbox' = {OutboxRow(update)}
        /\ job' = [NoJob EXCEPT !.update = update, !.observed = disk.text,
                                !.obsDoc = Merge(base.doc, update)]
  BY DEF CaptureLocalUpdate
<1>2. UNCHANGED cache /\ base.doc \in Docs /\ disk.text \in Texts
  BY DEF CaptureLocalUpdate, Inductive, TypeOK
<1>3. base.doc.ins \subseteq cache.doc.ins
  BY DEF Inductive, Ledger, BaseBehindCache, Within
<1>4. update.ins = UNION {{<<t, clients + 1, k>> : k \in Extra(base.doc, disk.text, t)} : t \in Tokens}
  BY DEF LocalUpdates
<1>5. ASSUME NEW t \in LocalTokens, disk.text[t] > 0
      PROVE  t \in Captured'
  <2>1. t \in Tokens /\ disk.text[t] \in Nat
    BY <1>2 DEF Tokens, Texts
  <2>2. Persisted' = cache.doc.ins \cup update.ins
    BY <1>1, <1>2 DEF Persisted, OutboxRow
  <2>3. \E i \in Persisted' : i[1] = t
    <3>1. CASE Text(base.doc)[t] > 0
      BY <1>2, <1>3, <2>1, <2>2, <3>1, CountedItem
    <3>2. CASE ~(Text(base.doc)[t] > 0)
      <4>1. Text(base.doc)[t] \in Nat
        BY <1>2, <2>1, TextType DEF Texts
      <4>2. disk.text[t] \in Extra(base.doc, disk.text, t)
        BY <1>5, <2>1, <3>2, <4>1 DEF Extra
      <4>3. <<t, clients + 1, disk.text[t]>> \in update.ins
        BY <1>4, <2>1, <4>2
      <4> QED
        BY <2>2, <4>3
    <3> QED
      BY <3>1, <3>2
  <2> QED
    BY <2>3 DEF Captured
<1> QED
  BY <1>1, <1>5 DEF Held, OutboxRow, NoJob

\* Steps that leave the file, the store, the job and the flags alone.
LEMMA KeptFrame ==
  ASSUME EditsKept, Captured \subseteq Captured', hist'.owed \cap LocalTokens \subseteq hist.owed,
         UNCHANGED <<disk, tracked, outbox, base, pc, job>>
  PROVE  EditsKept'
<1>1. BasesKept'
  BY DEF EditsKept, BasesKept
<1>2. JobKept'
  BY DEF EditsKept, JobKept, Flushing, Writing
<1>3. FirstWrite'
  BY DEF EditsKept, FirstWrite, Flushing
<1>4. OwedKept'
  BY DEF EditsKept, OwedKept, OnDisk
<1> QED
  BY <1>1, <1>2, <1>3, <1>4 DEF EditsKept

\* Steps that end a cycle, or only change the flags.
LEMMA KeptIdle ==
  ASSUME EditsKept, Captured \subseteq Captured', UNCHANGED <<disk, outbox, base, hist>>,
         \/ pc' \in {"idle", "check"}
         \/ UNCHANGED <<pc, job>>,
         tracked'.known => Held(tracked'.hash) \subseteq Captured,
         ~base.known => tracked'.dirty
  PROVE  EditsKept'
<1>1. BasesKept'
  BY DEF EditsKept, BasesKept
<1>2. JobKept'
  BY DEF EditsKept, JobKept, Flushing, Writing
<1>3. FirstWrite'
  BY DEF EditsKept, FirstWrite, Flushing
<1>4. OwedKept'
  BY DEF EditsKept, OwedKept, OnDisk
<1> QED
  BY <1>1, <1>2, <1>3, <1>4 DEF EditsKept

\* The steps that start a cycle.
LEMMA KeptStart ==
  ASSUME Inductive, EditsKept, Captured \subseteq Captured',
         \/ LoadOutbox \/ CaptureLocalUpdate \/ SkipMismatchedBase
         \/ ApplyIncoming \/ FirstProjection
  PROVE  EditsKept'
<1> USE DEF diskVars, cacheVars
<1>0. UNCHANGED <<disk, base, hist>>
  BY DEF LoadOutbox, CaptureLocalUpdate, SkipMismatchedBase, ApplyIncoming, FirstProjection
<1>1. OwedKept'
  BY <1>0 DEF EditsKept, OwedKept, OnDisk
<1>2. CASE LoadOutbox
  <2>1. PICK row \in outbox : job' = [NoJob EXCEPT !.update = row.update,
                                 !.observed = row.observed, !.obsDoc = row.seqDoc]
    BY <1>2 DEF LoadOutbox
  <2>2. job'.observed = row.observed /\ pc' = "send" /\ UNCHANGED <<tracked, outbox>>
    BY <1>2, <2>1 DEF LoadOutbox, NoJob
  <2>3. BasesKept'
    BY <1>0, <2>2 DEF EditsKept, BasesKept
  <2>4. JobKept'
    BY <2>2 DEF EditsKept, BasesKept, JobKept, Writing
  <2>5. FirstWrite'
    BY <1>0, <2>2 DEF EditsKept, FirstWrite, Flushing
  <2> QED
    BY <1>1, <2>3, <2>4, <2>5 DEF EditsKept
<1>3. CASE CaptureLocalUpdate
  <2>1. /\ Held(disk.text) \subseteq Captured'
        /\ \A row \in outbox' : row.observed = disk.text
        /\ job'.observed = disk.text
    BY <1>3, CaptureKeeps
  <2>2. /\ pc' = "send" /\ base.known
        /\ tracked'.known = tracked.known /\ tracked'.hash = tracked.hash /\ tracked'.dirty
    BY <1>3 DEF CaptureLocalUpdate, Inductive, TypeOK
  <2>3. BasesKept'
    BY <1>0, <2>1, <2>2 DEF EditsKept, BasesKept
  <2>4. JobKept'
    BY <2>1, <2>2 DEF JobKept, Writing
  <2>5. FirstWrite'
    BY <1>0, <2>2 DEF FirstWrite
  <2> QED
    BY <1>1, <2>3, <2>4, <2>5 DEF EditsKept
<1>4. CASE SkipMismatchedBase
  <2>1. /\ pc' = "check" /\ UNCHANGED outbox
        /\ tracked'.known = tracked.known /\ tracked'.hash = tracked.hash /\ tracked'.dirty
    BY <1>4 DEF SkipMismatchedBase, Inductive, TypeOK
  <2>2. tracked'.known => Held(tracked'.hash) \subseteq Captured
    BY <2>1 DEF EditsKept, BasesKept
  <2> QED
    BY <1>0, <2>1, <2>2, KeptIdle
<1>5. CASE ApplyIncoming
  <2>1. /\ tracked'.hash \in {tracked.hash, base.text}
        /\ tracked'.hash = tracked.hash => tracked.known \/ tracked'.hash = base.text
        /\ base.known /\ UNCHANGED outbox
        /\ pc' \in {"check", "write"}
    BY <1>5 DEF ApplyIncoming
  <2>2. Held(tracked'.hash) \subseteq Captured
    BY <2>1 DEF EditsKept, BasesKept
  <2>3. job'.expect = tracked'.hash /\ job'.onDiverge = "keep" /\ job'.expectKnown
    BY <1>5 DEF ApplyIncoming, NoJob
  <2>4. BasesKept'
    BY <1>0, <2>1, <2>2 DEF EditsKept, BasesKept
  <2>5. JobKept'
    BY <2>1, <2>2, <2>3 DEF JobKept, Flushing
  <2>6. FirstWrite'
    BY <1>0, <2>1, <2>3 DEF FirstWrite, Flushing
  <2> QED
    BY <1>1, <2>4, <2>5, <2>6 DEF EditsKept
<1>6. CASE FirstProjection
  <2>1. /\ ~base.known /\ UNCHANGED outbox /\ outbox = {}
        /\ ~tracked'.known /\ tracked'.dirty
        /\ ~job'.expectKnown /\ job'.onDiverge = "keep"
    BY <1>6 DEF FirstProjection, Inductive, TypeOK, NoJob
  <2>2. tracked.dirty
    BY <2>1 DEF EditsKept, FirstWrite
  <2>3. pc' \in {"archive", "write", "check"} /\ (pc' = "write" => ~disk.exists)
    BY <1>6, <2>2 DEF FirstProjection
  <2>4. BasesKept'
    BY <1>0, <2>1 DEF BasesKept
  <2>5. JobKept'
    BY <2>1, <2>3 DEF JobKept, Flushing
  <2>6. FirstWrite'
    BY <1>0, <2>1, <2>3 DEF FirstWrite, Flushing
  <2> QED
    BY <1>1, <2>4, <2>5, <2>6 DEF EditsKept
<1> QED
  BY <1>2, <1>3, <1>4, <1>5, <1>6

\* The steps that write the file and store the base.
LEMMA KeptWrite ==
  ASSUME Inductive, EditsKept, Captured \subseteq Captured',
         Archive \/ WriteDiverged \/ WriteUnchanged \/ Replace \/ StoreBase \/ StoreObserved
  PROVE  EditsKept'
<1> USE DEF diskVars, cacheVars
<1>0. TypeOK /\ (Writing => Held(Text(job.final)) \subseteq Captured)
  <2>1. TypeOK /\ job.final \in Docs
    BY DEF Inductive, TypeOK, Jobs
  <2>2. Writing => job.final.ins \subseteq cache.doc.ins
    BY DEF Inductive, Ledger, JobInOrder, Within
  <2> QED
    BY <2>1, <2>2, TextCaptured
<1>1. CASE Archive
  <2>1. /\ UNCHANGED <<tracked, outbox, base, job, hist>> /\ pc = "archive"
        /\ pc' \in {"write", "check"} /\ ~disk'.exists
        /\ disk.text \in archived'
    BY <1>1 DEF Archive
  <2>2. BasesKept'
    BY <2>1 DEF EditsKept, BasesKept
  <2>3. JobKept'
    BY <2>1 DEF EditsKept, JobKept, Flushing, Writing
  <2>4. FirstWrite'
    BY <2>1 DEF EditsKept, FirstWrite, Flushing
  <2>5. OnDisk \subseteq Captured'
    BY <2>1 DEF OnDisk, Captured
  <2>6. OwedKept'
    BY <2>1, <2>5 DEF EditsKept, OwedKept
  <2> QED
    BY <2>2, <2>3, <2>4, <2>6 DEF EditsKept
<1>2. CASE WriteDiverged
  <2>1. /\ UNCHANGED <<disk, outbox, base, job, hist>> /\ pc = "write"
        /\ tracked'.known = tracked.known /\ tracked'.hash = tracked.hash
        /\ tracked.dirty => tracked'.dirty
        /\ pc' \in {"check", "storeObserved"}
    BY <1>0, <1>2 DEF WriteDiverged, TypeOK
  <2>2. BasesKept'
    BY <2>1 DEF EditsKept, BasesKept
  <2>3. JobKept'
    BY <2>1 DEF EditsKept, JobKept, Flushing, Writing
  <2>4. FirstWrite'
    BY <2>1 DEF EditsKept, FirstWrite, Flushing
  <2>5. OwedKept'
    BY <2>1 DEF EditsKept, OwedKept, OnDisk
  <2> QED
    BY <2>2, <2>3, <2>4, <2>5 DEF EditsKept
<1>3. CASE WriteUnchanged
  <2>1. /\ UNCHANGED <<disk, outbox, base, job, hist>> /\ pc = "write"
        /\ tracked'.hash = Text(job.final) /\ tracked'.dirty = tracked.dirty
        /\ pc' \in {"store", "replace"}
        /\ job.expectKnown => disk.text = job.expect
    BY <1>0, <1>3 DEF WriteUnchanged, Diverged, TypeOK
  <2>2. Held(tracked'.hash) \subseteq Captured
    BY <1>0, <2>1 DEF Writing
  <2>3. BasesKept'
    BY <2>1, <2>2 DEF EditsKept, BasesKept
  <2>4. JobKept'
    BY <2>1 DEF EditsKept, JobKept, Flushing, Writing
  <2>5. FirstWrite'
    BY <2>1 DEF EditsKept, FirstWrite, Flushing
  <2>6. OwedKept'
    BY <2>1 DEF EditsKept, OwedKept, OnDisk
  <2> QED
    BY <2>3, <2>4, <2>5, <2>6 DEF EditsKept
<1>4. CASE Replace
  <2>1. UNCHANGED <<tracked, outbox, base, job, hist>> /\ pc = "replace" /\ pc' = "store"
    BY <1>4 DEF Replace
  <2>2. BasesKept'
    BY <2>1 DEF EditsKept, BasesKept
  <2>3. JobKept'
    BY <2>1 DEF EditsKept, JobKept, Flushing, Writing
  <2>4. FirstWrite'
    BY <2>1 DEF EditsKept, FirstWrite, Flushing
  <2>5. OnDisk \subseteq Captured
    <3>1. job.expectKnown => Held(disk.text) \subseteq Captured
      BY <2>1 DEF EditsKept, JobKept
    <3>2. ~job.expectKnown => ~disk.exists
      BY <2>1 DEF EditsKept, FirstWrite
    <3> QED
      BY <3>1, <3>2 DEF OnDisk, Held
  <2>6. OwedKept'
    BY <2>1, <2>5 DEF EditsKept, OwedKept
  <2> QED
    BY <2>2, <2>3, <2>4, <2>6 DEF EditsKept
<1>5. CASE StoreBase
  <2>1. /\ UNCHANGED <<disk, outbox, job, hist>> /\ pc = "store" /\ pc' = "check"
        /\ base'.known /\ base'.text = Text(job.final)
        /\ tracked'.known = tracked.known /\ tracked'.hash = tracked.hash
    BY <1>0, <1>5 DEF StoreBase, TypeOK
  <2>2. BasesKept'
    BY <1>0, <2>1 DEF EditsKept, BasesKept, Writing
  <2>3. JobKept'
    BY <2>1 DEF JobKept, Flushing, Writing
  <2>4. FirstWrite'
    BY <2>1 DEF FirstWrite, Flushing
  <2>5. OwedKept'
    BY <2>1 DEF EditsKept, OwedKept, OnDisk
  <2> QED
    BY <2>2, <2>3, <2>4, <2>5 DEF EditsKept
<1>6. CASE StoreObserved
  <2>1. /\ UNCHANGED <<disk, outbox, job, hist>> /\ pc = "storeObserved" /\ pc' = "check"
        /\ base'.known /\ base'.text = job.observed /\ tracked'.hash = job.observed
    BY <1>6 DEF StoreObserved
  <2>2. Held(job.observed) \subseteq Captured
    BY <2>1 DEF EditsKept, JobKept, Writing, Inductive, Ledger, JobInOrder
  <2>3. BasesKept'
    BY <2>1, <2>2 DEF EditsKept, BasesKept
  <2>4. JobKept'
    BY <2>1 DEF JobKept, Flushing, Writing
  <2>5. FirstWrite'
    BY <2>1 DEF FirstWrite, Flushing
  <2>6. OwedKept'
    BY <2>1 DEF EditsKept, OwedKept, OnDisk
  <2> QED
    BY <2>3, <2>4, <2>5, <2>6 DEF EditsKept
<1> QED
  BY <1>1, <1>2, <1>3, <1>4, <1>5, <1>6

\* The steps that send a row and fold it into the log.
LEMMA KeptSend ==
  ASSUME Inductive, EditsKept, Captured \subseteq Captured',
         SendUpdate \/ WriteFrame \/ FinalizeApply \/ FinalizeClear
  PROVE  EditsKept'
<1> USE DEF diskVars, cacheVars
<1>0. UNCHANGED <<disk, base, hist>>
  BY DEF SendUpdate, WriteFrame, FinalizeApply, FinalizeClear
<1>1. OwedKept'
  BY <1>0 DEF EditsKept, OwedKept, OnDisk
<1>2. ASSUME UNCHANGED <<tracked, outbox, job>>,
             \/ pc' = pc
             \/ pc \in {"send", "sending"} /\ pc' \in {"sending", "finalize"}
      PROVE  EditsKept'
  <2>1. BasesKept'
    BY <1>0, <1>2 DEF EditsKept, BasesKept
  <2>2. JobKept'
    BY <1>0, <1>2 DEF EditsKept, JobKept, Flushing, Writing
  <2>3. FirstWrite'
    BY <1>0, <1>2 DEF EditsKept, FirstWrite, Flushing
  <2> QED
    BY <1>1, <2>1, <2>2, <2>3 DEF EditsKept
<1>3. CASE SendUpdate
  BY <1>2, <1>3 DEF SendUpdate
<1>4. CASE WriteFrame
  <2>1. Head(sendq).awaited => pc = "sending"
    <3>1. sendq # <<>> /\ sendq \in Seq(Frames)
      BY <1>4, TypeParts DEF WriteFrame, Inductive
    <3>2. 1 \in 1..Len(sendq) /\ Head(sendq) = sendq[1]
      BY <3>1
    <3> QED
      BY <3>2 DEF Inductive, OneWaiter
  <2>2. pc' = pc \/ (pc = "sending" /\ pc' = "finalize")
    BY <1>4, <2>1 DEF WriteFrame
  <2> QED
    BY <1>2, <1>4, <2>2 DEF WriteFrame
<1>5. CASE FinalizeApply
  <2>1. /\ UNCHANGED outbox /\ pc = "finalize" /\ pc' = "clear"
        /\ tracked'.known = tracked.known /\ tracked'.hash = tracked.hash
        /\ job'.observed = job.observed /\ job'.expect = job.observed /\ job'.expectKnown
    BY <1>5 DEF FinalizeApply, Inductive, TypeOK, Jobs
  <2>2. base.known /\ Held(job.observed) \subseteq Captured
    BY <2>1 DEF EditsKept, FirstWrite, JobKept, Flushing
  <2>3. BasesKept'
    BY <1>0, <2>1 DEF EditsKept, BasesKept
  <2>4. JobKept'
    BY <2>1, <2>2 DEF JobKept, Writing
  <2>5. FirstWrite'
    BY <1>0, <2>1, <2>2 DEF FirstWrite
  <2> QED
    BY <1>1, <2>3, <2>4, <2>5 DEF EditsKept
<1>6. CASE FinalizeClear
  <2>1. UNCHANGED <<tracked, job>> /\ outbox' = {} /\ pc = "clear" /\ pc' = "write"
    BY <1>6 DEF FinalizeClear
  <2>2. BasesKept'
    BY <1>0, <2>1 DEF EditsKept, BasesKept
  <2>3. JobKept'
    BY <2>1 DEF EditsKept, JobKept, Flushing, Writing
  <2>4. FirstWrite'
    BY <1>0, <2>1 DEF EditsKept, FirstWrite, Flushing
  <2> QED
    BY <1>1, <2>2, <2>3, <2>4 DEF EditsKept
<1> QED
  BY <1>3, <1>4, <1>5, <1>6

\* An editor does not write in the window between a check and its write.
LEMMA KeptEdit ==
  ASSUME Inductive, EditsKept, Captured \subseteq Captured', ~RacyEdits,
         (\E t \in LocalTokens : Type(t)) \/ (\E t \in Tokens : Erase(t))
  PROVE  EditsKept'
<1> USE DEF cacheVars
<1>0. UNCHANGED <<tracked, outbox, base, pc, job>> /\ ~InCheckedWindow
  BY DEF Type, Erase, Edit
<1>1. BasesKept'
  BY <1>0 DEF EditsKept, BasesKept
<1>2. JobKept'
  BY <1>0 DEF EditsKept, JobKept, Flushing, Writing, InCheckedWindow
<1>3. FirstWrite'
  BY <1>0 DEF EditsKept, FirstWrite, Flushing, InCheckedWindow
<1>4. disk.text \in Texts /\ hist \in Histories
  BY TypeParts DEF Inductive, TypeOK
<1>5. OwedKept'
  <2>1. ASSUME NEW t \in LocalTokens, Type(t)
        PROVE  hist'.owed \cap LocalTokens \subseteq OnDisk' \cup Captured
    <3>1. hist'.owed = hist.owed \cup {t} /\ disk'.exists
      BY <1>4, <2>1 DEF Type, Edit, Histories
    <3>2. \A u \in LocalTokens : disk'.text[u] = IF u = t THEN disk.text[u] + 1 ELSE disk.text[u]
      BY <1>4, <2>1 DEF Type, Edit, Texts, Tokens
    <3>3. \A u \in LocalTokens : disk.text[u] \in Nat
      BY <1>4 DEF Texts, Tokens
    <3>4. OnDisk \cup {t} \subseteq OnDisk'
      BY <3>1, <3>2, <3>3 DEF OnDisk
    <3> QED
      BY <3>1, <3>4 DEF EditsKept, OwedKept
  <2>2. ASSUME NEW t \in Tokens, Erase(t)
        PROVE  hist'.owed \cap LocalTokens \subseteq OnDisk' \cup Captured
    <3>1. hist'.owed = hist.owed \ {t} /\ disk'.exists
      BY <1>4, <2>2 DEF Erase, Edit, Histories
    <3>2. \A u \in LocalTokens : u # t => disk'.text[u] = disk.text[u]
      BY <1>4, <2>2 DEF Erase, Edit, Texts, Tokens
    <3>3. OnDisk \ {t} \subseteq OnDisk'
      BY <3>1, <3>2 DEF OnDisk
    <3> QED
      BY <3>1, <3>3 DEF EditsKept, OwedKept
  <2> QED
    BY <2>1, <2>2 DEF OwedKept
<1> QED
  BY <1>1, <1>2, <1>3, <1>5 DEF EditsKept

\* The watcher, the network, failures and crashes.
LEMMA KeptRest ==
  ASSUME Inductive, EditsKept, Captured \subseteq Captured',
         \/ NeedsReconcile \/ Watcher \/ Connect \/ FlushSyncStep \/ ReceiveStep1 \/ ReceiveUpdate
         \/ Backend \/ (\E t \in RemoteTokens : RemoteType(t)) \/ (\E t \in Tokens : RemoteErase(t))
         \/ Disconnect \/ WriteFails \/ Crash \/ SendTimesOut \/ OperationFails
  PROVE  EditsKept'
<1> USE DEF diskVars, cacheVars
<1>0. /\ tracked.known => Held(tracked.hash) \subseteq Captured
      /\ base.known => Held(base.text) \subseteq Captured
      /\ ~base.known => tracked.dirty
      /\ TypeOK /\ hist \in Histories
  BY TypeParts DEF EditsKept, BasesKept, FirstWrite, Inductive
<1>1. CASE NeedsReconcile \/ SendTimesOut \/ OperationFails
  <2>1. UNCHANGED <<disk, outbox, base, hist, tracked>> /\ pc' = "idle"
    BY <1>1 DEF NeedsReconcile, SendTimesOut, OperationFails
  <2> QED
    BY <1>0, <2>1, KeptIdle
<1>2. CASE WriteFails
  <2>1. /\ UNCHANGED <<disk, outbox, base, hist, tracked, job>>
        /\ pc' = "idle" \/ pc' = pc
    BY <1>2 DEF WriteFails
  <2> QED
    BY <1>0, <2>1, KeptIdle
<1>3. CASE Crash
  <2>1. UNCHANGED <<disk, outbox, base, hist>> /\ pc' = "idle" /\ tracked' = RestoredTracked
    BY <1>3 DEF Crash
  <2>2. tracked'.known => Held(tracked'.hash) \subseteq Captured
    BY <1>0, <2>1 DEF RestoredTracked
  <2>3. ~base.known => tracked'.dirty
    BY <2>1 DEF RestoredTracked
  <2> QED
    BY <2>1, <2>2, <2>3, KeptIdle
<1>4. CASE Watcher
  <2>1. /\ UNCHANGED <<disk, outbox, base, hist, pc, job>>
        /\ tracked'.known = tracked.known /\ tracked'.hash = tracked.hash
        /\ tracked.dirty => tracked'.dirty
    BY <1>0, <1>4 DEF Watcher, HandleWatcherEvent, ScanWorkspace, TypeOK
  <2> QED
    BY <1>0, <2>1, KeptIdle
<1>5. CASE \/ Connect \/ FlushSyncStep \/ ReceiveStep1 \/ ReceiveUpdate \/ Backend \/ Disconnect
  <2>1. UNCHANGED <<disk, tracked, outbox, base, pc, job, hist>>
    BY <1>5 DEF Connect, FlushSyncStep, ReceiveStep1, ReceiveUpdate, Backend, BackendStep1,
         BackendUpdate, Disconnect
  <2> QED
    BY <2>1, KeptFrame
<1>6. CASE (\E t \in RemoteTokens : RemoteType(t)) \/ (\E t \in Tokens : RemoteErase(t))
  <2>1. UNCHANGED <<disk, tracked, outbox, base, pc, job>>
    BY <1>6 DEF RemoteType, RemoteErase, RemoteUpdate
  <2>2. hist'.owed \cap LocalTokens \subseteq hist.owed
    <3>1. CASE \E t \in RemoteTokens : RemoteType(t)
      <4>1. PICK t \in RemoteTokens : RemoteType(t)
        BY <3>1
      <4>2. hist'.owed = hist.owed \cup {t}
        BY <1>0, <4>1 DEF RemoteType, Histories
      <4>3. t \notin LocalTokens
        BY ConstantsAssumption
      <4> QED
        BY <4>2, <4>3
    <3>2. CASE \E t \in Tokens : RemoteErase(t)
      <4>1. PICK t \in Tokens : RemoteErase(t)
        BY <3>2
      <4>2. hist'.owed = hist.owed \ {t}
        BY <1>0, <4>1 DEF RemoteErase, Histories
      <4> QED
        BY <4>2
    <3> QED
      BY <1>6, <3>1, <3>2
  <2> QED
    BY <2>1, <2>2, KeptFrame
<1> QED
  BY <1>1, <1>2, <1>3, <1>4, <1>5, <1>6

\* Text is not lost: what an editor typed and nobody erased is in the file, in
\* .notty/recovered, in the outbox or in the CRDT log, whatever crashes, fails,
\* is retried or arrives meanwhile.  The one proviso is that the editor does
\* not save inside WriteIfUnchanged's own window between its comparison and its
\* rename, or in that before an unconditional first write.
THEOREM EditsNeverLost == ~RacyEdits => (Spec => []NoLostEdit)
<1> SUFFICES ASSUME ~RacyEdits
             PROVE  Spec => []NoLostEdit
  OBVIOUS
<1>1. Init => EditsKept
  <2> SUFFICES ASSUME Init
               PROVE  EditsKept
    OBVIOUS
  <2> QED
    BY DEF Init, EditsKept, BasesKept, JobKept, FirstWrite, OwedKept, Flushing, Writing
<1>2. Inductive /\ EditsKept /\ [Next]_vars => EditsKept'
  <2> SUFFICES ASSUME Inductive, EditsKept, [Next]_vars
               PROVE  EditsKept'
    OBVIOUS
  <2>1. CASE Next
    <3>1. Captured \subseteq Captured'
      BY <2>1, CapturedGrows
    <3>2. CASE Reconcile
      BY <3>1, <3>2, KeptStart, KeptWrite, KeptSend, KeptRest DEF Reconcile
    <3>3. CASE Watcher \/ Socket \/ Backend
      BY <3>1, <3>3, KeptSend, KeptRest DEF Socket
    <3>4. CASE Environment
      BY <3>1, <3>4, KeptEdit, KeptRest DEF Environment
    <3> QED
      BY <2>1, <3>2, <3>3, <3>4 DEF Next
  <2>2. CASE UNCHANGED vars
    <3>1. Captured' = Captured
      BY <2>2 DEF vars, Captured, Persisted
    <3>2. hist'.owed \cap LocalTokens \subseteq hist.owed
      BY <2>2 DEF vars
    <3> QED
      BY <2>2, <3>1, <3>2, KeptFrame DEF vars
  <2> QED
    BY <2>1, <2>2
<1>3. EditsKept => NoLostEdit
  BY DEF EditsKept, OwedKept, OnDisk, Captured, NoLostEdit
<1> QED
  BY <1>1, <1>2, <1>3, InductiveKept, PTL DEF Spec

-----------------------------------------------------------------------------
(* Where items come from *)

\* Every item there is: captured by the daemon and kept in its store, or typed
\* by a remote user.
RemoteItems == {<<t, 0, 1>> : t \in RemoteTokens \cap hist.typed}
World == Persisted \cup RemoteItems

\* Documents and messages whose items, inserted or deleted, are in a set.
DocIn(doc, items)    == doc.ins \subseteq items /\ doc.del \subseteq items
QueueIn(q, items)    == \A i \in 1..Len(q) : DocIn(q[i], items)
FramesIn(q, items)   == \A i \in 1..Len(q) : DocIn(q[i].msg, items)

\* No document, row or message has an item of unknown origin.
StoreOrigin ==
  /\ DocIn(cache.doc, World) /\ DocIn(backend, World)
  /\ \A u \in incoming : DocIn(u, World)
  /\ \A row \in outbox : DocIn(row.update, World)
WireOrigin == FramesIn(sendq, World) /\ QueueIn(toBackend, World) /\ QueueIn(toDaemon, World)

\* Items have a token that was typed and a client that was used; the file has
\* only tokens that were typed.
Minted ==
  /\ \A i \in World : i[1] \in hist.typed /\ i[2] <= clients
  /\ \A t \in Tokens : disk.text[t] > 0 => t \in hist.typed

Origin == StoreOrigin /\ WireOrigin /\ Minted

LEMMA DocInGrows ==
  ASSUME NEW doc, NEW S, NEW T, S \subseteq T, DocIn(doc, S)
  PROVE  DocIn(doc, T)
BY DEF DocIn

LEMMA QueueInGrows ==
  ASSUME NEW q, NEW S, NEW T, S \subseteq T
  PROVE  /\ QueueIn(q, S) => QueueIn(q, T)
         /\ FramesIn(q, S) => FramesIn(q, T)
BY DEF DocIn, QueueIn, FramesIn

LEMMA QueueInAppend ==
  ASSUME NEW S, NEW q \in Seq(Messages), QueueIn(q, S), NEW msg \in Messages, DocIn(msg, S)
  PROVE  QueueIn(Append(q, msg), S)
<1>1. PICK r : r = Append(q, msg)
  OBVIOUS
<1>2. /\ Len(r) = Len(q) + 1 /\ Len(q) \in Nat
      /\ \A i \in 1..Len(q) : r[i] = q[i]
      /\ r[Len(q) + 1] = msg
  BY <1>1, QueueFacts
<1>3. \A i \in 1..Len(r) : i \in 1..Len(q) \/ i = Len(q) + 1
  BY <1>2
<1>4. QueueIn(r, S)
  BY <1>2, <1>3 DEF QueueIn
<1> QED
  BY <1>1, <1>4

LEMMA QueueInTail ==
  ASSUME NEW S, NEW q \in Seq(Messages), QueueIn(q, S), q # <<>>
  PROVE  QueueIn(Tail(q), S) /\ DocIn(Head(q), S) /\ Head(q) \in Messages /\ Tail(q) \in Seq(Messages)
<1>1. PICK r : r = Tail(q)
  OBVIOUS
<1>2. q[1] \in Messages
  OBVIOUS
<1>3. /\ Len(q) > 0 /\ Len(q) \in Nat /\ Len(r) = Len(q) - 1 /\ Head(q) = q[1]
      /\ \A i \in 1..Len(r) : r[i] = q[i + 1]
  BY <1>1, <1>2, QueueFacts
<1>4. \A i \in 1..Len(r) : i + 1 \in 1..Len(q)
  BY <1>3
<1>5. QueueIn(r, S) /\ DocIn(q[1], S)
  BY <1>3, <1>4 DEF QueueIn
<1> QED
  BY <1>1, <1>2, <1>3, <1>5

LEMMA FramesInAppend ==
  ASSUME NEW S, NEW q \in Seq(Frames), FramesIn(q, S), NEW frame \in Frames, DocIn(frame.msg, S)
  PROVE  FramesIn(Append(q, frame), S)
<1>1. PICK r : r = Append(q, frame)
  OBVIOUS
<1>2. /\ Len(r) = Len(q) + 1 /\ Len(q) \in Nat
      /\ \A i \in 1..Len(q) : r[i] = q[i]
      /\ r[Len(q) + 1] = frame
  BY <1>1, QueueFacts
<1>3. \A i \in 1..Len(r) : i \in 1..Len(q) \/ i = Len(q) + 1
  BY <1>2
<1>4. FramesIn(r, S)
  BY <1>2, <1>3 DEF FramesIn
<1> QED
  BY <1>1, <1>4

LEMMA FramesInTail ==
  ASSUME NEW S, NEW q \in Seq(Frames), FramesIn(q, S), q # <<>>
  PROVE  FramesIn(Tail(q), S) /\ DocIn(Head(q).msg, S) /\ Head(q) \in Frames
<1>1. PICK r : r = Tail(q)
  OBVIOUS
<1>2. q[1] \in Frames
  OBVIOUS
<1>3. /\ Len(q) > 0 /\ Len(q) \in Nat /\ Len(r) = Len(q) - 1 /\ Head(q) = q[1]
      /\ \A i \in 1..Len(r) : r[i] = q[i + 1]
  BY <1>1, <1>2, QueueFacts
<1>4. \A i \in 1..Len(r) : i + 1 \in 1..Len(q)
  BY <1>3
<1>5. FramesIn(r, S) /\ DocIn(q[1].msg, S)
  BY <1>3, <1>4 DEF FramesIn
<1> QED
  BY <1>1, <1>2, <1>3, <1>5

\* What documents and messages are made of stays in the same set of items.
LEMMA DocInOps ==
  ASSUME NEW S, NEW doc, NEW update, DocIn(doc, S), DocIn(update, S), NEW known, known \subseteq S
  PROVE  /\ DocIn(Merge(doc, update), S) /\ DocIn(DiffSince(doc, known), S)
         /\ DocIn(Update(doc), S) /\ DocIn(AsDoc(doc), S) /\ DocIn(SyncStep1(known), S)
BY DEF DocIn, Merge, DiffSince, Update, AsDoc, SyncStep1

\* The items there are only grow.
LEMMA WorldGrows ==
  ASSUME Inductive, Next
  PROVE  World \subseteq World' /\ hist.typed \subseteq hist'.typed
<1>1. Persisted \subseteq Persisted'
  BY PersistedGrows
<1>2. hist.typed \subseteq hist'.typed
  <2>0. hist \in Histories
    BY TypeParts DEF Inductive
  <2>1. CASE Reconcile
    BY <2>1 DEF Reconcile, LoadOutbox, CaptureLocalUpdate, SkipMismatchedBase,
         ApplyIncoming, FirstProjection, Archive, WriteDiverged, WriteUnchanged, Replace,
         StoreBase, StoreObserved, NeedsReconcile, SendUpdate, FinalizeApply, FinalizeClear
  <2>2. CASE Watcher \/ Socket \/ Backend
    BY <2>2 DEF Watcher, HandleWatcherEvent, ScanWorkspace, Socket, Connect, FlushSyncStep,
         WriteFrame, ReceiveStep1, ReceiveUpdate, Backend, BackendStep1, BackendUpdate
  <2>3. CASE Environment
    BY <2>0, <2>3 DEF Environment, Type, Erase, RemoteType, RemoteErase,
         Disconnect, WriteFails, Crash, SendTimesOut, OperationFails, Histories
  <2> QED
    BY <2>1, <2>2, <2>3 DEF Next
<1> QED
  BY <1>1, <1>2 DEF World, RemoteItems

\* What a step of the origin argument may use.
LEMMA OriginFacts ==
  ASSUME Inductive, Origin, Next
  PROVE  /\ TypeOK /\ World \subseteq World'
         /\ FramesIn(sendq, World') /\ QueueIn(toBackend, World') /\ QueueIn(toDaemon, World')
         /\ DocIn(cache.doc, World') /\ DocIn(backend, World')
         /\ sendq \in Seq(Frames) /\ toBackend \in Seq(Messages) /\ toDaemon \in Seq(Messages)
         /\ Flushing => DocIn(job.update, World')
<1>1. TypeOK /\ World \subseteq World'
  BY WorldGrows DEF Inductive
<1>2. FramesIn(sendq, World') /\ QueueIn(toBackend, World') /\ QueueIn(toDaemon, World')
  BY <1>1, QueueInGrows DEF Origin, WireOrigin
<1>3. DocIn(cache.doc, World') /\ DocIn(backend, World')
  BY <1>1, DocInGrows DEF Origin, StoreOrigin
<1>4. Flushing => DocIn(job.update, World)
  BY DEF Origin, StoreOrigin, Inductive, Ledger, JobInOrder
<1>5. Flushing => DocIn(job.update, World')
  BY <1>1, <1>4, DocInGrows
<1> QED
  BY <1>1, <1>2, <1>3, <1>5, TypeParts

LEMMA OriginSendq ==
  ASSUME Inductive, Origin, Next
  PROVE  FramesIn(sendq', World')
<1>0. /\ TypeOK /\ FramesIn(sendq, World') /\ sendq \in Seq(Frames)
      /\ DocIn(cache.doc, World') /\ (Flushing => DocIn(job.update, World'))
  BY OriginFacts
<1>1. CASE UNCHANGED sendq
  BY <1>0, <1>1
<1>2. CASE SendUpdate
  <2>1. PICK frame : frame = [msg |-> Update(job.update), awaited |-> TRUE]
    OBVIOUS
  <2>2. frame \in Frames /\ frame.msg = Update(job.update)
    BY <1>0, <2>1, MessageType DEF TypeOK, Frames, Jobs
  <2>3. DocIn(job.update, World')
    BY <1>0, <1>2 DEF SendUpdate, Flushing
  <2>4. DocIn(frame.msg, World')
    BY <2>2, <2>3, DocInOps
  <2>5. sendq' = Append(sendq, frame)
    BY <1>2, <2>1 DEF SendUpdate
  <2> QED
    BY <1>0, <2>2, <2>4, <2>5, FramesInAppend
<1>3. CASE ReceiveStep1
  <2>1. PICK diff : diff = DiffSince(cache.doc, Head(toDaemon).ins)
    OBVIOUS
  <2>2. PICK frame : frame = [msg |-> Update(diff), awaited |-> FALSE]
    OBVIOUS
  <2>3. diff \in Docs
    BY <1>0, <2>1, DiffType DEF TypeOK
  <2>4. frame \in Frames /\ frame.msg = Update(diff)
    BY <2>2, <2>3, MessageType DEF Frames
  <2>5. DocIn(diff, World')
    BY <1>0, <2>1 DEF DocIn, DiffSince
  <2>6. DocIn(frame.msg, World')
    BY <2>4, <2>5, DocInOps
  <2>7. sendq' = sendq \/ sendq' = Append(sendq, frame)
    BY <1>3, <2>1, <2>2 DEF ReceiveStep1
  <2> QED
    BY <1>0, <2>4, <2>6, <2>7, FramesInAppend
<1>4. CASE WriteFrame \/ WriteFails
  <2>1. sendq # <<>> /\ sendq' = Tail(sendq)
    BY <1>4 DEF WriteFrame, WriteFails
  <2> QED
    BY <1>0, <2>1, FramesInTail
<1>5. CASE SendTimesOut
  <2>1. Len(sendq') = Len(sendq) /\ \A i \in 1..Len(sendq) : sendq'[i].msg = sendq[i].msg
    BY <1>0, <1>5, NoneAwaitedType DEF SendTimesOut
  <2> QED
    BY <1>0, <2>1 DEF FramesIn
<1>6. CASE Crash
  BY <1>6 DEF Crash, FramesIn
<1>7. ASSUME ~SendUpdate, ~ReceiveStep1, ~WriteFrame, ~WriteFails, ~SendTimesOut, ~Crash
      PROVE  UNCHANGED sendq
  <2> USE DEF netVars
  <2>1. CASE Reconcile
    BY <1>7, <2>1 DEF Reconcile, LoadOutbox, CaptureLocalUpdate, SkipMismatchedBase,
         ApplyIncoming, FirstProjection, Archive, WriteDiverged, WriteUnchanged, Replace,
         StoreBase, StoreObserved, NeedsReconcile, FinalizeApply, FinalizeClear
  <2>2. CASE Watcher \/ Socket \/ Backend
    BY <1>7, <2>2 DEF Watcher, HandleWatcherEvent, ScanWorkspace, Socket, Connect,
         FlushSyncStep, ReceiveUpdate, Backend, BackendStep1, BackendUpdate
  <2>3. CASE Environment
    BY <1>7, <2>3 DEF Environment, Type, Erase, Edit, RemoteType, RemoteErase, RemoteUpdate,
         Disconnect, OperationFails
  <2> QED
    BY <2>1, <2>2, <2>3 DEF Next
<1> QED
  BY <1>1, <1>2, <1>3, <1>4, <1>5, <1>6, <1>7

LEMMA OriginToBackend ==
  ASSUME Inductive, Origin, Next
  PROVE  QueueIn(toBackend', World')
<1>0. /\ TypeOK /\ FramesIn(sendq, World') /\ sendq \in Seq(Frames)
      /\ QueueIn(toBackend, World') /\ toBackend \in Seq(Messages)
      /\ DocIn(cache.doc, World')
  BY OriginFacts
<1>1. CASE UNCHANGED toBackend
  BY <1>0, <1>1
<1>2. CASE FlushSyncStep
  <2>1. SyncStep1(cache.doc.ins) \in Messages
    BY <1>0, MessageType DEF TypeOK
  <2>2. DocIn(SyncStep1(cache.doc.ins), World')
    BY <1>0 DEF DocIn, SyncStep1
  <2> QED
    BY <1>0, <1>2, <2>1, <2>2, QueueInAppend DEF FlushSyncStep
<1>3. CASE WriteFrame
  <2>1. sendq # <<>> /\ toBackend' = Append(toBackend, Head(sendq).msg)
    BY <1>3 DEF WriteFrame
  <2>2. DocIn(Head(sendq).msg, World') /\ Head(sendq) \in Frames
    BY <1>0, <2>1, FramesInTail
  <2>3. Head(sendq).msg \in Messages
    BY <2>2 DEF Frames
  <2> QED
    BY <1>0, <2>1, <2>2, <2>3, QueueInAppend
<1>4. CASE Backend
  <2>1. toBackend # <<>> /\ toBackend' = Tail(toBackend)
    BY <1>4 DEF Backend, BackendStep1, BackendUpdate
  <2> QED
    BY <1>0, <2>1, QueueInTail
<1>5. CASE Disconnect \/ WriteFails \/ Crash
  BY <1>5 DEF Disconnect, WriteFails, LoseConnection, Crash, QueueIn
<1>6. ASSUME ~FlushSyncStep, ~WriteFrame, ~Backend, ~Disconnect, ~WriteFails, ~Crash
      PROVE  UNCHANGED toBackend
  <2> USE DEF netVars
  <2>1. CASE Reconcile
    BY <2>1 DEF Reconcile, LoadOutbox, CaptureLocalUpdate, SkipMismatchedBase,
         ApplyIncoming, FirstProjection, Archive, WriteDiverged, WriteUnchanged, Replace,
         StoreBase, StoreObserved, NeedsReconcile, SendUpdate, FinalizeApply, FinalizeClear
  <2>2. CASE Watcher \/ Socket
    BY <1>6, <2>2 DEF Watcher, HandleWatcherEvent, ScanWorkspace, Socket, Connect,
         ReceiveStep1, ReceiveUpdate
  <2>3. CASE Environment
    BY <1>6, <2>3 DEF Environment, Type, Erase, Edit, RemoteType, RemoteErase, RemoteUpdate,
         SendTimesOut, OperationFails
  <2> QED
    BY <1>6, <2>1, <2>2, <2>3 DEF Next
<1> QED
  BY <1>1, <1>2, <1>3, <1>4, <1>5, <1>6

\* The update a remote user makes.
LEMMA RemoteOrigin ==
  ASSUME Inductive, Origin, Next, NEW update, RemoteUpdate(update),
         \/ \E t \in RemoteTokens : RemoteType(t) /\ update = [ins |-> {<<t, 0, 1>>}, del |-> {}]
         \/ \E t \in Tokens : RemoteErase(t) /\ update = [ins |-> {}, del |-> Visible(backend, t)]
  PROVE  DocIn(update, World') /\ Update(update) \in Messages
<1>0. TypeOK /\ DocIn(backend, World') /\ backend \in Docs /\ hist \in Histories
  BY OriginFacts, TypeParts DEF TypeOK
<1>1. ASSUME NEW t \in RemoteTokens, RemoteType(t), update = [ins |-> {<<t, 0, 1>>}, del |-> {}]
      PROVE  DocIn(update, World') /\ update \in Docs
  <2>1. t \in hist'.typed
    BY <1>0, <1>1 DEF RemoteType, Histories
  <2>2. <<t, 0, 1>> \in World'
    BY <2>1 DEF World, RemoteItems
  <2>3. <<t, 0, 1>> \in Items
    BY DEF Items, Tokens
  <2>4. IsFiniteSet({<<t, 0, 1>>}) /\ IsFiniteSet({})
    BY FS_Singleton, FS_EmptySet
  <2> QED
    BY <1>1, <2>2, <2>3, <2>4 DEF DocIn, Docs, FiniteSubsets
<1>2. ASSUME NEW t \in Tokens, RemoteErase(t), update = [ins |-> {}, del |-> Visible(backend, t)]
      PROVE  DocIn(update, World') /\ update \in Docs
  <2>1. Visible(backend, t) \in SUBSET backend.ins
    BY DEF Visible
  <2>2. update \in Docs
    BY <1>0, <1>2, <2>1, FS_Subset, FS_EmptySet DEF Docs, FiniteSubsets
  <2> QED
    BY <1>0, <1>2, <2>1, <2>2 DEF DocIn
<1> QED
  BY <1>1, <1>2, MessageType

LEMMA OriginToDaemon ==
  ASSUME Inductive, Origin, Next
  PROVE  QueueIn(toDaemon', World') /\ DocIn(backend', World')
<1>0. /\ TypeOK /\ DocIn(backend, World') /\ backend \in Docs
      /\ QueueIn(toDaemon, World') /\ toDaemon \in Seq(Messages)
      /\ QueueIn(toBackend, World') /\ toBackend \in Seq(Messages)
  BY OriginFacts DEF TypeOK
<1>1. CASE UNCHANGED <<toDaemon, backend>>
  BY <1>0, <1>1
<1>2. CASE BackendStep1
  <2>1. PICK reply, ask : /\ reply = Update(DiffSince(backend, Head(toBackend).ins))
                          /\ ask = SyncStep1(backend.ins)
    OBVIOUS
  <2>2. reply \in Messages /\ ask \in Messages
    BY <1>0, <2>1, DiffType, MessageType
  <2>3. DocIn(reply, World') /\ DocIn(ask, World')
    BY <1>0, <2>1 DEF DocIn, Update, DiffSince, SyncStep1
  <2>4. toDaemon' = toDaemon \o <<reply, ask>> /\ UNCHANGED backend
    BY <1>2, <2>1 DEF BackendStep1
  <2>5. toDaemon \o <<reply, ask>> = Append(Append(toDaemon, reply), ask)
    BY <1>0, <2>2
  <2>6. QueueIn(Append(toDaemon, reply), World') /\ Append(toDaemon, reply) \in Seq(Messages)
    BY <1>0, <2>2, <2>3, QueueInAppend
  <2> QED
    BY <1>0, <2>2, <2>3, <2>4, <2>5, <2>6, QueueInAppend
<1>3. CASE BackendUpdate
  <2>1. toBackend # <<>> /\ backend' = Merge(backend, AsDoc(Head(toBackend)))
    BY <1>3 DEF BackendUpdate
  <2>2. DocIn(Head(toBackend), World') /\ Head(toBackend) \in Messages
    BY <1>0, <2>1, QueueInTail
  <2>3. DocIn(AsDoc(Head(toBackend)), World') /\ AsDoc(Head(toBackend)) \in Docs
    BY <2>2, MessageType DEF DocIn, AsDoc
  <2>4. DocIn(backend', World') /\ backend' \in Docs
    BY <1>0, <2>1, <2>3, MergeType DEF DocIn, Merge
  <2>5. SyncStep1(backend'.ins) \in Messages /\ DocIn(SyncStep1(backend'.ins), World')
    BY <2>4, MessageType DEF DocIn, SyncStep1
  <2>6. toDaemon' = toDaemon \/ toDaemon' = Append(toDaemon, SyncStep1(backend'.ins))
    BY <1>3 DEF BackendUpdate
  <2> QED
    BY <1>0, <2>4, <2>5, <2>6, QueueInAppend
<1>4. ASSUME NEW update, RemoteUpdate(update), DocIn(update, World'), Update(update) \in Messages
      PROVE  QueueIn(toDaemon', World') /\ DocIn(backend', World')
  <2>1. DocIn(Update(update), World')
    BY <1>4 DEF DocIn, Update
  <2>2. DocIn(backend', World')
    BY <1>0, <1>4 DEF RemoteUpdate, DocIn, Merge
  <2>3. toDaemon' = toDaemon \/ toDaemon' = Append(toDaemon, Update(update))
    BY <1>4 DEF RemoteUpdate
  <2> QED
    BY <1>0, <1>4, <2>1, <2>2, <2>3, QueueInAppend
<1>5. CASE (\E t \in RemoteTokens : RemoteType(t)) \/ (\E t \in Tokens : RemoteErase(t))
  <2>1. ASSUME NEW t \in RemoteTokens, RemoteType(t)
        PROVE  QueueIn(toDaemon', World') /\ DocIn(backend', World')
    <3>1. PICK update : update = [ins |-> {<<t, 0, 1>>}, del |-> {}]
      OBVIOUS
    <3>2. RemoteUpdate(update)
      BY <2>1, <3>1 DEF RemoteType
    <3> QED
      BY <1>4, <2>1, <3>1, <3>2, RemoteOrigin
  <2>2. ASSUME NEW t \in Tokens, RemoteErase(t)
        PROVE  QueueIn(toDaemon', World') /\ DocIn(backend', World')
    <3>1. PICK update : update = [ins |-> {}, del |-> Visible(backend, t)]
      OBVIOUS
    <3>2. RemoteUpdate(update)
      BY <2>2, <3>1 DEF RemoteErase
    <3> QED
      BY <1>4, <2>2, <3>1, <3>2, RemoteOrigin
  <2> QED
    BY <1>5, <2>1, <2>2
<1>6. CASE ReceiveStep1 \/ ReceiveUpdate
  <2>1. toDaemon # <<>> /\ toDaemon' = Tail(toDaemon) /\ UNCHANGED backend
    BY <1>6 DEF ReceiveStep1, ReceiveUpdate
  <2> QED
    BY <1>0, <2>1, QueueInTail
<1>7. CASE Disconnect \/ WriteFails \/ Crash
  <2>1. toDaemon' = <<>> /\ UNCHANGED backend
    BY <1>7 DEF Disconnect, WriteFails, LoseConnection, Crash
  <2> QED
    BY <1>0, <2>1 DEF QueueIn
<1>8. ASSUME ~Backend, ~ReceiveStep1, ~ReceiveUpdate, ~Disconnect, ~WriteFails, ~Crash,
             ~(\E t \in RemoteTokens : RemoteType(t)), ~(\E t \in Tokens : RemoteErase(t))
      PROVE  UNCHANGED <<toDaemon, backend>>
  <2> USE DEF netVars
  <2>1. CASE Reconcile
    BY <2>1 DEF Reconcile, LoadOutbox, CaptureLocalUpdate, SkipMismatchedBase,
         ApplyIncoming, FirstProjection, Archive, WriteDiverged, WriteUnchanged, Replace,
         StoreBase, StoreObserved, NeedsReconcile, SendUpdate, FinalizeApply, FinalizeClear
  <2>2. CASE Watcher \/ Socket
    BY <1>8, <2>2 DEF Watcher, HandleWatcherEvent, ScanWorkspace, Socket, Connect,
         FlushSyncStep, WriteFrame
  <2>3. CASE Environment
    BY <1>8, <2>3 DEF Environment, Type, Erase, Edit, SendTimesOut, OperationFails
  <2> QED
    BY <1>8, <2>1, <2>2, <2>3 DEF Next
<1> QED
  BY <1>1, <1>2, <1>3, <1>5, <1>6, <1>7, <1>8 DEF Backend

\* The items a capture mints.
MintedItems(text) ==
  UNION {{<<t, clients + 1, k>> : k \in Extra(base.doc, text, t)} : t \in Tokens}

\* Only a capture and a remote user bring new items.
LEMMA WorldNext ==
  ASSUME Inductive, Origin, Next
  PROVE  /\ CaptureLocalUpdate => World' = World \cup MintedItems(disk.text)
         /\ \A t \in RemoteTokens : RemoteType(t) => World' = World \cup {<<t, 0, 1>>}
         /\ ~CaptureLocalUpdate /\ ~(\E t \in RemoteTokens : RemoteType(t)) => World' = World
<1> USE DEF cacheVars
<1>0. /\ World \subseteq World' /\ DocIn(cache.doc, World) /\ hist \in Histories
      /\ (\A u \in incoming : DocIn(u, World)) /\ (Flushing => DocIn(job.update, World))
  <2>1. Flushing => DocIn(job.update, World)
    BY DEF Origin, StoreOrigin, Inductive, Ledger, JobInOrder
  <2> QED
    BY <2>1, WorldGrows, TypeParts DEF Origin, StoreOrigin, Inductive
<1>1. CASE CaptureLocalUpdate
  <2>1. PICK update \in LocalUpdates(base.doc, disk.text, clients + 1) : outbox' = {OutboxRow(update)}
    BY <1>1 DEF CaptureLocalUpdate
  <2>2. update.ins = MintedItems(disk.text)
    BY DEF LocalUpdates, MintedItems
  <2>3. outbox = {} /\ UNCHANGED <<cache, hist>>
    BY <1>1 DEF CaptureLocalUpdate
  <2>4. Persisted' = cache.doc.ins \cup update.ins /\ Persisted = cache.doc.ins
    BY <2>1, <2>3 DEF Persisted, OutboxRow
  <2>6. \A t \in RemoteTokens : ~RemoteType(t)
    BY <1>0, <2>3 DEF RemoteType, Histories
  <2>7. RemoteItems' = RemoteItems
    BY <2>3 DEF RemoteItems
  <2> QED
    BY <1>1, <2>2, <2>4, <2>6, <2>7 DEF World
<1>2. ASSUME NEW t \in RemoteTokens, RemoteType(t)
      PROVE  World' = World \cup {<<t, 0, 1>>} /\ ~CaptureLocalUpdate
  <2>1. UNCHANGED <<cache, outbox, pc>> /\ hist'.typed = hist.typed \cup {t} /\ t \notin hist.typed
    BY <1>0, <1>2 DEF RemoteType, RemoteUpdate, Histories
  <2>2. Persisted' = Persisted
    BY <2>1 DEF Persisted
  <2>3. RemoteItems' = RemoteItems \cup {<<t, 0, 1>>}
    BY <2>1 DEF RemoteItems
  <2>4. ~CaptureLocalUpdate
    BY <2>1 DEF CaptureLocalUpdate
  <2> QED
    BY <2>2, <2>3, <2>4 DEF World
<1>3. ASSUME ~CaptureLocalUpdate, ~(\E t \in RemoteTokens : RemoteType(t))
      PROVE  World' \subseteq World
  <2>1. RemoteItems' = RemoteItems
    <3>1. RemoteTokens \cap hist'.typed = RemoteTokens \cap hist.typed
      <4>1. CASE \E t \in LocalTokens : Type(t)
        <5>1. PICK t \in LocalTokens : Type(t)
          BY <4>1
        <5>2. hist'.typed = hist.typed \cup {t} /\ t \notin RemoteTokens
          BY <1>0, <5>1, ConstantsAssumption DEF Type, Histories
        <5> QED
          BY <5>2
      <4>2. CASE (\E t \in Tokens : Erase(t)) \/ (\E t \in Tokens : RemoteErase(t))
        BY <1>0, <4>2 DEF Erase, RemoteErase, Histories
      <4>3. ASSUME ~(\E t \in LocalTokens : Type(t)), ~(\E t \in Tokens : Erase(t)),
                   ~(\E t \in Tokens : RemoteErase(t))
            PROVE  UNCHANGED hist
        <5>1. CASE Reconcile
          BY <5>1 DEF Reconcile, LoadOutbox, CaptureLocalUpdate, SkipMismatchedBase,
               ApplyIncoming, FirstProjection, Archive, WriteDiverged, WriteUnchanged, Replace,
               StoreBase, StoreObserved, NeedsReconcile, SendUpdate, FinalizeApply, FinalizeClear
        <5>2. CASE Watcher \/ Socket \/ Backend
          BY <5>2 DEF Watcher, HandleWatcherEvent, ScanWorkspace, Socket, Connect, FlushSyncStep,
               WriteFrame, ReceiveStep1, ReceiveUpdate, Backend, BackendStep1, BackendUpdate
        <5>3. CASE Environment
          BY <1>3, <4>3, <5>3 DEF Environment, Disconnect, WriteFails, Crash, SendTimesOut,
               OperationFails
        <5> QED
          BY <5>1, <5>2, <5>3 DEF Next
      <4> QED
        BY <4>1, <4>2, <4>3
    <3> QED
      BY <3>1 DEF RemoteItems
  <2>2. Persisted' \subseteq World
    <3>0. Persisted \subseteq World
      BY DEF World
    <3>1. CASE UNCHANGED <<cache, outbox>>
      BY <3>0, <3>1 DEF Persisted
    <3>2. ASSUME cache'.doc.ins \subseteq World, outbox' \subseteq outbox
          PROVE  Persisted' \subseteq World
      BY <3>0, <3>2 DEF Persisted
    <3>3. CASE SkipMismatchedBase \/ ApplyIncoming \/ FirstProjection
      <4>1. cache' = NextCache /\ UNCHANGED outbox
        BY <3>3 DEF SkipMismatchedBase, ApplyIncoming, FirstProjection
      <4>2. NextCache.doc.ins = cache.doc.ins \cup UNION {u.ins : u \in incoming}
        BY DEF NextCache, Merge, AllIncoming
      <4>3. NextCache.doc.ins \subseteq World
        BY <1>0, <4>2 DEF DocIn
      <4> QED
        BY <3>2, <4>1, <4>3
    <3>4. CASE FinalizeApply
      <4>1. cache'.doc = Merge(cache.doc, job.update) /\ UNCHANGED outbox /\ Flushing
        BY <3>4 DEF FinalizeApply, Flushing
      <4> QED
        BY <1>0, <3>2, <4>1 DEF DocIn, Merge
    <3>5. CASE FinalizeClear
      <4>1. UNCHANGED cache /\ outbox' = {}
        BY <3>5 DEF FinalizeClear
      <4> QED
        BY <1>0, <3>2, <4>1 DEF DocIn
    <3>6. ASSUME Reconcile
          PROVE  \/ SkipMismatchedBase \/ ApplyIncoming \/ FirstProjection
                 \/ FinalizeApply \/ FinalizeClear \/ UNCHANGED <<cache, outbox>>
      BY <1>3, <3>6 DEF Reconcile, LoadOutbox, Archive, WriteDiverged, WriteUnchanged, Replace,
           StoreBase, StoreObserved, NeedsReconcile, SendUpdate
    <3>7. ASSUME Watcher \/ Socket \/ Backend
          PROVE  UNCHANGED <<cache, outbox>>
      BY <3>7 DEF Watcher, HandleWatcherEvent, ScanWorkspace, Socket, Connect, FlushSyncStep,
           WriteFrame, ReceiveStep1, ReceiveUpdate, Backend, BackendStep1, BackendUpdate
    <3>8. ASSUME Environment
          PROVE  UNCHANGED <<cache, outbox>>
      BY <3>8 DEF Environment, Type, Erase, Edit, RemoteType, RemoteErase, RemoteUpdate,
           Disconnect, WriteFails, Crash, SendTimesOut, OperationFails
    <3> QED
      BY <3>1, <3>3, <3>4, <3>5, <3>6, <3>7, <3>8 DEF Next
  <2> QED
    BY <2>1, <2>2 DEF World
<1> QED
  BY <1>0, <1>1, <1>2, <1>3

LEMMA OriginStore ==
  ASSUME Inductive, Origin, Next
  PROVE  /\ DocIn(cache'.doc, World')
         /\ \A u \in incoming' : DocIn(u, World')
         /\ \A row \in outbox' : DocIn(row.update, World')
<1> USE DEF cacheVars
<1>0. /\ TypeOK /\ World \subseteq World' /\ DocIn(cache.doc, World')
      /\ QueueIn(toDaemon, World') /\ toDaemon \in Seq(Messages)
      /\ (Flushing => DocIn(job.update, World'))
  BY OriginFacts
<1>1. /\ \A u \in incoming : DocIn(u, World')
      /\ \A row \in outbox : DocIn(row.update, World')
  BY <1>0, DocInGrows DEF Origin, StoreOrigin
<1>2. CASE UNCHANGED <<cache, incoming, outbox>>
  BY <1>0, <1>1, <1>2
<1>3. CASE SkipMismatchedBase \/ ApplyIncoming \/ FirstProjection
  <2>1. cache' = NextCache /\ incoming' = {} /\ UNCHANGED outbox
    BY <1>3 DEF SkipMismatchedBase, ApplyIncoming, FirstProjection
  <2>2. /\ NextCache.doc.ins = cache.doc.ins \cup UNION {u.ins : u \in incoming}
        /\ NextCache.doc.del = cache.doc.del \cup UNION {u.del : u \in incoming}
    BY DEF NextCache, Merge, AllIncoming
  <2>3. NextCache.doc.ins \subseteq World'
    BY <1>0, <1>1, <2>2 DEF DocIn
  <2>4. NextCache.doc.del \subseteq World'
    BY <1>0, <1>1, <2>2 DEF DocIn
  <2> QED
    BY <1>1, <2>1, <2>3, <2>4 DEF DocIn
<1>4. CASE CaptureLocalUpdate
  <2>1. PICK update \in LocalUpdates(base.doc, disk.text, clients + 1) : outbox' = {OutboxRow(update)}
    BY <1>4 DEF CaptureLocalUpdate
  <2>2. update.del \subseteq base.doc.ins
    BY DEF LocalUpdates
  <2>3. base.doc.ins \subseteq cache.doc.ins
    BY DEF Inductive, Ledger, BaseBehindCache, Within
  <2>4. update.ins \subseteq World'
    BY <2>1 DEF World, Persisted, OutboxRow
  <2>5. DocIn(update, World')
    BY <1>0, <2>2, <2>3, <2>4 DEF DocIn
  <2>6. UNCHANGED <<cache, incoming>>
    BY <1>4 DEF CaptureLocalUpdate
  <2> QED
    BY <1>0, <1>1, <2>1, <2>5, <2>6 DEF OutboxRow
<1>5. CASE FinalizeApply
  <2>1. cache'.doc = Merge(cache.doc, job.update) /\ UNCHANGED <<incoming, outbox>> /\ Flushing
    BY <1>5 DEF FinalizeApply, Flushing
  <2> QED
    BY <1>0, <1>1, <2>1 DEF DocIn, Merge
<1>6. CASE FinalizeClear
  BY <1>0, <1>1, <1>6 DEF FinalizeClear
<1>7. CASE ReceiveUpdate
  <2>1. /\ toDaemon # <<>> /\ UNCHANGED <<cache, outbox>>
        /\ incoming' = incoming \cup {AsDoc(Head(toDaemon))}
    BY <1>7 DEF ReceiveUpdate
  <2>2. DocIn(Head(toDaemon), World')
    BY <1>0, <2>1, QueueInTail
  <2>3. DocIn(AsDoc(Head(toDaemon)), World')
    BY <2>2 DEF DocIn, AsDoc
  <2> QED
    BY <1>0, <1>1, <2>1, <2>3
<1>8. ASSUME Reconcile
      PROVE  \/ CaptureLocalUpdate \/ SkipMismatchedBase \/ ApplyIncoming \/ FirstProjection
             \/ FinalizeApply \/ FinalizeClear \/ UNCHANGED <<cache, incoming, outbox>>
  BY <1>8 DEF Reconcile, LoadOutbox, Archive, WriteDiverged, WriteUnchanged, Replace,
       StoreBase, StoreObserved, NeedsReconcile, SendUpdate
<1>9. ASSUME Watcher \/ Socket \/ Backend, ~ReceiveUpdate
      PROVE  UNCHANGED <<cache, incoming, outbox>>
  BY <1>9 DEF Watcher, HandleWatcherEvent, ScanWorkspace, Socket, Connect, FlushSyncStep,
       WriteFrame, ReceiveStep1, Backend, BackendStep1, BackendUpdate
<1>10. ASSUME Environment
       PROVE  UNCHANGED <<cache, incoming, outbox>>
  BY <1>10 DEF Environment, Type, Erase, Edit, RemoteType, RemoteErase, RemoteUpdate,
       Disconnect, WriteFails, Crash, SendTimesOut, OperationFails
<1> QED
  BY <1>2, <1>3, <1>4, <1>5, <1>6, <1>7, <1>8, <1>9, <1>10 DEF Next

\* How a step changes the text of the file.
LEMMA DiskNext ==
  ASSUME Inductive, Next
  PROVE  \/ UNCHANGED disk
         \/ Archive /\ disk'.text = EmptyText
         \/ Replace /\ disk'.text = Text(job.final)
         \/ \E t \in LocalTokens : Type(t) /\ disk'.text = [disk.text EXCEPT ![t] = @ + 1]
         \/ \E t \in Tokens : Erase(t) /\ disk'.text = [disk.text EXCEPT ![t] = 0]
<1> USE DEF diskVars
<1>1. CASE Reconcile
  <2>1. ASSUME Archive
        PROVE  disk'.text = EmptyText
    BY <2>1 DEF Archive
  <2>2. ASSUME Replace
        PROVE  disk'.text = Text(job.final)
    BY <2>2 DEF Replace
  <2>3. ASSUME ~Archive, ~Replace
        PROVE  UNCHANGED disk
    BY <1>1, <2>3 DEF Reconcile, LoadOutbox, CaptureLocalUpdate, SkipMismatchedBase,
         ApplyIncoming, FirstProjection, WriteDiverged, WriteUnchanged, StoreBase,
         StoreObserved, NeedsReconcile, SendUpdate, FinalizeApply, FinalizeClear
  <2> QED
    BY <2>1, <2>2, <2>3
<1>2. CASE Watcher \/ Socket \/ Backend
  BY <1>2 DEF Watcher, HandleWatcherEvent, ScanWorkspace, Socket, Connect, FlushSyncStep,
       WriteFrame, ReceiveStep1, ReceiveUpdate, Backend, BackendStep1, BackendUpdate
<1>3. ASSUME NEW t \in LocalTokens, Type(t)
      PROVE  disk'.text = [disk.text EXCEPT ![t] = @ + 1]
  BY <1>3 DEF Type, Edit
<1>4. ASSUME NEW t \in Tokens, Erase(t)
      PROVE  disk'.text = [disk.text EXCEPT ![t] = 0]
  BY <1>4 DEF Erase, Edit
<1>5. ASSUME Environment, ~(\E t \in LocalTokens : Type(t)), ~(\E t \in Tokens : Erase(t))
      PROVE  UNCHANGED disk
  BY <1>5 DEF Environment, RemoteType, RemoteErase, RemoteUpdate,
       Disconnect, WriteFails, Crash, SendTimesOut, OperationFails
<1> QED
  BY <1>1, <1>2, <1>3, <1>4, <1>5 DEF Next

\* A token of the text of the log's documents was typed.
LEMMA CountedTyped ==
  ASSUME Inductive, Origin, NEW t \in Tokens, Writing, Text(job.final)[t] > 0
  PROVE  t \in hist.typed
<1>1. job.final \in Docs /\ job.final.ins \subseteq cache.doc.ins
  BY DEF Inductive, TypeOK, Jobs, Ledger, JobInOrder, Within
<1>2. PICK i \in job.final.ins : i[1] = t
  BY <1>1, CountedItem
<1>3. i \in World
  BY <1>1, <1>2 DEF World, Persisted
<1> QED
  BY <1>2, <1>3 DEF Origin, Minted

LEMMA OriginMinted ==
  ASSUME Inductive, Origin, Next
  PROVE  Minted'
<1>0. /\ hist.typed \subseteq hist'.typed /\ hist \in Histories /\ clients \in Nat
      /\ disk.text \in Texts
  BY WorldGrows, TypeParts DEF Inductive, TypeOK
<1>1. \/ clients' = clients
      \/ CaptureLocalUpdate /\ clients' = clients + 1
  <2>1. CASE Reconcile
    <3>1. CASE CaptureLocalUpdate
      BY <3>1 DEF CaptureLocalUpdate
    <3>2. ASSUME ~CaptureLocalUpdate
          PROVE  UNCHANGED clients
      BY <2>1, <3>2 DEF Reconcile, LoadOutbox, SkipMismatchedBase, ApplyIncoming,
           FirstProjection, Archive, WriteDiverged, WriteUnchanged, Replace, StoreBase,
           StoreObserved, NeedsReconcile, SendUpdate, FinalizeApply, FinalizeClear
    <3> QED
      BY <3>1, <3>2
  <2>2. CASE Watcher \/ Socket \/ Backend
    BY <2>2 DEF Watcher, HandleWatcherEvent, ScanWorkspace, Socket, Connect, FlushSyncStep,
         WriteFrame, ReceiveStep1, ReceiveUpdate, Backend, BackendStep1, BackendUpdate
  <2>3. CASE Environment
    BY <2>3 DEF Environment, Type, Erase, Edit, RemoteType, RemoteErase, RemoteUpdate,
         Disconnect, WriteFails, Crash, SendTimesOut, OperationFails
  <2> QED
    BY <2>1, <2>2, <2>3 DEF Next
<1>2. \A i \in World : i[2] \in Nat
  <2>1. \A i \in Persisted : i \in Items
    BY DEF Inductive, TypeOK, Persisted, Docs, Rows, FiniteSubsets
  <2> QED
    BY <2>1 DEF World, RemoteItems, Items
<1>3. \A i \in World : i[1] \in hist'.typed /\ i[2] <= clients'
  BY <1>0, <1>1, <1>2 DEF Origin, Minted
<1>4. ASSUME NEW i \in World'
      PROVE  i[1] \in hist'.typed /\ i[2] <= clients'
  <2>1. CASE i \in World
    BY <1>3, <2>1
  <2>2. CASE CaptureLocalUpdate /\ i \in MintedItems(disk.text)
    <3>0. PICK t \in Tokens : i \in {<<t, clients + 1, k>> : k \in Extra(base.doc, disk.text, t)}
      BY <2>2 DEF MintedItems
    <3>1. PICK k \in Extra(base.doc, disk.text, t) : i = <<t, clients + 1, k>>
      BY <3>0
    <3>2. base.doc \in Docs
      BY DEF Inductive, TypeOK
    <3>3. Text(base.doc)[t] \in Nat /\ disk.text[t] \in Nat
      BY <1>0, <3>2, TextType DEF Texts
    <3>4. disk.text[t] > 0
      BY <3>1, <3>3 DEF Extra
    <3>5. clients' = clients + 1
      BY <2>2 DEF CaptureLocalUpdate
    <3>6. t \in hist.typed
      BY <3>4 DEF Origin, Minted
    <3> QED
      BY <1>0, <3>1, <3>5, <3>6
  <2>3. ASSUME NEW t \in RemoteTokens, RemoteType(t), i = <<t, 0, 1>>
        PROVE  i[1] \in hist'.typed /\ i[2] <= clients'
    <3>1. t \in hist'.typed
      BY <1>0, <2>3 DEF RemoteType, Histories
    <3> QED
      BY <1>0, <1>1, <2>3, <3>1
  <2> QED
    BY <2>1, <2>2, <2>3, WorldNext
<1>5. ASSUME NEW t \in Tokens, disk'.text[t] > 0
      PROVE  t \in hist'.typed
  <2>1. CASE UNCHANGED disk
    BY <1>0, <1>5, <2>1 DEF Origin, Minted
  <2>2. CASE Archive /\ disk'.text = EmptyText
    BY <1>5, <2>2 DEF EmptyText
  <2>3. CASE Replace /\ disk'.text = Text(job.final)
    BY <1>0, <1>5, <2>3, CountedTyped DEF Replace, Writing
  <2>4. ASSUME NEW u \in LocalTokens, Type(u), disk'.text = [disk.text EXCEPT ![u] = @ + 1]
        PROVE  t \in hist'.typed
    <3>1. hist'.typed = hist.typed \cup {u}
      BY <1>0, <2>4 DEF Type, Histories
    <3>2. t = u \/ disk.text[t] > 0
      BY <1>0, <1>5, <2>4 DEF Texts
    <3> QED
      BY <3>1, <3>2 DEF Origin, Minted
  <2>5. ASSUME NEW u \in Tokens, Erase(u), disk'.text = [disk.text EXCEPT ![u] = 0]
        PROVE  t \in hist'.typed
    <3>1. disk.text[t] > 0
      BY <1>0, <1>5, <2>5 DEF Texts
    <3> QED
      BY <1>0, <3>1 DEF Origin, Minted
  <2> QED
    BY <2>1, <2>2, <2>3, <2>4, <2>5, DiskNext
<1> QED
  BY <1>4, <1>5 DEF Minted

LEMMA OriginKept == Spec => []Origin
<1>1. Init => Origin
  <2> SUFFICES ASSUME Init
               PROVE  Origin
    OBVIOUS
  <2>1. World = {}
    BY DEF Init, World, RemoteItems, Persisted, EmptyDoc
  <2>2. StoreOrigin
    BY <2>1 DEF Init, StoreOrigin, DocIn, EmptyDoc
  <2>3. WireOrigin
    BY DEF Init, WireOrigin, FramesIn, QueueIn
  <2>4. Minted
    BY <2>1 DEF Init, Minted, EmptyText
  <2> QED
    BY <2>2, <2>3, <2>4 DEF Origin
<1>2. Inductive /\ Origin /\ [Next]_vars => Origin'
  <2> SUFFICES ASSUME Inductive, Origin, [Next]_vars
               PROVE  Origin'
    OBVIOUS
  <2>1. CASE Next
    BY <2>1, OriginSendq, OriginToBackend, OriginToDaemon, OriginStore, OriginMinted
       DEF Origin, StoreOrigin, WireOrigin
  <2>2. CASE UNCHANGED vars
    <3>1. World' = World
      BY <2>2 DEF vars, World, Persisted, RemoteItems
    <3> QED
      BY <2>2, <3>1 DEF vars, Origin, StoreOrigin, WireOrigin, Minted
  <2> QED
    BY <2>1, <2>2
<1> QED
  BY <1>1, <1>2, InductiveKept, PTL DEF Spec

-----------------------------------------------------------------------------
(* A keystroke is inserted once *)

\* The tokens some item stands for, and those a text has more of than another.
Present == {i[1] : i \in World}
More(text, other) == {t \in Tokens : text[t] > other[t]}

Unique == \A i, j \in World : i[1] = j[1] => i = j
FileOnce == \A t \in Tokens : disk.text[t] <= 1

\* Text the file has more than the base has, or will have once the step that is
\* under way has stored it, was never captured.
NewText ==
  /\ \A row \in outbox : More(disk.text, row.observed) \cap Present = {}
  /\ base.known /\ outbox = {} /\ (pc \in {"idle", "check"} \/ (pc = "write" /\ job.onDiverge = "keep"))
       => More(disk.text, base.text) \cap Present = {}
  /\ pc \in {"write", "storeObserved"} /\ job.onDiverge = "observed"
       => More(disk.text, job.observed) \cap Present = {}
  /\ pc = "store" => More(disk.text, Text(job.final)) \cap Present = {}
  /\ Flushing => \A row \in outbox : row.observed = job.observed

Once == Unique /\ FileOnce /\ NewText

\* No crash and no failing operation so far.
Quiet == faults["crash"] + faults["ioError"] = 0

\* A set of unique items makes every token visible at most once.
LEMMA OneVisible ==
  ASSUME NEW doc \in Docs, doc.ins \subseteq World, Unique, NEW t \in Tokens
  PROVE  Text(doc)[t] <= 1
<1>1. Text(doc)[t] = Cardinality(Visible(doc, t))
  BY DEF Text
<1>2. CASE Visible(doc, t) = {}
  BY <1>1, <1>2, FS_EmptySet
<1>3. CASE Visible(doc, t) # {}
  <2>1. PICK i : i \in Visible(doc, t)
    BY <1>3
  <2>2. \A j \in Visible(doc, t) : j = i
    BY <2>1 DEF Visible, Unique
  <2>3. Visible(doc, t) = {i}
    BY <2>1, <2>2
  <2>4. Cardinality({i}) = 1
    BY FS_Singleton
  <2> QED
    BY <1>1, <2>3, <2>4
<1> QED
  BY <1>2, <1>3

\* The texts a step compares are texts.
LEMMA TextsTyped ==
  ASSUME TypeOK
  PROVE  /\ disk.text \in Texts /\ base.text \in Texts /\ job.observed \in Texts
         /\ Text(job.final) \in Texts /\ EmptyText \in Texts
         /\ \A row \in outbox : row.observed \in Texts
<1>1. job.final \in Docs /\ job.observed \in Texts
  BY DEF TypeOK, Jobs
<1>2. disk.text \in Texts /\ base.text \in Texts
  BY DEF TypeOK
<1>3. \A row \in outbox : row.observed \in Texts
  BY DEF TypeOK, Rows
<1> QED
  BY <1>1, <1>2, <1>3, TextType, EmptyType

\* A step that can only shrink what is new about the file.
LEMMA NewTextFrame ==
  ASSUME TypeOK, NewText, UNCHANGED <<outbox, base, pc, job>>,
         \A o \in Texts : More(disk'.text, o) \cap Present' \subseteq More(disk.text, o) \cap Present
  PROVE  NewText'
<1>1. /\ base.text \in Texts /\ job.observed \in Texts /\ Text(job.final) \in Texts
      /\ \A row \in outbox : row.observed \in Texts
  BY TextsTyped
<1>2. \A row \in outbox : More(disk'.text, row.observed) \cap Present' = {}
  BY <1>1 DEF NewText
<1>3. base.known /\ outbox = {} /\ (pc \in {"idle", "check"} \/ (pc = "write" /\ job.onDiverge = "keep"))
        => More(disk'.text, base.text) \cap Present' = {}
  BY <1>1 DEF NewText
<1>4. pc \in {"write", "storeObserved"} /\ job.onDiverge = "observed"
        => More(disk'.text, job.observed) \cap Present' = {}
  BY <1>1 DEF NewText
<1>5. pc = "store" => More(disk'.text, Text(job.final)) \cap Present' = {}
  BY <1>1 DEF NewText
<1>6. Flushing => \A row \in outbox : row.observed = job.observed
  BY DEF NewText
<1> QED
  BY <1>2, <1>3, <1>4, <1>5, <1>6 DEF NewText, Flushing

\* No text has more than itself, and none is exceeded by the empty one.
LEMMA NoMore ==
  ASSUME NEW text \in Texts
  PROVE  More(text, text) = {} /\ More(EmptyText, text) = {}
BY DEF More, Texts, EmptyText

\* The reconcile loop's own steps, which leave the items alone.
LEMMA NewTextLoop ==
  ASSUME Inductive, NewText, Present' = Present,
         \/ LoadOutbox \/ SkipMismatchedBase \/ ApplyIncoming \/ FirstProjection
         \/ WriteDiverged \/ WriteUnchanged \/ StoreBase \/ StoreObserved \/ NeedsReconcile
         \/ SendUpdate \/ FinalizeApply \/ FinalizeClear
  PROVE  NewText'
<1> USE DEF diskVars, cacheVars
<1>0. /\ TypeOK /\ disk.text \in Texts /\ UNCHANGED disk
      /\ (Flushing => outbox # {}) /\ (Writing => outbox = {})
      /\ (pc \in {"clear", "storeObserved"} => job.onDiverge = "observed")
  BY TextsTyped DEF Inductive, Ledger, RowsInOrder, JobInOrder,
       LoadOutbox, SkipMismatchedBase, ApplyIncoming, FirstProjection, WriteDiverged,
       WriteUnchanged, StoreBase, StoreObserved, NeedsReconcile, SendUpdate, FinalizeApply,
       FinalizeClear
<1>1. CASE LoadOutbox
  <2>1. PICK row \in outbox : job' = [NoJob EXCEPT !.update = row.update,
                                 !.observed = row.observed, !.obsDoc = row.seqDoc]
    BY <1>1 DEF LoadOutbox
  <2>2. job'.observed = row.observed /\ pc' = "send" /\ UNCHANGED outbox
    BY <1>1, <2>1 DEF LoadOutbox, NoJob
  <2>3. \A other \in outbox : other = row
    BY <2>1 DEF Inductive, Ledger, RowsInOrder
  <2> QED
    BY <1>0, <2>2, <2>3 DEF NewText, Flushing
<1>2. CASE SkipMismatchedBase
  BY <1>0, <1>2 DEF SkipMismatchedBase, Drain, NewText, Flushing
<1>3. CASE ApplyIncoming
  <2>1. /\ pc = "idle" /\ pc' \in {"check", "write"} /\ base.known /\ UNCHANGED <<base, outbox>>
        /\ outbox = {} /\ job'.onDiverge = "keep"
    BY <1>3 DEF ApplyIncoming, Drain, NoJob
  <2> QED
    BY <1>0, <2>1 DEF NewText, Flushing
<1>4. CASE FirstProjection
  <2>1. /\ pc' \in {"archive", "check", "write"} /\ ~base.known /\ UNCHANGED <<base, outbox>>
        /\ outbox = {} /\ job'.onDiverge = "keep"
    BY <1>4 DEF FirstProjection, NoJob
  <2> QED
    BY <1>0, <2>1 DEF NewText, Flushing
<1>5. CASE WriteDiverged
  <2>1. /\ pc = "write" /\ UNCHANGED <<base, outbox, job>>
        /\ \/ pc' = "check" /\ job.onDiverge = "keep"
           \/ pc' = "storeObserved" /\ job.onDiverge = "observed"
    BY <1>5 DEF WriteDiverged
  <2> QED
    BY <1>0, <2>1 DEF NewText, Flushing
<1>6. CASE WriteUnchanged
  <2>1. /\ pc = "write" /\ UNCHANGED <<base, outbox, job>>
        /\ \/ pc' = "store" /\ disk.text = Text(job.final)
           \/ pc' = "replace"
    BY <1>6 DEF WriteUnchanged
  <2>2. pc' = "store" => More(disk.text, Text(job.final)) = {}
    BY <1>0, <2>1, NoMore
  <2>3. outbox = {}
    BY <1>0, <2>1 DEF Writing
  <2> QED
    BY <1>0, <2>1, <2>2, <2>3 DEF NewText, Flushing
<1>7. CASE StoreBase
  <2>1. pc = "store" /\ pc' = "check" /\ UNCHANGED <<outbox, job>> /\ base'.text = Text(job.final)
    BY <1>7 DEF StoreBase
  <2>2. outbox = {}
    BY <1>0, <2>1 DEF Writing
  <2> QED
    BY <1>0, <2>1, <2>2 DEF NewText, Flushing
<1>8. CASE StoreObserved
  <2>1. pc = "storeObserved" /\ pc' = "check" /\ UNCHANGED <<outbox, job>> /\ base'.text = job.observed
    BY <1>8 DEF StoreObserved
  <2>2. outbox = {}
    BY <1>0, <2>1 DEF Writing
  <2> QED
    BY <1>0, <2>1, <2>2 DEF NewText, Flushing
<1>9. CASE NeedsReconcile
  <2>1. pc = "check" /\ pc' = "idle" /\ UNCHANGED <<outbox, job, base>>
    BY <1>9 DEF NeedsReconcile
  <2> QED
    BY <1>0, <2>1 DEF NewText, Flushing
<1>10. CASE SendUpdate
  <2>1. pc = "send" /\ pc' = "sending" /\ UNCHANGED <<outbox, job, base>>
    BY <1>10 DEF SendUpdate
  <2> QED
    BY <1>0, <2>1 DEF NewText, Flushing
<1>11. CASE FinalizeApply
  <2>1. /\ pc = "finalize" /\ pc' = "clear" /\ UNCHANGED <<outbox, base>>
        /\ job'.observed = job.observed
    BY <1>0, <1>11 DEF FinalizeApply, TypeOK, Jobs
  <2> QED
    BY <1>0, <2>1 DEF NewText, Flushing
<1>12. CASE FinalizeClear
  <2>1. pc = "clear" /\ pc' = "write" /\ UNCHANGED <<base, job>> /\ outbox' = {}
    BY <1>12 DEF FinalizeClear
  <2>2. PICK row \in outbox : row.observed = job.observed
    BY <1>0, <2>1 DEF NewText, Flushing
  <2>3. More(disk.text, job.observed) \cap Present = {}
    BY <2>2 DEF NewText
  <2>4. job.onDiverge = "observed"
    BY <1>0, <2>1
  <2> QED
    BY <1>0, <2>1, <2>3, <2>4 DEF NewText, Flushing
<1> QED
  BY <1>1, <1>2, <1>3, <1>4, <1>5, <1>6, <1>7, <1>8, <1>9, <1>10, <1>11, <1>12

\* The counters only grow, and a failure counts.
LEMMA FaultsGrow ==
  ASSUME Inductive, Next
  PROVE  /\ \A kind \in FaultKinds :
              faults[kind] \in Nat /\ faults'[kind] \in Nat /\ faults[kind] <= faults'[kind]
         /\ Crash => faults'["crash"] > 0
         /\ OperationFails => faults'["ioError"] > 0
         /\ SendTimesOut => faults'["sendFailure"] > 0
         /\ WriteFails /\ Head(sendq).awaited => faults'["sendFailure"] > 0
<1>0. /\ faults \in [FaultKinds -> Nat] /\ "crash" \in FaultKinds /\ "ioError" \in FaultKinds
      /\ "sendFailure" \in FaultKinds
  BY DEF Inductive, TypeOK, FaultKinds
<1>1. ASSUME NEW kind, NEW bound, Count(kind, bound)
      PROVE  /\ \A other \in FaultKinds : /\ faults[other] \in Nat /\ faults'[other] \in Nat
                                           /\ faults[other] <= faults'[other]
             /\ kind \in FaultKinds => faults'[kind] > 0
  BY <1>0, <1>1 DEF Count
<1>2. Crash => Count("crash", MaxCrashes)
  BY DEF Crash
<1>3. OperationFails => Count("ioError", MaxWriteErrors)
  BY DEF OperationFails
<1>4. SendTimesOut => Count("sendFailure", MaxSendFailures)
  BY DEF SendTimesOut
<1>5. WriteFails /\ Head(sendq).awaited => Count("sendFailure", MaxSendFailures)
  BY DEF WriteFails
<1>6. \/ UNCHANGED faults
      \/ \E kind, bound : Count(kind, bound)
  <2>1. CASE Reconcile
    BY <2>1 DEF Reconcile, LoadOutbox, CaptureLocalUpdate, SkipMismatchedBase,
         ApplyIncoming, FirstProjection, Archive, WriteDiverged, WriteUnchanged, Replace,
         StoreBase, StoreObserved, NeedsReconcile, SendUpdate, FinalizeApply, FinalizeClear
  <2>2. CASE Watcher \/ Socket \/ Backend
    BY <2>2 DEF Watcher, HandleWatcherEvent, ScanWorkspace, Socket, Connect, FlushSyncStep,
         WriteFrame, ReceiveStep1, ReceiveUpdate, Backend, BackendStep1, BackendUpdate
  <2>3. CASE (\E t \in LocalTokens : Type(t)) \/ (\E t \in RemoteTokens : RemoteType(t))
    BY <2>3 DEF Type, RemoteType
  <2>4. CASE (\E t \in Tokens : Erase(t)) \/ (\E t \in Tokens : RemoteErase(t))
    BY <2>4 DEF Erase, RemoteErase
  <2>5. CASE Disconnect \/ WriteFails
    BY <2>5 DEF Disconnect, WriteFails
  <2> QED
    BY <1>2, <1>3, <1>4, <2>1, <2>2, <2>3, <2>4, <2>5 DEF Next, Environment
<1>7. \A kind \in FaultKinds :
        faults[kind] \in Nat /\ faults'[kind] \in Nat /\ faults[kind] <= faults'[kind]
  BY <1>0, <1>1, <1>6
<1> QED
  BY <1>0, <1>1, <1>2, <1>3, <1>4, <1>5, <1>7

\* Without a crash or a failing operation there was none before either.
LEMMA QuietBefore ==
  ASSUME Inductive, Next, Quiet'
  PROVE  Quiet /\ ~Crash /\ ~OperationFails
<1>1. "crash" \in FaultKinds /\ "ioError" \in FaultKinds
  BY DEF FaultKinds
<1> QED
  BY <1>1, FaultsGrow DEF Quiet

\* Every other step keeps what is new about the file uncaptured.
LEMMA NewTextRest ==
  ASSUME Inductive, Origin, NewText, Next, ~Crash, ~OperationFails
  PROVE  NewText'
<1> USE DEF diskVars, cacheVars
<1>0. /\ TypeOK /\ disk.text \in Texts /\ (Writing => outbox = {}) /\ hist \in Histories
      /\ (Flushing => outbox # {})
  BY TextsTyped, TypeParts DEF Inductive, Ledger, RowsInOrder, JobInOrder
<1>1. ASSUME ~CaptureLocalUpdate, ~(\E t \in RemoteTokens : RemoteType(t))
      PROVE  Present' = Present
  BY <1>1, WorldNext DEF Present
<1>2. \A t \in Present : t \in hist.typed
  BY DEF Present, Origin, Minted
<1>3. CASE CaptureLocalUpdate
  <2>1. /\ \A row \in outbox' : row.observed = disk.text
        /\ job'.observed = disk.text
    BY <1>3, CaptureKeeps
  <2>2. UNCHANGED disk /\ pc' = "send" /\ outbox' # {}
    BY <1>3 DEF CaptureLocalUpdate
  <2>3. More(disk.text, disk.text) = {}
    BY <1>0, NoMore
  <2> QED
    BY <2>1, <2>2, <2>3 DEF NewText
<1>4. ASSUME NEW t \in RemoteTokens, RemoteType(t)
      PROVE  NewText'
  <2>1. UNCHANGED <<disk, outbox, base, pc, job>> /\ t \notin hist.typed /\ t \in Tokens
    BY <1>4 DEF RemoteType, RemoteUpdate, Tokens
  <2>2. disk.text[t] = 0
    BY <1>0, <2>1 DEF Origin, Minted, Texts
  <2>3. Present' = Present \cup {t}
    <3>1. World' = World \cup {<<t, 0, 1>>}
      BY <1>4, WorldNext
    <3>2. PICK item : item = <<t, 0, 1>>
      OBVIOUS
    <3>3. item[1] = t /\ World' = World \cup {item}
      BY <3>1, <3>2
    <3> QED
      BY <3>3 DEF Present
  <2>4. \A o \in Texts : t \notin More(disk.text, o)
    BY <2>1, <2>2 DEF More, Texts
  <2> QED
    BY <1>0, <2>1, <2>3, <2>4, NewTextFrame
<1>5. CASE ~CaptureLocalUpdate /\ ~(\E t \in RemoteTokens : RemoteType(t))
  <2>0. Present' = Present
    BY <1>1, <1>5
  <2>1. CASE Archive
    <3>1. /\ pc = "archive" /\ pc' \in {"write", "check"} /\ disk'.text = EmptyText
          /\ UNCHANGED <<outbox, base, job>> /\ outbox = {}
      BY <1>0, <2>1 DEF Archive, Writing
    <3>2. More(EmptyText, base.text) = {} /\ More(EmptyText, job.observed) = {}
      BY <1>0, TextsTyped, NoMore
    <3> QED
      BY <3>1, <3>2 DEF NewText, Flushing
  <2>2. CASE Replace
    <3>1. /\ pc = "replace" /\ pc' = "store" /\ disk'.text = Text(job.final)
          /\ UNCHANGED <<outbox, base, job>> /\ outbox = {}
      BY <1>0, <2>2 DEF Replace, Writing
    <3>2. More(Text(job.final), Text(job.final)) = {}
      BY <1>0, TextsTyped, NoMore
    <3> QED
      BY <3>1, <3>2 DEF NewText, Flushing
  <2>3. CASE Reconcile
    BY <1>5, <2>0, <2>1, <2>2, <2>3, NewTextLoop DEF Reconcile
  <2>4. CASE WriteFrame \/ WriteFails \/ SendTimesOut
    <3>1. /\ UNCHANGED <<disk, outbox, base, job>>
          /\ \/ pc' = pc
             \/ Flushing /\ pc' \in {"idle", "finalize"}
      <4>1. CASE SendTimesOut
        BY <4>1 DEF SendTimesOut, Flushing
      <4>2. CASE WriteFrame \/ WriteFails
        <5>1. /\ sendq # <<>> /\ sendq \in Seq(Frames) /\ UNCHANGED <<disk, outbox, base, job>>
              /\ \/ pc' = pc
                 \/ Head(sendq).awaited /\ pc' \in {"idle", "finalize"}
          BY <1>0, <4>2, TypeParts DEF WriteFrame, WriteFails
        <5>2. 1 \in 1..Len(sendq) /\ Head(sendq) = sendq[1]
          BY <5>1
        <5>3. Head(sendq).awaited => Flushing
          BY <5>2 DEF Inductive, OneWaiter, Flushing
        <5> QED
          BY <5>1, <5>3
      <4> QED
        BY <2>4, <4>1, <4>2
    <3> QED
      BY <1>0, <2>0, <3>1 DEF NewText, Flushing
  <2>5. CASE Watcher \/ Connect \/ FlushSyncStep \/ ReceiveStep1 \/ ReceiveUpdate \/ Backend \/ Disconnect
    <3>1. UNCHANGED <<disk, outbox, base, pc, job>>
      BY <2>5 DEF Watcher, HandleWatcherEvent, ScanWorkspace, Connect, FlushSyncStep,
           ReceiveStep1, ReceiveUpdate, Backend, BackendStep1, BackendUpdate, Disconnect
    <3> QED
      BY <1>0, <2>0, <3>1, NewTextFrame
  <2>6. ASSUME NEW t \in Tokens, RemoteErase(t)
        PROVE  NewText'
    <3>1. UNCHANGED <<disk, outbox, base, pc, job>>
      BY <2>6 DEF RemoteErase, RemoteUpdate
    <3> QED
      BY <1>0, <2>0, <3>1, NewTextFrame
  <2>7. ASSUME NEW t \in LocalTokens, Type(t)
        PROVE  NewText'
    <3>1. /\ UNCHANGED <<outbox, base, pc, job>> /\ t \notin hist.typed
          /\ disk'.text = [disk.text EXCEPT ![t] = @ + 1]
      BY <2>7 DEF Type, Edit
    <3>2. \A o \in Texts : More(disk'.text, o) \subseteq More(disk.text, o) \cup {t}
      BY <1>0, <3>1 DEF More, Texts
    <3>3. t \notin Present
      BY <1>2, <3>1
    <3> QED
      BY <1>0, <2>0, <3>1, <3>2, <3>3, NewTextFrame
  <2>8. ASSUME NEW t \in Tokens, Erase(t)
        PROVE  NewText'
    <3>1. UNCHANGED <<outbox, base, pc, job>> /\ disk'.text = [disk.text EXCEPT ![t] = 0]
      BY <2>8 DEF Erase, Edit
    <3>2. \A o \in Texts : More(disk'.text, o) \subseteq More(disk.text, o)
      BY <1>0, <3>1 DEF More, Texts
    <3> QED
      BY <1>0, <2>0, <3>1, <3>2, NewTextFrame
  <2> QED
    BY <1>5, <2>3, <2>4, <2>5, <2>6, <2>7, <2>8 DEF Next, Socket, Environment
<1> QED
  BY <1>3, <1>4, <1>5

\* A new item has a token that no item had.
LEMMA UniqueStep ==
  ASSUME Inductive, Origin, Once, Next
  PROVE  Unique'
<1>0. disk.text \in Texts /\ base.doc \in Docs
  BY DEF Inductive, TypeOK
<1>1. CASE CaptureLocalUpdate
  <2>1. /\ World' = World \cup MintedItems(disk.text)
        /\ base.known /\ outbox = {} /\ pc = "idle" /\ Text(base.doc) = base.text
    BY <1>1, WorldNext DEF CaptureLocalUpdate, Drain, BaseCoherent
  <2>2. More(disk.text, base.text) \cap Present = {}
    BY <2>1 DEF Once, NewText
  <2>3. ASSUME NEW i \in MintedItems(disk.text)
        PROVE  i = <<i[1], clients + 1, 1>> /\ i[1] \notin Present
    <3>1. PICK t \in Tokens : i \in {<<t, clients + 1, k>> : k \in Extra(base.doc, disk.text, t)}
      BY DEF MintedItems
    <3>2. PICK k \in Extra(base.doc, disk.text, t) : i = <<t, clients + 1, k>>
      BY <3>1
    <3>3. Text(base.doc)[t] \in Nat /\ disk.text[t] \in Nat /\ disk.text[t] <= 1
      BY <1>0, TextType DEF Texts, Once, FileOnce
    <3>4. k = 1 /\ disk.text[t] > base.text[t]
      BY <2>1, <3>2, <3>3 DEF Extra
    <3>5. t \notin Present
      BY <2>2, <3>4 DEF More
    <3> QED
      BY <3>2, <3>4, <3>5
  <2>4. \A i \in World : i[1] \in Present
    BY DEF Present
  <2>5. ASSUME NEW i \in World', NEW j \in World', i[1] = j[1]
        PROVE  i = j
    <3>1. CASE i \in World /\ j \in World
      BY <2>5, <3>1 DEF Once, Unique
    <3>2. CASE i \in MintedItems(disk.text) /\ j \in MintedItems(disk.text)
      BY <2>3, <2>5, <3>2
    <3>3. CASE i \in MintedItems(disk.text) /\ j \in World
      BY <2>3, <2>4, <2>5, <3>3
    <3>4. CASE i \in World /\ j \in MintedItems(disk.text)
      BY <2>3, <2>4, <2>5, <3>4
    <3> QED
      BY <2>1, <3>1, <3>2, <3>3, <3>4
  <2> QED
    BY <2>5 DEF Unique
<1>2. ASSUME NEW t \in RemoteTokens, RemoteType(t)
      PROVE  Unique'
  <2>1. World' = World \cup {<<t, 0, 1>>} /\ t \notin hist.typed
    BY <1>2, WorldNext DEF RemoteType
  <2>2. \A i \in World : i[1] # t
    BY <2>1 DEF Origin, Minted
  <2> QED
    BY <2>1, <2>2 DEF Once, Unique
<1>3. CASE ~CaptureLocalUpdate /\ ~(\E t \in RemoteTokens : RemoteType(t))
  BY <1>3, WorldNext DEF Once, Unique
<1> QED
  BY <1>1, <1>2, <1>3

\* The file never has a token twice.
LEMMA FileOnceStep ==
  ASSUME Inductive, Origin, Once, Next
  PROVE  FileOnce'
<1>0. disk.text \in Texts
  BY DEF Inductive, TypeOK
<1> SUFFICES ASSUME NEW t \in Tokens
             PROVE  disk'.text[t] <= 1
  BY DEF FileOnce
<1>1. CASE UNCHANGED disk
  BY <1>1 DEF Once, FileOnce
<1>2. CASE Archive /\ disk'.text = EmptyText
  BY <1>2 DEF EmptyText
<1>3. CASE Replace /\ disk'.text = Text(job.final)
  <2>1. job.final \in Docs /\ job.final.ins \subseteq cache.doc.ins
    BY <1>3 DEF Replace, Writing, Inductive, TypeOK, Jobs, Ledger, JobInOrder, Within
  <2>2. job.final.ins \subseteq World
    BY <2>1 DEF World, Persisted
  <2> QED
    BY <1>3, <2>1, <2>2, OneVisible DEF Once
<1>4. ASSUME NEW u \in LocalTokens, Type(u), disk'.text = [disk.text EXCEPT ![u] = @ + 1]
      PROVE  disk'.text[t] <= 1
  <2>1. u \notin hist.typed /\ u \in Tokens
    BY <1>4 DEF Type, Tokens
  <2>2. disk.text[u] = 0
    BY <1>0, <2>1 DEF Origin, Minted, Texts
  <2> QED
    BY <1>0, <1>4, <2>1, <2>2 DEF Once, FileOnce, Texts
<1>5. ASSUME NEW u \in Tokens, Erase(u), disk'.text = [disk.text EXCEPT ![u] = 0]
      PROVE  disk'.text[t] <= 1
  BY <1>0, <1>5 DEF Once, FileOnce, Texts
<1> QED
  BY <1>1, <1>2, <1>3, <1>4, <1>5, DiskNext

\* A keystroke is one insertion: as long as no crash and no failing operation
\* comes between the write of the file and that of its base, sends that time
\* out, fail, are repeated or cross with remote updates never make the cache or
\* the backend hold a second live copy of what was typed once.
THEOREM KeystrokesInsertedOnce == Spec => []RetriesInsertOnce
<1>1. Init => (Quiet => Once)
  <2> SUFFICES ASSUME Init
               PROVE  Once
    OBVIOUS
  <2>1. World = {}
    BY DEF Init, World, RemoteItems, Persisted, EmptyDoc
  <2>2. Unique
    BY <2>1 DEF Unique
  <2>3. FileOnce
    BY DEF Init, FileOnce, EmptyText
  <2>4. NewText
    BY DEF Init, NewText, Flushing
  <2> QED
    BY <2>2, <2>3, <2>4 DEF Once
<1>2. Inductive /\ Origin /\ (Quiet => Once) /\ [Next]_vars => (Quiet => Once)'
  <2> SUFFICES ASSUME Inductive, Origin, Quiet => Once, [Next]_vars, Quiet'
               PROVE  Once'
    OBVIOUS
  <2>1. CASE Next
    <3>1. Once /\ ~Crash /\ ~OperationFails
      BY <2>1, QuietBefore
    <3>2. NewText'
      BY <2>1, <3>1, NewTextRest DEF Once
    <3> QED
      BY <2>1, <3>1, <3>2, UniqueStep, FileOnceStep DEF Once
  <2>2. CASE UNCHANGED vars
    <3>1. World' = World /\ Once
      BY <2>2 DEF vars, World, Persisted, RemoteItems, Quiet
    <3>2. Present' = Present
      BY <3>1 DEF Present
    <3>3. Unique' /\ FileOnce'
      BY <2>2, <3>1 DEF vars, Once, Unique, FileOnce
    <3>4. NewText'
      BY <2>2, <3>1, <3>2 DEF vars, Once, NewText, Flushing
    <3> QED
      BY <3>3, <3>4 DEF Once
  <2> QED
    BY <2>1, <2>2
<1>3. Inductive /\ Origin /\ (Quiet => Once) => RetriesInsertOnce
  <2> SUFFICES ASSUME Inductive, Origin, Once, NEW t \in Tokens
               PROVE  Text(cache.doc)[t] <= 1 /\ Text(backend)[t] <= 1
    BY DEF RetriesInsertOnce, Quiet, NoDuplicateText
  <2>1. cache.doc \in Docs /\ backend \in Docs
    BY DEF Inductive, TypeOK
  <2>2. cache.doc.ins \subseteq World /\ backend.ins \subseteq World
    BY DEF Origin, StoreOrigin, DocIn
  <2> QED
    BY <2>1, <2>2, OneVisible DEF Once
<1> QED
  BY <1>1, <1>2, <1>3, InductiveKept, OriginKept, PTL DEF Spec

-----------------------------------------------------------------------------
(* The base and its CRDT state *)

\* The numbers above one bound and up to another.
LEMMA IntervalAbove ==
  ASSUME NEW m \in Nat, NEW n \in Nat, NEW S, S = {i \in 1..n : i > m}
  PROVE  /\ IsFiniteSet(S)
         /\ m < n => Cardinality(S) = n - m
         /\ ~(m < n) => Cardinality(S) = 0
<1>1. S = (m + 1)..n
  OBVIOUS
<1>2. /\ IsFiniteSet((m + 1)..n)
      /\ Cardinality((m + 1)..n) = IF m + 1 > n THEN 0 ELSE n - (m + 1) + 1
  BY FS_Interval
<1>3. PICK c : c = Cardinality((m + 1)..n)
  OBVIOUS
<1>4. (m < n => c = n - m) /\ (~(m < n) => c = 0)
  BY <1>2, <1>3
<1> QED
  BY <1>1, <1>2, <1>3, <1>4

\* computeLocalTextEdits: an update built for a local text turns the document's
\* text into that text, provided its client is new to the document.
THEOREM CaptureGivesText ==
  ASSUME NEW doc \in Docs, NEW local \in Texts, NEW client \in Nat,
         NEW update \in LocalUpdates(doc, local, client),
         \A i \in doc.ins \cup doc.del : i[2] # client
  PROVE  Text(Merge(doc, update)) = local
<1> DEFINE mint(t) == {<<t, client, k>> : k \in Extra(doc, local, t)}
<1>1. PICK gone \in SUBSET (doc.ins \ doc.del) :
        /\ update = [ins |-> UNION {mint(t) : t \in Tokens}, del |-> gone]
        /\ \A t \in Tokens : Cardinality({i \in gone : i[1] = t}) = Cardinality(Missing(doc, local, t))
  BY DEF LocalUpdates
<1>2. ASSUME NEW t \in Tokens
      PROVE  Cardinality(Visible(Merge(doc, update), t)) = local[t]
  <2>1. PICK n, l : n = Text(doc)[t] /\ l = local[t]
    OBVIOUS
  <2>2. n \in Nat /\ l \in Nat
    BY <2>1, TextType DEF Texts
  <2>3. PICK old, cut, new : /\ old = Visible(doc, t)
                             /\ cut = {i \in gone : i[1] = t}
                             /\ new = mint(t)
    OBVIOUS
  <2>4. IsFiniteSet(old) /\ Cardinality(old) = n
    <3>1. IsFiniteSet(doc.ins) /\ old \in SUBSET doc.ins
      BY <2>3 DEF Docs, FiniteSubsets, Visible
    <3> QED
      BY <2>1, <2>3, <3>1, FS_Subset DEF Text
  <2>5. (l < n => Cardinality(cut) = n - l) /\ (~(l < n) => Cardinality(cut) = 0)
    <3>1. PICK lack : lack = Missing(doc, local, t)
      OBVIOUS
    <3>2. Cardinality(cut) = Cardinality(lack)
      BY <1>1, <2>3, <3>1
    <3>3. lack = {i \in 1..n : i > l}
      BY <2>1, <3>1 DEF Missing
    <3> QED
      BY <2>2, <3>2, <3>3, IntervalAbove
  <2>6. /\ IsFiniteSet(new)
        /\ n < l => Cardinality(new) = l - n
        /\ ~(n < l) => Cardinality(new) = 0
    <3>1. PICK over : over = Extra(doc, local, t)
      OBVIOUS
    <3>2. over = {i \in 1..l : i > n}
      BY <2>1, <3>1 DEF Extra
    <3>3. /\ IsFiniteSet(over)
          /\ n < l => Cardinality(over) = l - n
          /\ ~(n < l) => Cardinality(over) = 0
      BY <2>2, <3>2, IntervalAbove
    <3>4. new = {<<t, client, k>> : k \in over}
      BY <2>3, <3>1
    <3>5. IsFiniteSet(over)
      BY <3>3
    <3>6. ExistsBijection(over, new)
      <4> DEFINE f == [k \in over |-> <<t, client, k>>]
      <4>1. f \in [over -> new]
        BY <3>4
      <4>2. \A j, k \in over : f[j] = f[k] => j = k
        OBVIOUS
      <4>3. \A i \in new : \E k \in over : f[k] = i
        BY <3>4
      <4> HIDE DEF f
      <4>4. DOMAIN f = over
        BY <4>1
      <4>5. f \in Bijection(over, new)
        BY <4>1, <4>2, <4>3, <4>4 DEF Bijection, Injection, Surjection, IsInjective
      <4> QED
        BY <4>5 DEF ExistsBijection
    <3>7. Cardinality(new) = Cardinality(over) /\ IsFiniteSet(new)
      BY <3>5, <3>6, FS_Bijection
    <3> QED
      BY <3>3, <3>7
  <2>7. cut \subseteq old
    BY <1>1, <2>3 DEF Visible
  <2>8. \A i \in new : i[1] = t /\ i[2] = client /\ i \in update.ins
    BY <1>1, <2>3
  <2>9. \A i \in update.ins : i[1] = t => i \in new
    BY <1>1, <2>3
  <2>10. \A i \in new : i \notin doc.ins /\ i \notin doc.del /\ i \notin gone /\ i \notin old
    BY <1>1, <2>3, <2>8 DEF Visible
  <2>11. Visible(Merge(doc, update), t) = (old \ cut) \cup new
    <3>1. /\ Merge(doc, update).ins = doc.ins \cup update.ins
          /\ Merge(doc, update).del = doc.del \cup gone
      BY <1>1 DEF Merge
    <3>2. Visible(Merge(doc, update), t) =
            {i \in (doc.ins \cup update.ins) \ (doc.del \cup gone) : i[1] = t}
      BY <3>1 DEF Visible
    <3>3. \A i : i \in old <=> i \in doc.ins /\ i \notin doc.del /\ i[1] = t
      BY <2>3 DEF Visible
    <3>4. \A i : i \in cut <=> i \in gone /\ i[1] = t
      BY <2>3
    <3> QED
      BY <2>8, <2>9, <2>10, <3>2, <3>3, <3>4
  <2>12. IsFiniteSet(old \ cut) /\ Cardinality(old \ cut) = n - Cardinality(cut)
    <3>1. old \cap cut = cut
      BY <2>7
    <3> QED
      BY <2>4, <3>1, FS_Difference
  <2>13. (old \ cut) \cap new = {}
    BY <2>10
  <2>14. /\ Cardinality((old \ cut) \cup new) =
                Cardinality(old \ cut) + Cardinality(new) - Cardinality((old \ cut) \cap new)
         /\ Cardinality((old \ cut) \cap new) = 0
    BY <2>6, <2>12, <2>13, FS_Union, FS_EmptySet
  <2> QED
    BY <2>1, <2>2, <2>5, <2>6, <2>11, <2>12, <2>14
<1>3. Text(Merge(doc, update)) = [t \in Tokens |-> local[t]]
  BY <1>2 DEF Text
<1> QED
  BY <1>3 DEF Texts

\* No crash, no failing operation and no failing send so far: every captured
\* update is being sent for the first time.
FirstTry == faults["crash"] = 0 /\ faults["ioError"] = 0 /\ faults["sendFailure"] = 0

\* The job still holds the document its captured text was turned into.
Showing == Flushing \/ (Writing /\ job.onDiverge = "observed")
ObservedShown == Showing => Text(job.obsDoc) = job.observed

Coherent == BaseMatchesState /\ (outbox # {} => Flushing) /\ ObservedShown

\* A step that leaves the base and the job's captured text alone.
LEMMA CoherentFrame ==
  ASSUME Coherent, base' = base, outbox' # {} => Flushing',
         Showing' => /\ Showing
                     /\ job'.obsDoc = job.obsDoc /\ job'.observed = job.observed
  PROVE  Coherent'
<1>1. BaseMatchesState'
  BY DEF Coherent, BaseMatchesState, BaseCoherent, Text, Visible
<1>2. ObservedShown'
  <2> SUFFICES ASSUME Showing'
               PROVE  Text(job'.obsDoc) = job'.observed
    BY DEF ObservedShown, Text, Visible
  <2>1. Text(job.obsDoc) = job.observed
    BY DEF Coherent, ObservedShown
  <2> QED
    BY <2>1
<1> QED
  BY <1>1, <1>2 DEF Coherent

\* The capture: the document kept with the row shows the text of the file.
LEMMA CoherentCapture ==
  ASSUME Inductive, Origin, Coherent, CaptureLocalUpdate
  PROVE  Coherent'
<1>1. PICK update \in LocalUpdates(base.doc, disk.text, clients + 1) :
        job' = [NoJob EXCEPT !.update = update, !.observed = disk.text,
                             !.obsDoc = Merge(base.doc, update)]
  BY DEF CaptureLocalUpdate
<1>2. /\ job'.observed = disk.text /\ job'.obsDoc = Merge(base.doc, update)
      /\ base' = base /\ pc' = "send"
  BY <1>1 DEF NoJob, CaptureLocalUpdate
<1>3. base.doc \in Docs /\ disk.text \in Texts /\ clients \in Nat
  BY DEF Inductive, TypeOK
<1>4. base.doc.ins \subseteq World /\ base.doc.del \subseteq World
  <2>1. Within(base.doc, cache.doc)
    BY DEF Inductive, Ledger, BaseBehindCache, Within
  <2>2. cache.doc.ins \subseteq World /\ cache.doc.del \subseteq World
    BY DEF Origin, StoreOrigin, DocIn
  <2> QED
    BY <2>1, <2>2 DEF Within
<1>5. \A i \in base.doc.ins \cup base.doc.del : i[2] # clients + 1
  <2>1. \A i \in base.doc.ins \cup base.doc.del : i[2] \in Nat
    BY <1>3 DEF Docs, FiniteSubsets, Items
  <2>2. \A i \in base.doc.ins \cup base.doc.del : i[2] <= clients
    BY <1>4 DEF Origin, Minted
  <2> QED
    BY <1>3, <2>1, <2>2
<1>6. PICK doc, local, client : doc = base.doc /\ local = disk.text /\ client = clients + 1
  OBVIOUS
<1>7. Text(Merge(doc, update)) = local
  <2>1. doc \in Docs /\ local \in Texts /\ client \in Nat
    BY <1>3, <1>6
  <2>2. update \in LocalUpdates(doc, local, client)
    BY <1>1, <1>6
  <2>3. \A i \in doc.ins \cup doc.del : i[2] # client
    BY <1>5, <1>6
  <2> QED
    BY <2>1, <2>2, <2>3, CaptureGivesText
<1>8. Text(job'.obsDoc) = job'.observed
  BY <1>2, <1>6, <1>7
<1>9. BaseMatchesState'
  BY <1>2 DEF Coherent, BaseMatchesState, BaseCoherent, Text, Visible
<1>10. ObservedShown'
  BY <1>8 DEF ObservedShown, Text, Visible
<1> QED
  BY <1>2, <1>9, <1>10 DEF Coherent, Flushing

\* The steps that record a base.
LEMMA CoherentStore ==
  ASSUME Inductive, Coherent, StoreBase \/ StoreObserved
  PROVE  Coherent'
<1>1. outbox' = {} /\ pc' = "check"
  <2>1. Writing => outbox = {}
    BY DEF Inductive, Ledger, RowsInOrder
  <2> QED
    BY <2>1 DEF StoreBase, StoreObserved, Writing
<1>2. Text(base'.doc) = base'.text
  <2>1. CASE StoreBase
    BY <2>1 DEF StoreBase
  <2>2. CASE StoreObserved
    <3>1. job.onDiverge = "observed" /\ Writing
      BY <2>2 DEF StoreObserved, Inductive, Ledger, JobInOrder, Writing
    <3>2. Text(job.obsDoc) = job.observed
      BY <3>1 DEF Coherent, ObservedShown, Showing
    <3> QED
      BY <2>2, <3>2 DEF StoreObserved
  <2> QED
    BY <2>1, <2>2
<1>3. BaseMatchesState'
  BY <1>2 DEF BaseMatchesState, BaseCoherent, Text, Visible
<1>4. ~Showing'
  BY <1>1 DEF Showing, Flushing, Writing
<1> QED
  BY <1>1, <1>3, <1>4 DEF Coherent, ObservedShown

\* The other steps of the reconcile loop; while every send is a first try, no
\* row is left for LoadOutbox.
LEMMA CoherentLoop ==
  ASSUME Inductive, Origin, Coherent, Reconcile
  PROVE  Coherent'
<1>0. Writing => outbox = {}
  BY DEF Inductive, Ledger, RowsInOrder
<1>1. CASE LoadOutbox
  <2>1. outbox # {} /\ ~Flushing
    BY <1>1 DEF LoadOutbox, Drain, Flushing
  <2> QED
    BY <2>1 DEF Coherent
<1>2. CASE SkipMismatchedBase
  <2>1. outbox' = {} /\ base' = base /\ pc' = "check"
    BY <1>2 DEF SkipMismatchedBase
  <2>2. ~Showing'
    BY <2>1 DEF Showing, Flushing, Writing
  <2> QED
    BY <2>1, <2>2, CoherentFrame
<1>3. CASE ApplyIncoming \/ FirstProjection
  <2>1. outbox' = {} /\ base' = base
    BY <1>3 DEF ApplyIncoming, FirstProjection
  <2>2. pc' \in {"check", "write", "archive"} /\ job'.onDiverge = "keep"
    BY <1>3 DEF ApplyIncoming, FirstProjection, NoJob
  <2>3. ~Showing'
    BY <2>2 DEF Showing, Flushing
  <2> QED
    BY <2>1, <2>3, CoherentFrame
<1>4. CASE Archive \/ WriteDiverged \/ WriteUnchanged \/ Replace
  <2>1. /\ outbox' = outbox /\ base' = base /\ job' = job /\ Writing
        /\ pc' \in {"check", "write", "replace", "store", "storeObserved"}
    BY <1>4 DEF Archive, WriteDiverged, WriteUnchanged, Replace, cacheVars, Writing
  <2>2. outbox' = {}
    BY <1>0, <2>1
  <2>3. Showing' => Showing
    BY <2>1 DEF Showing, Flushing
  <2> QED
    BY <2>1, <2>2, <2>3, CoherentFrame
<1>5. CASE NeedsReconcile
  <2>1. outbox' = outbox /\ base' = base /\ pc = "check" /\ pc' = "idle"
    BY <1>5 DEF NeedsReconcile, cacheVars
  <2>2. outbox = {} /\ ~Showing'
    BY <2>1 DEF Coherent, Showing, Flushing, Writing
  <2> QED
    BY <2>1, <2>2, CoherentFrame
<1>6. CASE SendUpdate
  <2>1. base' = base /\ job' = job /\ pc = "send" /\ pc' = "sending"
    BY <1>6 DEF SendUpdate, cacheVars
  <2>2. Flushing' /\ Showing
    BY <2>1 DEF Showing, Flushing
  <2> QED
    BY <2>1, <2>2, CoherentFrame
<1>7. CASE FinalizeApply
  <2>1. base' = base /\ pc = "finalize" /\ pc' = "clear"
    BY <1>7 DEF FinalizeApply
  <2>2. job'.obsDoc = job.obsDoc /\ job'.observed = job.observed
    BY <1>7 DEF FinalizeApply, Inductive, TypeOK, Jobs
  <2>3. Flushing' /\ Showing
    BY <2>1 DEF Showing, Flushing
  <2> QED
    BY <2>1, <2>2, <2>3, CoherentFrame
<1>8. CASE FinalizeClear
  <2>1. base' = base /\ job' = job /\ outbox' = {} /\ pc = "clear"
    BY <1>8 DEF FinalizeClear
  <2>2. Showing
    BY <2>1 DEF Showing, Flushing
  <2> QED
    BY <2>1, <2>2, CoherentFrame
<1> QED
  BY <1>1, <1>2, <1>3, <1>4, <1>5, <1>6, <1>7, <1>8, CoherentCapture, CoherentStore
     DEF Reconcile

\* No step of another thread touches the base; only a failing send ends a
\* flush before its row is cleared.
LEMMA CoherentRest ==
  ASSUME Inductive, Coherent, Next, ~Reconcile, ~Crash, ~OperationFails, ~SendTimesOut,
         ~(WriteFails /\ Head(sendq).awaited)
  PROVE  Coherent'
<1> USE DEF cacheVars
<1>1. base' = base /\ outbox' = outbox /\ job' = job
  <2>1. CASE Watcher
    BY <2>1 DEF Watcher, HandleWatcherEvent, ScanWorkspace
  <2>2. CASE Socket
    BY <2>2 DEF Socket, Connect, FlushSyncStep, WriteFrame, ReceiveStep1, ReceiveUpdate
  <2>3. CASE Backend
    BY <2>3 DEF Backend, BackendStep1, BackendUpdate
  <2>4. CASE Environment
    BY <2>4 DEF Environment, Type, Erase, Edit, RemoteType, RemoteErase, RemoteUpdate,
                Disconnect, WriteFails
  <2> QED
    BY <2>1, <2>2, <2>3, <2>4 DEF Next
<1>2. pc' = pc \/ (pc = "sending" /\ pc' = "finalize")
  <2>1. CASE Watcher
    BY <2>1 DEF Watcher, HandleWatcherEvent, ScanWorkspace
  <2>2. CASE WriteFrame
    <3>1. Head(sendq).awaited => pc = "sending"
      <4>1. sendq \in Seq(Frames) /\ sendq # <<>>
        BY <2>2 DEF WriteFrame, Inductive, TypeOK
      <4>2. Len(sendq) \in Nat /\ 1 \in 1..Len(sendq) /\ Head(sendq) = sendq[1]
        BY <4>1
      <4> QED
        BY <4>2 DEF Inductive, OneWaiter
    <3> QED
      BY <2>2, <3>1 DEF WriteFrame
  <2>3. CASE Socket /\ ~WriteFrame
    BY <2>3 DEF Socket, Connect, FlushSyncStep, ReceiveStep1, ReceiveUpdate
  <2>4. CASE Backend
    BY <2>4 DEF Backend, BackendStep1, BackendUpdate
  <2>5. CASE Environment
    BY <2>5 DEF Environment, Type, Erase, Edit, RemoteType, RemoteErase, RemoteUpdate,
                Disconnect, WriteFails
  <2> QED
    BY <2>1, <2>2, <2>3, <2>4, <2>5 DEF Next
<1>3. (Flushing => Flushing') /\ (Showing' => Showing)
  BY <1>1, <1>2 DEF Showing, Flushing, Writing
<1> QED
  BY <1>1, <1>3, CoherentFrame DEF Coherent

\* The projected base's text is the text of the CRDT state stored with it, as
\* buildLocalUpdateFromBase demands before it captures an edit, as long as no
\* crash, failing operation or failing send made the daemon reload an outbox
\* row: projectMergedContentOverLocalDisk then records the captured text with
\* the very document the capture produced, and StoreBase with the final one.
\* A row that is reloaded keeps no such document, and there the claim stops.
THEOREM BaseCoherentOnFirstTry == Spec => [](FirstTry => BaseMatchesState)
<1>1. Init => (FirstTry => Coherent)
  <2> SUFFICES ASSUME Init
               PROVE  Coherent
    OBVIOUS
  <2>1. base.known = FALSE /\ outbox = {} /\ pc = "idle"
    BY DEF Init
  <2> QED
    BY <2>1 DEF Coherent, BaseMatchesState, ObservedShown, Showing, Flushing, Writing
<1>2. Inductive /\ Origin /\ (FirstTry => Coherent) /\ [Next]_vars => (FirstTry => Coherent)'
  <2> SUFFICES ASSUME Inductive, Origin, FirstTry => Coherent, [Next]_vars, FirstTry'
               PROVE  Coherent'
    OBVIOUS
  <2>1. CASE Next
    <3>1. "crash" \in FaultKinds /\ "ioError" \in FaultKinds /\ "sendFailure" \in FaultKinds
      BY DEF FaultKinds
    <3>2. FirstTry
      <4>1. \A kind \in FaultKinds :
              faults[kind] \in Nat /\ faults'[kind] \in Nat /\ faults[kind] <= faults'[kind]
        BY <2>1, FaultsGrow
      <4> QED
        BY <3>1, <4>1 DEF FirstTry
    <3>3. ~Crash /\ ~OperationFails /\ ~SendTimesOut /\ ~(WriteFails /\ Head(sendq).awaited)
      BY <2>1, FaultsGrow DEF FirstTry
    <3> QED
      BY <2>1, <3>2, <3>3, CoherentLoop, CoherentRest
  <2>2. CASE UNCHANGED vars
    <3>1. FirstTry /\ base' = base /\ outbox' = outbox /\ job' = job /\ pc' = pc
      BY <2>2 DEF vars, FirstTry
    <3>2. (outbox' # {} => Flushing') /\ (Showing' => Showing)
      BY <3>1 DEF Coherent, Showing, Flushing, Writing
    <3> QED
      BY <3>1, <3>2, CoherentFrame
  <2> QED
    BY <2>1, <2>2
<1>3. (FirstTry => Coherent) => (FirstTry => BaseMatchesState)
  BY DEF Coherent
<1> QED
  BY <1>1, <1>2, <1>3, InductiveKept, OriginKept, PTL DEF Spec

\* Whatever is disconnected, edited or erased, as long as nothing that ends a
\* flush early can happen, the check of buildLocalUpdateFromBase never
\* refuses an edit: errProjectedBaseDoesNotMatchCRDTState does not occur.
THEOREM BaseAlwaysCoherent ==
  MaxCrashes = 0 /\ MaxWriteErrors = 0 /\ MaxSendFailures = 0 => (Spec => []BaseMatchesState)
<1> SUFFICES ASSUME MaxCrashes = 0, MaxWriteErrors = 0, MaxSendFailures = 0
             PROVE  Spec => []BaseMatchesState
  OBVIOUS
<1>1. Init => FirstTry
  BY DEF Init, FirstTry, FaultKinds
<1>2. Inductive /\ FirstTry /\ [Next]_vars => FirstTry'
  <2> SUFFICES ASSUME Inductive, FirstTry, [Next]_vars
               PROVE  FirstTry'
    OBVIOUS
  <2>0. faults \in [FaultKinds -> Nat]
    BY DEF Inductive, TypeOK
  <2>1. ~Count("crash", MaxCrashes) /\ ~Count("ioError", MaxWriteErrors)
        /\ ~Count("sendFailure", MaxSendFailures)
    BY DEF Count, FirstTry
  <2>2. ASSUME NEW kind \in {"delete", "disconnect"}, NEW bound, Count(kind, bound)
        PROVE  FirstTry'
    BY <2>0, <2>2 DEF Count, FirstTry, FaultKinds
  <2>3. CASE Reconcile
    BY <2>3 DEF Reconcile, LoadOutbox, CaptureLocalUpdate, SkipMismatchedBase, ApplyIncoming,
       FirstProjection, Archive, WriteDiverged, WriteUnchanged, Replace, StoreBase,
       StoreObserved, NeedsReconcile, SendUpdate, FinalizeApply, FinalizeClear, FirstTry
  <2>4. CASE Watcher \/ Socket \/ Backend
    BY <2>4 DEF Watcher, HandleWatcherEvent, ScanWorkspace, Socket, Connect, FlushSyncStep,
       WriteFrame, ReceiveStep1, ReceiveUpdate, Backend, BackendStep1, BackendUpdate, FirstTry
  <2>5. CASE Environment
    <3>1. ~Crash /\ ~OperationFails /\ ~SendTimesOut
      BY <2>1 DEF Crash, OperationFails, SendTimesOut
    <3>2. CASE \E t \in LocalTokens : Type(t)
      BY <3>2 DEF Type, FirstTry
    <3>3. CASE \E t \in RemoteTokens : RemoteType(t)
      BY <3>3 DEF RemoteType, FirstTry
    <3>4. CASE \E t \in Tokens : Erase(t) \/ RemoteErase(t)
      <4>1. Count("delete", MaxDeletes)
        BY <3>4 DEF Erase, RemoteErase
      <4> QED
        BY <2>2, <4>1
    <3>5. CASE Disconnect \/ WriteFails
      <4>1. Count("disconnect", MaxDisconnects)
        BY <2>1, <3>5 DEF Disconnect, WriteFails
      <4> QED
        BY <2>2, <4>1
    <3> QED
      BY <2>5, <3>1, <3>2, <3>3, <3>4, <3>5 DEF Environment
  <2>6. CASE UNCHANGED vars
    BY <2>6 DEF vars, FirstTry
  <2> QED
    BY <2>3, <2>4, <2>5, <2>6 DEF Next
<1> QED
  BY <1>1, <1>2, BaseCoherentOnFirstTry, InductiveKept, PTL DEF Spec

=============================================================================
