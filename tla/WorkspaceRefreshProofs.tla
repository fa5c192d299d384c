------------------------ MODULE WorkspaceRefreshProofs ------------------------
(***************************************************************************)
(* Proofs about WorkspaceRefresh, for every number of changes, lost        *)
(* connections and failures and every capacity of the channels.            *)
(***************************************************************************)
EXTENDS WorkspaceRefresh, SequenceTheorems, TLAPS

-----------------------------------------------------------------------------
(* Types *)

\* The variables that are Boolean, and the others.
Flags ==
  /\ gone \in BOOLEAN /\ grabbed \in BOOLEAN /\ refreshPending \in BOOLEAN
  /\ cancelFetch \in BOOLEAN /\ canceled \in BOOLEAN /\ token \in BOOLEAN
  /\ ctx \in BOOLEAN /\ drained \in BOOLEAN

Others ==
  /\ version \in Nat /\ unpublished \in Nat
  /\ stream \in {"down", "subscribed", "streaming"}
  /\ queue \in Seq({Change, Quiet}) /\ wire \in Seq(Messages)
  /\ reader \in {"dial", "read", "add", "grab", "cancel", "send", "done"}
  /\ message \in Versions /\ published \in Versions
  /\ sig \in [Signalers -> {"off", "set", "send"}]
  /\ pendingSnapshot \in Versions /\ snapshotEpoch \in Nat
  /\ coord \in {"wait", "load", "swap", "apply", "cas", "arm", "recheck", "fetch", "served",
                "refused", "check", "install", "disarm", "done"}
  /\ epoch \in Nat /\ snap \in Versions /\ view \in Versions /\ latestWorkspace \in Versions
  /\ refreshNeeded \in {"nil", "open", "closed"}
  /\ phase \in {"initial", "starting", "running", "stopHeartbeat", "joinReader", "close",
                "joinWorker", "done"}
  /\ faults \in Nat

LEMMA FlagsAndOthers ==
  /\ TypeOK <=> Flags /\ Others
  /\ TypeOK' <=> Flags' /\ Others'
  BY Zenon DEF TypeOK, Flags, Others

\* A prefix of a sequence has the type of the sequence.
LEMMA PrefixType ==
  ASSUME NEW S, NEW s \in Seq(S), NEW n \in 0..Len(s)
  PROVE  /\ SubSeq(s, 1, n) \in Seq(S) /\ Len(SubSeq(s, 1, n)) = n
         /\ \A i \in 1..n : SubSeq(s, 1, n)[i] = s[i]
<1>1. \A i \in 1..n : s[i] \in S
  OBVIOUS
<1> QED
  BY <1>1, SubSeqProperties

\* What LoseConnection and CloseStream leave of the wire.
LEMMA PrefixOfWire ==
  ASSUME wire \in Seq(Messages), \E n \in 0..Len(wire) : wire' = SubSeq(wire, 1, n)
  PROVE  /\ wire' \in Seq(Messages) /\ Len(wire') <= Len(wire)
         /\ \A i \in 1..Len(wire') : wire'[i] = wire[i]
<1>1. PICK n \in 0..Len(wire) : wire' = SubSeq(wire, 1, n)
  OBVIOUS
<1> QED
  BY <1>1, PrefixType

\* What ReadMessage takes and leaves.
LEMMA TailOfWire ==
  ASSUME wire \in Seq(Messages), wire # <<>>, wire' = Tail(wire)
  PROVE  /\ Head(wire) \in Messages /\ wire' \in Seq(Messages)
         /\ Len(wire') = Len(wire) - 1 /\ Head(wire) = wire[1]
         /\ \A i \in 1..Len(wire') : wire'[i] = wire[i + 1]
  BY HeadTailProperties

\* Every step keeps the types.
LEMMA TypeStep ==
  ASSUME TypeOK, [Next]_vars
  PROVE  TypeOK'
<1> USE RefreshAssumption DEF TypeOK, backend, net, event, shared, worker, service, Signalers, Snapshot, Change, Quiet, Messages, Versions
<1>1. CASE Commit
  BY <1>1 DEF Commit
<1>2. CASE Publish
  BY <1>2 DEF Publish, Enqueue
<1>3. CASE PublishQuiet
  BY <1>3 DEF PublishQuiet, Enqueue
<1>4. CASE SendSnapshot
  BY <1>4 DEF SendSnapshot
<1>5. CASE ForwardEvent
  BY <1>5 DEF ForwardEvent
<1>6. CASE Drain
  BY <1>6 DEF Drain
<1>7. CASE LoseConnection
  <2>1. Flags'
    BY <1>7, Zenon DEF LoseConnection, Flags
  <2>2. wire' \in Seq(Messages)
    BY <1>7, PrefixOfWire DEF LoseConnection
  <2>3. queue' = <<>> /\ queue' \in Seq({Change, Quiet})
    BY <1>7 DEF LoseConnection
  <2>4. faults' = faults + 1
    BY <1>7, Zenon DEF LoseConnection
  <2>5. faults' \in Nat
    BY <2>4
  <2>6. Others'
    BY <1>7, <2>2, <2>3, <2>5 DEF LoseConnection, Others
  <2> QED
    BY <2>1, <2>6, FlagsAndOthers
<1>8. CASE Dial
  <2>1. Flags'
    BY <1>8, Zenon DEF Dial, Flags
  <2>2. \/ wire' = <<>> /\ queue' = <<>>
        \/ wire' = wire /\ queue' = queue
    BY <1>8, Zenon DEF Dial
  <2>3. wire' \in Seq(Messages) /\ queue' \in Seq({Change, Quiet})
    <3>1. wire \in Seq(Messages) /\ queue \in Seq({Change, Quiet})
      OBVIOUS
    <3> HIDE DEF TypeOK, Messages, Change, Quiet
    <3> QED
      BY <2>2, <3>1, EmptySeq
  <2>4. Others'
    BY <1>8, <2>3 DEF Dial, Others
  <2> QED
    BY <2>1, <2>4, FlagsAndOthers
<1>9. CASE ReadMessage
  <2>1. Flags'
    BY <1>9, Zenon DEF ReadMessage, Reading, BeginSignal, Flags
  <2>2. Head(wire) \in Messages /\ wire' \in Seq(Messages)
    BY <1>9, TailOfWire DEF ReadMessage
  <2>3. Head(wire).data \in Versions
    BY <2>2
  <2>4. sig' \in [Signalers -> {"off", "set", "send"}]
    BY <1>9 DEF ReadMessage, BeginSignal
  <2>5. Others'
    BY <1>9, <2>2, <2>3, <2>4 DEF ReadMessage, Others
  <2> QED
    BY <2>1, <2>5, FlagsAndOthers
<1>10. CASE AddEpoch
  BY <1>10 DEF AddEpoch
<1>11. CASE GrabCancel
  BY <1>11 DEF GrabCancel
<1>12. CASE CallCancel
  <2>1. Flags'
    BY <1>12, Zenon DEF CallCancel, Flags
  <2>2. Others'
    BY <1>12 DEF CallCancel, Others
  <2> QED
    BY <2>1, <2>2, FlagsAndOthers
<1>13. CASE SendSnapshotToken
  BY <1>13 DEF SendSnapshotToken
<1>14. CASE CloseStream
  <2>1. Flags'
    BY <1>14, Zenon DEF CloseStream, Flags
  <2>2. wire' \in Seq(Messages)
    BY <1>14, PrefixOfWire DEF CloseStream
  <2>3. queue' = <<>> /\ queue' \in Seq({Change, Quiet})
    BY <1>14 DEF CloseStream
  <2>4. Others'
    BY <1>14, <2>2, <2>3 DEF CloseStream, Others
  <2> QED
    BY <2>1, <2>4, FlagsAndOthers
<1>15. CASE ReadFails
  BY <1>15 DEF ReadFails, Reading
<1>16. CASE ReaderReturns
  BY <1>16 DEF ReaderReturns
<1>17. CASE TakeToken
  <2>1. Flags'
    BY <1>17, Zenon DEF TakeToken, Flags
  <2>2. Others'
    BY <1>17 DEF TakeToken, Others
  <2> QED
    BY <2>1, <2>2, FlagsAndOthers
<1>18. CASE CoordinatorReturns
  BY <1>18 DEF CoordinatorReturns
<1>19. CASE LoadEpoch
  BY <1>19 DEF LoadEpoch
<1>20. CASE SwapSnapshot
  BY <1>20 DEF SwapSnapshot
<1>21. CASE ApplySnapshot
  BY <1>21 DEF ApplySnapshot, Install
<1>22. CASE TakePending
  <2>1. Flags'
    BY <1>22, Zenon DEF TakePending, Flags
  <2>2. Others'
    BY <1>22 DEF TakePending, Others
  <2> QED
    BY <2>1, <2>2, FlagsAndOthers
<1>23. CASE ArmCancel
  <2>1. Flags'
    BY <1>23, Zenon DEF ArmCancel, Flags
  <2>2. Others'
    BY <1>23 DEF ArmCancel, Others
  <2> QED
    BY <2>1, <2>2, FlagsAndOthers
<1>24. CASE Recheck
  <2>1. Flags'
    BY <1>24, Zenon DEF Recheck, Flags
  <2>2. Others'
    BY <1>24 DEF Recheck, Others
  <2> QED
    BY <2>1, <2>2, FlagsAndOthers
<1>25. CASE FetchFails
  BY <1>25 DEF FetchFails
<1>26. CASE FetchRefused
  BY <1>26 DEF FetchRefused
<1>27. CASE CheckEpoch
  BY <1>27 DEF CheckEpoch
<1>28. CASE InstallView
  <2>1. Flags'
    BY <1>28, Zenon DEF InstallView, Install, Flags
  <2>2. /\ latestWorkspace' \in {latestWorkspace, view}
        /\ faults' = faults \/ faults' = faults + 1
    BY <1>28, Zenon DEF InstallView, Install
  <2>3. latestWorkspace' \in Versions /\ faults' \in Nat
    BY <2>2
  <2>4. Others'
    BY <1>28, <2>3 DEF InstallView, Others
  <2> QED
    BY <2>1, <2>4, FlagsAndOthers
<1>29. CASE Disarm
  <2>1. Flags'
    BY <1>29, Zenon DEF Disarm, Flags
  <2>2. Others'
    BY <1>29 DEF Disarm, Others
  <2> QED
    BY <2>1, <2>2, FlagsAndOthers
<1>30. CASE ServeFetch
  BY <1>30 DEF ServeFetch
<1>31. CASE FetchReturns
  BY <1>31 DEF FetchReturns
<1>32. CASE InitialRefresh
  BY <1>32 DEF InitialRefresh
<1>33. CASE StartLoops
  BY <1>33 DEF StartLoops
<1>34. CASE LeaveRun
  BY <1>34 DEF LeaveRun
<1>35. CASE CancelCore
  BY <1>35 DEF CancelCore
<1>36. CASE JoinReader
  BY <1>36 DEF JoinReader
<1>37. CASE CloseChannel
  BY <1>37 DEF CloseChannel
<1>38. CASE JoinWorker
  BY <1>38 DEF JoinWorker
<1>39. CASE Tick
  BY <1>39 DEF Tick, BeginSignal
<1>40. CASE HeartbeatTick
  BY <1>40 DEF HeartbeatTick, BeginSignal, HeartbeatAlive
<1>41. CASE CancelContext
  BY <1>41 DEF CancelContext
<1>42. CASE AbortRun
  BY <1>42 DEF AbortRun
<1>43. ASSUME NEW s \in Signalers, SetPending(s) PROVE TypeOK'
  BY <1>43 DEF SetPending
<1>44. ASSUME NEW s \in Signalers, SendToken(s) PROVE TypeOK'
  BY <1>44 DEF SendToken
<1>45. CASE UNCHANGED vars
  BY <1>45 DEF vars
<1> QED
  BY <1>1, <1>2, <1>3, <1>4, <1>5, <1>6, <1>7, <1>8, <1>9, <1>10, <1>11, <1>12,
     <1>13, <1>14, <1>15, <1>16, <1>17, <1>18, <1>19, <1>20, <1>21, <1>22, <1>23,
     <1>24, <1>25, <1>26, <1>27, <1>28, <1>29, <1>30, <1>31, <1>32, <1>33, <1>34,
     <1>35, <1>36, <1>37, <1>38, <1>39, <1>40, <1>41, <1>42, <1>43, <1>44, <1>45
     DEF Next, Backend, Reader, Coordinator, Fetch, Run, Signal, Signalers

\* The specification keeps its variables in their types.
THEOREM RefreshTypeCorrect == Spec => []TypeOK
<1>1. ASSUME Init PROVE TypeOK
  <2>1. Flags
    BY <1>1, Zenon DEF Init, Flags
  <2>2. Others
    BY <1>1 DEF Init, Others, Versions, Signalers
  <2> QED
    BY <2>1, <2>2, FlagsAndOthers
<1>2. TypeOK /\ [Next]_vars => TypeOK'
  BY TypeStep
<1> QED
  BY <1>1, <1>2, PTL DEF Spec

-----------------------------------------------------------------------------
(* Teardown *)

\* Who may still signal in which phase: the reader only between messages, the
\* run loop until it is left, the heartbeat until stopHeartbeat has joined it.
Teardown ==
  /\ phase \in {"initial", "starting"} => refreshNeeded = "nil"
  /\ refreshNeeded = "nil" => reader = "dial" /\ \A s \in Signalers : sig[s] = "off"
  /\ reader # "read" => sig["reader"] = "off"
  /\ sig["run"] # "off" => phase = "running"
  /\ sig["heartbeat"] # "off" => phase \in {"running", "stopHeartbeat"}
  /\ phase \in {"close", "joinWorker"} => reader = "done"
  /\ refreshNeeded = "closed" => phase \in {"joinWorker", "done"} /\ reader = "done"

\* Every step keeps the order of the teardown.
LEMMA TeardownStep ==
  ASSUME TypeOK, Teardown, [Next]_vars
  PROVE  Teardown'
<1> USE RefreshAssumption DEF TypeOK, Teardown, backend, net, event, shared, worker, service, Signalers
<1>1. CASE Commit
  BY <1>1 DEF Commit
<1>2. CASE Publish
  BY <1>2 DEF Publish, Enqueue
<1>3. CASE PublishQuiet
  BY <1>3 DEF PublishQuiet, Enqueue
<1>4. CASE SendSnapshot
  BY <1>4 DEF SendSnapshot
<1>5. CASE ForwardEvent
  BY <1>5 DEF ForwardEvent
<1>6. CASE Drain
  BY <1>6 DEF Drain
<1>7. CASE LoseConnection
  BY <1>7 DEF LoseConnection
<1>8. CASE Dial
  BY <1>8 DEF Dial
<1>9. CASE ReadMessage
  BY <1>9 DEF ReadMessage, Reading, BeginSignal
<1>10. CASE AddEpoch
  BY <1>10 DEF AddEpoch
<1>11. CASE GrabCancel
  BY <1>11 DEF GrabCancel
<1>12. CASE CallCancel
  BY <1>12 DEF CallCancel
<1>13. CASE SendSnapshotToken
  BY <1>13 DEF SendSnapshotToken
<1>14. CASE CloseStream
  BY <1>14 DEF CloseStream
<1>15. CASE ReadFails
  BY <1>15 DEF ReadFails, Reading
<1>16. CASE ReaderReturns
  BY <1>16 DEF ReaderReturns
<1>17. CASE TakeToken
  BY <1>17 DEF TakeToken
<1>18. CASE CoordinatorReturns
  BY <1>18 DEF CoordinatorReturns
<1>19. CASE LoadEpoch
  BY <1>19 DEF LoadEpoch
<1>20. CASE SwapSnapshot
  BY <1>20 DEF SwapSnapshot
<1>21. CASE ApplySnapshot
  BY <1>21 DEF ApplySnapshot, Install
<1>22. CASE TakePending
  BY <1>22 DEF TakePending
<1>23. CASE ArmCancel
  BY <1>23 DEF ArmCancel
<1>24. CASE Recheck
  BY <1>24 DEF Recheck
<1>25. CASE FetchFails
  BY <1>25 DEF FetchFails
<1>26. CASE FetchRefused
  BY <1>26 DEF FetchRefused
<1>27. CASE CheckEpoch
  BY <1>27 DEF CheckEpoch
<1>28. CASE InstallView
  BY <1>28 DEF InstallView, Install
<1>29. CASE Disarm
  BY <1>29 DEF Disarm
<1>30. CASE ServeFetch
  BY <1>30 DEF ServeFetch
<1>31. CASE FetchReturns
  BY <1>31 DEF FetchReturns
<1>32. CASE InitialRefresh
  BY <1>32 DEF InitialRefresh
<1>33. CASE StartLoops
  BY <1>33 DEF StartLoops
<1>34. CASE LeaveRun
  BY <1>34 DEF LeaveRun
<1>35. CASE CancelCore
  BY <1>35 DEF CancelCore
<1>36. CASE JoinReader
  BY <1>36 DEF JoinReader
<1>37. CASE CloseChannel
  BY <1>37 DEF CloseChannel
<1>38. CASE JoinWorker
  BY <1>38 DEF JoinWorker
<1>39. CASE Tick
  BY <1>39 DEF Tick, BeginSignal
<1>40. CASE HeartbeatTick
  BY <1>40 DEF HeartbeatTick, BeginSignal, HeartbeatAlive
<1>41. CASE CancelContext
  BY <1>41 DEF CancelContext
<1>42. CASE AbortRun
  BY <1>42 DEF AbortRun
<1>43. ASSUME NEW s \in Signalers, SetPending(s) PROVE Teardown'
  BY <1>43 DEF SetPending
<1>44. ASSUME NEW s \in Signalers, SendToken(s) PROVE Teardown'
  BY <1>44 DEF SendToken
<1>45. CASE UNCHANGED vars
  BY <1>45 DEF vars
<1> QED
  BY <1>1, <1>2, <1>3, <1>4, <1>5, <1>6, <1>7, <1>8, <1>9, <1>10, <1>11, <1>12,
     <1>13, <1>14, <1>15, <1>16, <1>17, <1>18, <1>19, <1>20, <1>21, <1>22, <1>23,
     <1>24, <1>25, <1>26, <1>27, <1>28, <1>29, <1>30, <1>31, <1>32, <1>33, <1>34,
     <1>35, <1>36, <1>37, <1>38, <1>39, <1>40, <1>41, <1>42, <1>43, <1>44, <1>45
     DEF Next, Backend, Reader, Coordinator, Fetch, Run, Signal, Signalers

\* service.go: nobody sends on refreshNeeded after joinRefreshWorker closed it,
\* because heartbeat, run loop and reader have been joined before.
THEOREM ChannelOutlivesSenders == Spec => []NoSendOnClosed
<1>1. Init => Teardown
  BY DEF Init, Teardown, Signalers
<1>2. TypeOK /\ Teardown /\ [Next]_vars => Teardown'
  BY TeardownStep
<1>3. Teardown => NoSendOnClosed
  BY DEF Teardown, NoSendOnClosed, Sending, Signalers
<1> QED
  BY <1>1, <1>2, <1>3, RefreshTypeCorrect, PTL DEF Spec

-----------------------------------------------------------------------------
(* Wake-ups *)

Publishing == reader \in {"grab", "cancel", "send"}

\* Work the coordinator has passed by is followed by a token; a coordinator
\* whose epoch is out of date has a token waiting or will be sent one.
Awake ==
  /\ pendingSnapshot # None =>
       token \/ reader = "add" \/ Publishing \/ coord \in {"load", "swap", "done"}
  /\ refreshPending =>
       \/ token \/ Publishing \/ coord \in {"load", "swap", "apply", "cas", "done"}
       \/ \E s \in Signalers : sig[s] = "send"
  /\ epoch # snapshotEpoch /\ coord \in {"swap", "apply", "cas", "arm", "recheck"} =>
       token \/ Publishing

\* Every step keeps the coordinator awake while there is work.
LEMMA AwakeStep ==
  ASSUME TypeOK, Awake, [Next]_vars
  PROVE  Awake'
<1> USE RefreshAssumption DEF TypeOK, Awake, backend, net, event, shared, worker, service, Signalers, Publishing, Versions, Messages, Snapshot, Change, Quiet
<1>1. CASE Commit
  BY <1>1 DEF Commit
<1>2. CASE Publish
  BY <1>2 DEF Publish, Enqueue
<1>3. CASE PublishQuiet
  BY <1>3 DEF PublishQuiet, Enqueue
<1>4. CASE SendSnapshot
  BY <1>4 DEF SendSnapshot
<1>5. CASE ForwardEvent
  BY <1>5 DEF ForwardEvent
<1>6. CASE Drain
  BY <1>6 DEF Drain
<1>7. CASE LoseConnection
  BY <1>7 DEF LoseConnection
<1>8. CASE Dial
  BY <1>8 DEF Dial
<1>9. CASE ReadMessage
  BY <1>9 DEF ReadMessage, Reading, BeginSignal
<1>10. CASE AddEpoch
  BY <1>10 DEF AddEpoch
<1>11. CASE GrabCancel
  BY <1>11 DEF GrabCancel
<1>12. CASE CallCancel
  BY <1>12 DEF CallCancel
<1>13. CASE SendSnapshotToken
  BY <1>13 DEF SendSnapshotToken
<1>14. CASE CloseStream
  BY <1>14 DEF CloseStream
<1>15. CASE ReadFails
  BY <1>15 DEF ReadFails, Reading
<1>16. CASE ReaderReturns
  BY <1>16 DEF ReaderReturns
<1>17. CASE TakeToken
  BY <1>17 DEF TakeToken
<1>18. CASE CoordinatorReturns
  BY <1>18 DEF CoordinatorReturns
<1>19. CASE LoadEpoch
  BY <1>19 DEF LoadEpoch
<1>20. CASE SwapSnapshot
  BY <1>20 DEF SwapSnapshot
<1>21. CASE ApplySnapshot
  BY <1>21 DEF ApplySnapshot, Install
<1>22. CASE TakePending
  BY <1>22 DEF TakePending
<1>23. CASE ArmCancel
  BY <1>23 DEF ArmCancel
<1>24. CASE Recheck
  BY <1>24 DEF Recheck
<1>25. CASE FetchFails
  BY <1>25 DEF FetchFails
<1>26. CASE FetchRefused
  BY <1>26 DEF FetchRefused
<1>27. CASE CheckEpoch
  BY <1>27 DEF CheckEpoch
<1>28. CASE InstallView
  BY <1>28 DEF InstallView, Install
<1>29. CASE Disarm
  BY <1>29 DEF Disarm
<1>30. CASE ServeFetch
  BY <1>30 DEF ServeFetch
<1>31. CASE FetchReturns
  BY <1>31 DEF FetchReturns
<1>32. CASE InitialRefresh
  BY <1>32 DEF InitialRefresh
<1>33. CASE StartLoops
  BY <1>33 DEF StartLoops
<1>34. CASE LeaveRun
  BY <1>34 DEF LeaveRun
<1>35. CASE CancelCore
  BY <1>35 DEF CancelCore
<1>36. CASE JoinReader
  BY <1>36 DEF JoinReader
<1>37. CASE CloseChannel
  BY <1>37 DEF CloseChannel
<1>38. CASE JoinWorker
  BY <1>38 DEF JoinWorker
<1>39. CASE Tick
  BY <1>39 DEF Tick, BeginSignal
<1>40. CASE HeartbeatTick
  BY <1>40 DEF HeartbeatTick, BeginSignal, HeartbeatAlive
<1>41. CASE CancelContext
  BY <1>41 DEF CancelContext
<1>42. CASE AbortRun
  BY <1>42 DEF AbortRun
<1>43. ASSUME NEW s \in Signalers, SetPending(s) PROVE Awake'
  BY <1>43 DEF SetPending
<1>44. ASSUME NEW s \in Signalers, SendToken(s) PROVE Awake'
  BY <1>44 DEF SendToken
<1>45. CASE UNCHANGED vars
  BY <1>45 DEF vars
<1> QED
  BY <1>1, <1>2, <1>3, <1>4, <1>5, <1>6, <1>7, <1>8, <1>9, <1>10, <1>11, <1>12,
     <1>13, <1>14, <1>15, <1>16, <1>17, <1>18, <1>19, <1>20, <1>21, <1>22, <1>23,
     <1>24, <1>25, <1>26, <1>27, <1>28, <1>29, <1>30, <1>31, <1>32, <1>33, <1>34,
     <1>35, <1>36, <1>37, <1>38, <1>39, <1>40, <1>41, <1>42, <1>43, <1>44, <1>45
     DEF Next, Backend, Reader, Coordinator, Fetch, Run, Signal, Signalers

\* service.go: neither the coalescing channel nor the compare-and-swap of the
\* coordinator loses a request for a refresh or a snapshot.
THEOREM NoWakeupLost == Spec => []WakeupNotLost
<1>1. Init => Awake
  BY DEF Init, Awake
<1>2. TypeOK /\ Awake /\ [Next]_vars => Awake'
  BY AwakeStep
<1>3. Awake => WakeupNotLost
  BY DEF Awake, WakeupNotLost, Publishing
<1> QED
  BY <1>1, <1>2, <1>3, RefreshTypeCorrect, PTL DEF Spec

-----------------------------------------------------------------------------
(* Stale views *)

\* Snapshots never run ahead of the backend, and a view fetched in the current
\* epoch is as new as the last snapshot of that epoch.
Ordered ==
  /\ \A i \in 1..Len(wire) : wire[i].type = Snapshot => wire[i].data \in Nat /\ wire[i].data <= version
  /\ reader = "add" => message \in Nat /\ message <= version
  /\ published # None => published <= version
  /\ epoch <= snapshotEpoch
  /\ coord \in {"served", "check"} => view \in Nat
  /\ coord \in {"served", "check"} /\ epoch = snapshotEpoch /\ published # None => view >= published

\* Every step keeps the order of versions.
LEMMA OrderedStep ==
  ASSUME TypeOK, Ordered, [Next]_vars
  PROVE  Ordered'
<1> USE RefreshAssumption DEF TypeOK, Ordered, backend, net, event, shared, worker, service, Signalers, Versions, Messages, Snapshot, Change, Quiet
<1>1. CASE Commit
  BY <1>1 DEF Commit
<1>2. CASE Publish
  BY <1>2 DEF Publish, Enqueue
<1>3. CASE PublishQuiet
  BY <1>3 DEF PublishQuiet, Enqueue
<1>4. CASE SendSnapshot
  BY <1>4 DEF SendSnapshot
<1>5. CASE ForwardEvent
  <2>1. Head(queue) \in {Change, Quiet}
    BY <1>5, HeadTailProperties DEF ForwardEvent
  <2>2. Len(wire') = Len(wire) + 1 /\ wire'[Len(wire) + 1].type = Head(queue)
        /\ \A i \in 1..Len(wire) : wire'[i] = wire[i]
    BY <1>5 DEF ForwardEvent
  <2> QED
    BY <1>5, <2>1, <2>2 DEF ForwardEvent
<1>6. CASE Drain
  BY <1>6 DEF Drain
<1>7. CASE LoseConnection
  BY <1>7 DEF LoseConnection
<1>8. CASE Dial
  BY <1>8 DEF Dial
<1>9. CASE ReadMessage
  BY <1>9 DEF ReadMessage, Reading, BeginSignal
<1>10. CASE AddEpoch
  BY <1>10 DEF AddEpoch
<1>11. CASE GrabCancel
  BY <1>11 DEF GrabCancel
<1>12. CASE CallCancel
  BY <1>12 DEF CallCancel
<1>13. CASE SendSnapshotToken
  BY <1>13 DEF SendSnapshotToken
<1>14. CASE CloseStream
  BY <1>14 DEF CloseStream
<1>15. CASE ReadFails
  BY <1>15 DEF ReadFails, Reading
<1>16. CASE ReaderReturns
  BY <1>16 DEF ReaderReturns
<1>17. CASE TakeToken
  BY <1>17 DEF TakeToken
<1>18. CASE CoordinatorReturns
  BY <1>18 DEF CoordinatorReturns
<1>19. CASE LoadEpoch
  BY <1>19 DEF LoadEpoch
<1>20. CASE SwapSnapshot
  BY <1>20 DEF SwapSnapshot
<1>21. CASE ApplySnapshot
  BY <1>21 DEF ApplySnapshot, Install
<1>22. CASE TakePending
  BY <1>22 DEF TakePending
<1>23. CASE ArmCancel
  BY <1>23 DEF ArmCancel
<1>24. CASE Recheck
  BY <1>24 DEF Recheck
<1>25. CASE FetchFails
  BY <1>25 DEF FetchFails
<1>26. CASE FetchRefused
  BY <1>26 DEF FetchRefused
<1>27. CASE CheckEpoch
  BY <1>27 DEF CheckEpoch
<1>28. CASE InstallView
  BY <1>28 DEF InstallView, Install
<1>29. CASE Disarm
  BY <1>29 DEF Disarm
<1>30. CASE ServeFetch
  BY <1>30 DEF ServeFetch
<1>31. CASE FetchReturns
  BY <1>31 DEF FetchReturns
<1>32. CASE InitialRefresh
  BY <1>32 DEF InitialRefresh
<1>33. CASE StartLoops
  BY <1>33 DEF StartLoops
<1>34. CASE LeaveRun
  BY <1>34 DEF LeaveRun
<1>35. CASE CancelCore
  BY <1>35 DEF CancelCore
<1>36. CASE JoinReader
  BY <1>36 DEF JoinReader
<1>37. CASE CloseChannel
  BY <1>37 DEF CloseChannel
<1>38. CASE JoinWorker
  BY <1>38 DEF JoinWorker
<1>39. CASE Tick
  BY <1>39 DEF Tick, BeginSignal
<1>40. CASE HeartbeatTick
  BY <1>40 DEF HeartbeatTick, BeginSignal, HeartbeatAlive
<1>41. CASE CancelContext
  BY <1>41 DEF CancelContext
<1>42. CASE AbortRun
  BY <1>42 DEF AbortRun
<1>43. ASSUME NEW s \in Signalers, SetPending(s) PROVE Ordered'
  BY <1>43 DEF SetPending
<1>44. ASSUME NEW s \in Signalers, SendToken(s) PROVE Ordered'
  BY <1>44 DEF SendToken
<1>45. CASE UNCHANGED vars
  BY <1>45 DEF vars
<1> QED
  BY <1>1, <1>2, <1>3, <1>4, <1>5, <1>6, <1>7, <1>8, <1>9, <1>10, <1>11, <1>12,
     <1>13, <1>14, <1>15, <1>16, <1>17, <1>18, <1>19, <1>20, <1>21, <1>22, <1>23,
     <1>24, <1>25, <1>26, <1>27, <1>28, <1>29, <1>30, <1>31, <1>32, <1>33, <1>34,
     <1>35, <1>36, <1>37, <1>38, <1>39, <1>40, <1>41, <1>42, <1>43, <1>44, <1>45
     DEF Next, Backend, Reader, Coordinator, Fetch, Run, Signal, Signalers

\* service.go: refresh never installs a view older than a snapshot that
\* publishSnapshot has published before the epoch check.
THEOREM StaleViewsAreDropped == Spec => NoStaleView
<1>1. Init => Ordered
  BY DEF Init, Ordered
<1>2. TypeOK /\ Ordered /\ [Next]_vars => Ordered'
  BY OrderedStep
<1>3. ASSUME TypeOK, Ordered, [Next]_vars, coord = "check", coord' = "install", published # None
      PROVE  view >= published
  <2>1. CheckEpoch
    BY <1>3 DEF Next, Backend, Reader, Coordinator, Fetch, Run, Signal, vars, worker,
      Commit, Publish, PublishQuiet, SendSnapshot, ForwardEvent, Drain,
      LoseConnection, Dial, ReadMessage, AddEpoch, GrabCancel, CallCancel,
      SendSnapshotToken, CloseStream, ReadFails, ReaderReturns, TakeToken, CoordinatorReturns,
      LoadEpoch, SwapSnapshot, ApplySnapshot, TakePending, ArmCancel, Recheck,
      FetchFails, FetchRefused, CheckEpoch, InstallView, Disarm, ServeFetch,
      FetchReturns, InitialRefresh, StartLoops, LeaveRun, CancelCore, JoinReader,
      CloseChannel, JoinWorker, Tick, HeartbeatTick, CancelContext, AbortRun,
      SetPending, SendToken, TypeOK
  <2> QED
    BY <1>3, <2>1 DEF CheckEpoch, Ordered
<1>4. TypeOK /\ Ordered /\ [Next]_vars =>
        [coord = "check" /\ coord' = "install" /\ published # None => view >= published]_vars
  BY <1>3
<1> QED
  BY <1>1, <1>2, <1>4, RefreshTypeCorrect, PTL DEF Spec, NoStaleView
==============================================================================
