--------------------------- MODULE WorkspaceRefresh ---------------------------
(***************************************************************************)
(* How the daemon keeps up with the workspace its backend holds.  The      *)
(* event reader publishes the snapshot every new websocket begins with and *)
(* asks for a refresh at every event; the run loop and the heartbeat ask   *)
(* for one now and then; a coordinator applies snapshots and fetches the   *)
(* workspace.  They share three atomics, a cancel function and a channel   *)
(* of capacity one.  A workspace is abstracted to its version.             *)
(***************************************************************************)
EXTENDS Integers, Sequences

CONSTANTS
  None,        \* no snapshot, no view
  MaxVersion,  \* bound on changes at the backend
  MaxFaults,   \* bound on lost connections, fetches and applications that fail
  QueueCap,    \* capacity of the broker's channel for a subscriber
  WireCap,     \* bound on messages between backend and reader
  QuietEvents, \* are there events that ask for no refresh?
  Tickers,     \* who of run's minute ticker and the heartbeat asks for refreshes
  MayHang,     \* may a fetch stay unanswered?
  MayStop      \* may the daemon be stopped or drained?

ASSUME RefreshAssumption ==
  /\ None \notin Nat
  /\ MaxVersion \in Nat /\ MaxFaults \in Nat
  /\ QueueCap \in Nat \ {0} /\ WireCap \in Nat \ {0}
  /\ Tickers \subseteq {"run", "heartbeat"}
  /\ {QuietEvents, MayHang, MayStop} \subseteq BOOLEAN

VARIABLES
  version,         \* the workspace at the backend
  unpublished,     \* changes whose event is not published yet
  gone,            \* the backend has drained the daemon
  stream,          \* the websocket at the backend
  queue,           \* the broker's channel of this subscriber
  wire,            \* messages on their way to the reader
  reader,          \* where the event reader is
  message,         \* the snapshot it publishes
  grabbed,         \* it holds the cancel function of the current fetch
  sig,             \* where each caller of signalRefresh is
  pendingSnapshot, refreshPending, snapshotEpoch,
  cancelFetch,     \* cancelFetch points to the current fetch
  refreshNeeded,   \* the channel
  token,           \* the channel holds a token
  coord,           \* where the coordinator is
  epoch,           \* its local epoch
  snap,            \* the snapshot it took
  view,            \* what its fetch returned
  canceled,        \* the current fetch's context is canceled
  latestWorkspace, \* the workspace the daemon works with
  published,       \* the newest snapshot published (history)
  phase,           \* where run is
  ctx,             \* coreCtx is canceled
  drained,         \* an error waits in the drained channel
  faults           \* losses and failures so far

backend == <<version, unpublished, gone>>
net     == <<stream, queue, wire>>
event   == <<reader, message, grabbed, published>>
shared  == <<pendingSnapshot, refreshPending, snapshotEpoch, cancelFetch, canceled, token>>
worker  == <<coord, epoch, snap, view, latestWorkspace>>
service == <<refreshNeeded, phase, ctx, drained>>
vars    == <<backend, net, event, sig, shared, worker, service, faults>>

Snapshot  == "snapshot"
Change    == "change"
Quiet     == "quiet"
Signalers == {"reader", "run", "heartbeat"}

Init ==
  /\ version = 0 /\ unpublished = 0 /\ gone = FALSE
  /\ stream = "down" /\ queue = <<>> /\ wire = <<>>
  /\ reader = "dial" /\ message = None /\ grabbed = FALSE /\ published = None
  /\ sig = [s \in Signalers |-> "off"]
  /\ pendingSnapshot = None /\ refreshPending = FALSE /\ snapshotEpoch = 0
  /\ cancelFetch = FALSE /\ canceled = FALSE /\ token = FALSE
  /\ coord = "wait" /\ epoch = 0 /\ snap = None /\ view = None /\ latestWorkspace = None
  /\ refreshNeeded = "nil" /\ phase = "initial" /\ ctx = FALSE /\ drained = FALSE
  /\ faults = 0

-----------------------------------------------------------------------------
(* The backend *)

\* A handler commits a change to the workspace ...
Commit ==
  /\ version < MaxVersion
  /\ version' = version + 1
  /\ unpublished' = unpublished + 1
  /\ UNCHANGED <<gone, net, event, sig, shared, worker, service, faults>>

\* Mutant: the broker sends a snapshot instead of the event.
EnqueueSnapshot(e) == queue' = Append(queue, Snapshot)

\* Broker.Publish drops what a full channel cannot take.
Enqueue(e) ==
  queue' = IF stream # "down" /\ Len(queue) < QueueCap THEN Append(queue, e) ELSE queue

\* ... and then publishes it.
Publish ==
  /\ unpublished > 0
  /\ unpublished' = unpublished - 1
  /\ Enqueue(Change)
  /\ UNCHANGED <<version, gone, stream, wire, event, sig, shared, worker, service, faults>>

\* presence.updated, agent.run.updated
PublishQuiet ==
  /\ QuietEvents /\ stream # "down" /\ Len(queue) < QueueCap
  /\ Enqueue(Quiet)
  /\ UNCHANGED <<backend, stream, wire, event, sig, shared, worker, service, faults>>

\* handleWebsocket subscribes, then loads the snapshot and writes it.
SendSnapshot ==
  /\ stream = "subscribed"
  /\ stream' = "streaming"
  /\ wire' = Append(wire, [type |-> Snapshot, data |-> version])
  /\ UNCHANGED <<backend, queue, event, sig, shared, worker, service, faults>>

ForwardEvent ==
  /\ stream = "streaming" /\ queue # <<>> /\ Len(wire) < WireCap
  /\ wire' = Append(wire, [type |-> Head(queue), data |-> None])
  /\ queue' = Tail(queue)
  /\ UNCHANGED <<backend, stream, event, sig, shared, worker, service, faults>>

\* The daemon's registration is revoked.
Drain ==
  /\ MayStop /\ ~gone
  /\ gone' = TRUE
  /\ UNCHANGED <<version, unpublished, net, event, sig, shared, worker, service, faults>>

\* The connection breaks; the reader may still find some of the messages.
LoseConnection ==
  /\ stream # "down"
  /\ faults < MaxFaults
  /\ faults' = faults + 1
  /\ stream' = "down" /\ queue' = <<>>
  /\ \E n \in 0..Len(wire) : wire' = SubSeq(wire, 1, n)
  /\ UNCHANGED <<backend, event, sig, shared, worker, service>>

Backend ==
  Commit \/ Publish \/ PublishQuiet \/ SendSnapshot \/ ForwardEvent \/ Drain \/ LoseConnection

-----------------------------------------------------------------------------
(* signalRefresh *)

\* The caller gets past the nil check.
BeginSignal(s) ==
  sig' = [sig EXCEPT ![s] = IF refreshNeeded = "nil" THEN "off" ELSE "set"]

\* refreshPending.Store(true)
SetPending(s) ==
  /\ sig[s] = "set"
  /\ refreshPending' = TRUE
  /\ sig' = [sig EXCEPT ![s] = "send"]
  /\ UNCHANGED <<backend, net, event, pendingSnapshot, snapshotEpoch, cancelFetch, canceled,
                 token, worker, service, faults>>

\* The send that a full channel skips.
SendToken(s) ==
  /\ sig[s] = "send"
  /\ token' = TRUE
  /\ sig' = [sig EXCEPT ![s] = "off"]
  /\ UNCHANGED <<backend, net, event, pendingSnapshot, refreshPending, snapshotEpoch,
                 cancelFetch, canceled, worker, service, faults>>

Signal(s) == SetPending(s) \/ SendToken(s)

-----------------------------------------------------------------------------
(* The event reader: workspaceEventLoop, runWorkspaceEventStream, publishSnapshot *)

Dial ==
  /\ refreshNeeded # "nil" /\ reader = "dial" /\ ~ctx
  /\ IF gone
     THEN /\ reader' = "done" /\ drained' = TRUE
          /\ UNCHANGED <<stream, queue, wire>>
     ELSE /\ reader' = "read" /\ stream' = "subscribed" /\ queue' = <<>> /\ wire' = <<>>
          /\ UNCHANGED drained
  /\ UNCHANGED <<backend, message, grabbed, published, sig, shared, worker,
                 refreshNeeded, phase, ctx, faults>>

Reading == reader = "read" /\ sig["reader"] = "off"

\* An event arrives; a snapshot is stored.
ReadMessage ==
  /\ Reading /\ wire # <<>>
  /\ wire' = Tail(wire)
  /\ LET m == Head(wire) IN
       \/ /\ m.type = Snapshot
          /\ reader' = "add" /\ message' = m.data /\ pendingSnapshot' = m.data
          /\ UNCHANGED sig
       \/ /\ m.type = Change
          /\ BeginSignal("reader")
          /\ UNCHANGED <<reader, message, pendingSnapshot>>
       \/ /\ m.type = Quiet
          /\ UNCHANGED <<reader, message, pendingSnapshot, sig>>
  /\ UNCHANGED <<backend, stream, queue, grabbed, published, refreshPending, snapshotEpoch,
                 cancelFetch, canceled, token, worker, service, faults>>

\* snapshotEpoch.Add(1)
AddEpoch ==
  /\ reader = "add"
  /\ snapshotEpoch' = snapshotEpoch + 1
  /\ published' = message
  /\ reader' = "grab"
  /\ UNCHANGED <<backend, net, message, grabbed, sig, pendingSnapshot, refreshPending,
                 cancelFetch, canceled, token, worker, service, faults>>

\* cancelFetch.Load()
GrabCancel ==
  /\ reader = "grab"
  /\ grabbed' = cancelFetch
  /\ reader' = "cancel"
  /\ UNCHANGED <<backend, net, message, published, sig, shared, worker, service, faults>>

CallCancel ==
  /\ reader = "cancel"
  /\ canceled' = (canceled \/ grabbed)
  /\ grabbed' = FALSE
  /\ reader' = "send"
  /\ UNCHANGED <<backend, net, message, published, sig, pendingSnapshot, refreshPending,
                 snapshotEpoch, cancelFetch, token, worker, service, faults>>

\* Mutant: publishSnapshot leaves the wake-up to the next event.
ForgetToken ==
  /\ reader = "send"
  /\ message' = None
  /\ reader' = "read"
  /\ UNCHANGED <<backend, net, grabbed, published, sig, shared, worker, service, faults>>

SendSnapshotToken ==
  /\ reader = "send"
  /\ token' = TRUE
  /\ message' = None
  /\ reader' = "read"
  /\ UNCHANGED <<backend, net, grabbed, published, sig, pendingSnapshot, refreshPending,
                 snapshotEpoch, cancelFetch, canceled, worker, service, faults>>

\* context.AfterFunc closes the connection.
CloseStream ==
  /\ ctx /\ stream # "down"
  /\ stream' = "down" /\ queue' = <<>>
  /\ \E n \in 0..Len(wire) : wire' = SubSeq(wire, 1, n)
  /\ UNCHANGED <<backend, event, sig, shared, worker, service, faults>>

ReadFails ==
  /\ Reading /\ stream = "down" /\ wire = <<>>
  /\ reader' = "dial"
  /\ UNCHANGED <<backend, net, message, grabbed, published, sig, shared, worker, service, faults>>

ReaderReturns ==
  /\ refreshNeeded # "nil" /\ reader = "dial" /\ ctx
  /\ reader' = "done"
  /\ UNCHANGED <<backend, net, message, grabbed, published, sig, shared, worker, service, faults>>

Reader ==
  \/ Dial \/ ReadMessage \/ AddEpoch \/ GrabCancel \/ CallCancel \/ SendSnapshotToken
  \/ CloseStream \/ ReadFails \/ ReaderReturns \/ Signal("reader")

-----------------------------------------------------------------------------
(* runRefreshCoordinator *)

\* The channel delivers a token; it delivers the last one even when closed.
TakeToken ==
  /\ coord = "wait" /\ token
  /\ token' = FALSE
  /\ coord' = "load"
  /\ UNCHANGED <<backend, net, event, sig, pendingSnapshot, refreshPending, snapshotEpoch,
                 cancelFetch, canceled, epoch, snap, view, latestWorkspace, service, faults>>

CoordinatorReturns ==
  /\ coord = "wait" /\ ~token /\ refreshNeeded = "closed"
  /\ coord' = "done"
  /\ UNCHANGED <<backend, net, event, sig, shared, epoch, snap, view, latestWorkspace,
                 service, faults>>

LoadEpoch ==
  /\ coord = "load"
  /\ epoch' = snapshotEpoch
  /\ coord' = "swap"
  /\ UNCHANGED <<backend, net, event, sig, shared, snap, view, latestWorkspace, service, faults>>

\* pendingSnapshot.Swap(nil)
SwapSnapshot ==
  /\ coord = "swap"
  /\ snap' = pendingSnapshot
  /\ pendingSnapshot' = None
  /\ coord' = IF pendingSnapshot = None THEN "cas" ELSE "apply"
  /\ UNCHANGED <<backend, net, event, sig, refreshPending, snapshotEpoch, cancelFetch, canceled,
                 token, epoch, view, latestWorkspace, service, faults>>

\* applyFetchedWorkspace succeeds, or fails before latestWorkspace is set.
Install(v) ==
  \/ latestWorkspace' = v /\ UNCHANGED faults
  \/ /\ faults < MaxFaults
     /\ faults' = faults + 1
     /\ UNCHANGED latestWorkspace
  \/ ctx /\ UNCHANGED <<latestWorkspace, faults>>

ApplySnapshot ==
  /\ coord = "apply"
  /\ Install(snap)
  /\ snap' = None
  /\ coord' = "cas"
  /\ UNCHANGED <<backend, net, event, sig, shared, epoch, view, service>>

\* refreshPending.CompareAndSwap(true, false)
TakePending ==
  /\ coord = "cas"
  /\ refreshPending' = FALSE
  /\ coord' = IF refreshPending THEN "arm" ELSE "wait"
  /\ UNCHANGED <<backend, net, event, sig, pendingSnapshot, snapshotEpoch, cancelFetch, canceled,
                 token, epoch, snap, view, latestWorkspace, service, faults>>

\* cancelFetch.Store(&cancel)
ArmCancel ==
  /\ coord = "arm"
  /\ cancelFetch' = TRUE /\ canceled' = FALSE
  /\ coord' = "recheck"
  /\ UNCHANGED <<backend, net, event, sig, pendingSnapshot, refreshPending, snapshotEpoch, token,
                 epoch, snap, view, latestWorkspace, service, faults>>

\* Mutant: the fetch starts without looking at the epoch again.
FetchAnyway ==
  /\ coord = "recheck"
  /\ coord' = "fetch"
  /\ UNCHANGED <<backend, net, event, sig, shared, epoch, snap, view, latestWorkspace,
                 service, faults>>

\* A snapshot published meanwhile goes first.
Recheck ==
  /\ coord = "recheck"
  /\ IF snapshotEpoch # epoch
     THEN /\ cancelFetch' = FALSE /\ grabbed' = FALSE
          /\ refreshPending' = TRUE
          /\ coord' = "wait"
     ELSE coord' = "fetch" /\ UNCHANGED <<cancelFetch, grabbed, refreshPending>>
  /\ UNCHANGED <<backend, net, reader, message, published, sig, pendingSnapshot, snapshotEpoch,
                 canceled, token, epoch, snap, view, latestWorkspace, service, faults>>

\* GET /api/workspace: the backend reads the workspace ...
ServeFetch ==
  /\ coord = "fetch" /\ ~gone
  /\ view' = version
  /\ coord' = "served"
  /\ UNCHANGED <<backend, net, event, sig, shared, epoch, snap, latestWorkspace, service, faults>>

\* ... and the response arrives.
FetchReturns ==
  /\ coord = "served"
  /\ coord' = "check"
  /\ UNCHANGED <<backend, net, event, sig, shared, epoch, snap, view, latestWorkspace,
                 service, faults>>

\* Mutant: the fetch does not inherit the service's context.
FetchOutlivesContext ==
  /\ coord \in {"fetch", "served"} /\ canceled
  /\ view' = None
  /\ coord' = "disarm"
  /\ UNCHANGED <<backend, net, event, sig, shared, epoch, snap, latestWorkspace, service, faults>>

\* The request fails, or its context is canceled.
FetchFails ==
  /\ coord \in {"fetch", "served"}
  /\ \/ (canceled \/ ctx) /\ UNCHANGED faults
     \/ /\ faults < MaxFaults
        /\ faults' = faults + 1
  /\ view' = None
  /\ coord' = "disarm"
  /\ UNCHANGED <<backend, net, event, sig, shared, epoch, snap, latestWorkspace, service>>

\* 401, 403 or 410
FetchRefused ==
  /\ coord = "fetch" /\ gone
  /\ coord' = "refused"
  /\ UNCHANGED <<backend, net, event, sig, shared, epoch, snap, view, latestWorkspace,
                 service, faults>>

\* Mutant: the result is applied whatever was published during the fetch.
KeepStaleView ==
  /\ coord = "check"
  /\ coord' = "install"
  /\ UNCHANGED <<backend, net, event, sig, shared, epoch, snap, view, latestWorkspace,
                 service, faults>>

\* refresh, under refreshMu: a snapshot published during the fetch is newer.
CheckEpoch ==
  /\ coord = "check"
  /\ coord' = IF snapshotEpoch # epoch THEN "disarm" ELSE "install"
  /\ UNCHANGED <<backend, net, event, sig, shared, epoch, snap, view, latestWorkspace,
                 service, faults>>

InstallView ==
  /\ coord = "install"
  /\ \/ Install(view)
     \/ canceled /\ UNCHANGED <<latestWorkspace, faults>>
  /\ coord' = "disarm"
  /\ UNCHANGED <<backend, net, event, sig, shared, epoch, snap, view, service>>

\* Mutant: every failing fetch ends the coordinator.
QuitOnError ==
  /\ coord \in {"disarm", "refused"}
  /\ cancelFetch' = FALSE /\ grabbed' = FALSE
  /\ view' = None
  /\ coord' = IF view = None THEN "done" ELSE "wait"
  /\ UNCHANGED <<backend, net, reader, message, published, sig, pendingSnapshot, refreshPending,
                 snapshotEpoch, canceled, token, epoch, snap, latestWorkspace, service, faults>>

\* cancelFetch.Store(nil); a terminal error ends the coordinator and the run.
Disarm ==
  /\ coord \in {"disarm", "refused"}
  /\ cancelFetch' = FALSE /\ grabbed' = FALSE
  /\ view' = None
  /\ IF coord = "refused" /\ ~ctx
     THEN coord' = "done" /\ drained' = TRUE
     ELSE coord' = "wait" /\ UNCHANGED drained
  /\ UNCHANGED <<backend, net, reader, message, published, sig, pendingSnapshot, refreshPending,
                 snapshotEpoch, canceled, token, epoch, snap, latestWorkspace,
                 refreshNeeded, phase, ctx, faults>>

Coordinator ==
  \/ TakeToken \/ CoordinatorReturns \/ LoadEpoch \/ SwapSnapshot \/ ApplySnapshot
  \/ TakePending \/ ArmCancel \/ Recheck \/ FetchFails \/ FetchRefused \/ CheckEpoch
  \/ InstallView \/ Disarm

Fetch == ServeFetch \/ FetchReturns

-----------------------------------------------------------------------------
(* Service.run and its teardown *)

\* refreshInitialWorkspace; nothing else of the daemon runs yet.
InitialRefresh ==
  /\ phase = "initial"
  /\ IF gone \/ ctx THEN phase' = "done" /\ UNCHANGED latestWorkspace
                    ELSE phase' = "starting" /\ latestWorkspace' = version
  /\ UNCHANGED <<backend, net, event, sig, shared, coord, epoch, snap, view,
                 refreshNeeded, ctx, drained, faults>>

\* The channel is made, coordinator and event reader start.
StartLoops ==
  /\ phase = "starting"
  /\ refreshNeeded' = "open"
  /\ phase' = "running"
  /\ UNCHANGED <<backend, net, event, sig, shared, worker, ctx, drained, faults>>

\* The minute ticker fires.
Tick ==
  /\ "run" \in Tickers /\ phase = "running" /\ sig["run"] = "off"
  /\ BeginSignal("run")
  /\ UNCHANGED <<backend, net, event, shared, worker, service, faults>>

\* The heartbeat runs from before the channel is made until run stops it.
HeartbeatAlive == phase \in {"starting", "running", "stopHeartbeat"}

\* The heartbeat discovers a changed model catalog.
HeartbeatTick ==
  /\ "heartbeat" \in Tickers /\ HeartbeatAlive /\ sig["heartbeat"] = "off"
  /\ BeginSignal("heartbeat")
  /\ UNCHANGED <<backend, net, event, shared, worker, service, faults>>

\* The context of Run is canceled from outside.
CancelContext ==
  /\ MayStop /\ ~ctx
  /\ ctx' = TRUE
  /\ UNCHANGED <<backend, net, event, sig, shared, worker, refreshNeeded, phase, drained, faults>>

\* run returns: the context is done or a terminal error arrived.
LeaveRun ==
  /\ phase = "running" /\ sig["run"] = "off"
  /\ ctx \/ drained
  /\ phase' = "stopHeartbeat"
  /\ UNCHANGED <<backend, net, event, sig, shared, worker, refreshNeeded, ctx, drained, faults>>

\* The primary runtime or the tool gateway has stopped: run returns an error.
AbortRun ==
  /\ MayStop /\ phase = "running" /\ sig["run"] = "off"
  /\ phase' = "stopHeartbeat"
  /\ UNCHANGED <<backend, net, event, sig, shared, worker, refreshNeeded, ctx, drained, faults>>

\* stopHeartbeat waits for heartbeatDone, then cancelCore.
CancelCore ==
  /\ phase = "stopHeartbeat" /\ sig["heartbeat"] = "off"
  /\ phase' = "joinReader"
  /\ ctx' = TRUE
  /\ UNCHANGED <<backend, net, event, sig, shared, worker, refreshNeeded, drained, faults>>

\* Mutant: the refresh worker is joined before the event reader.
JoinWorkerFirst ==
  /\ phase = "joinReader"
  /\ phase' = "close"
  /\ UNCHANGED <<backend, net, event, sig, shared, worker, refreshNeeded, ctx, drained, faults>>

\* joinCore: first the event reader ...
JoinReader ==
  /\ phase = "joinReader" /\ reader = "done"
  /\ phase' = "close"
  /\ UNCHANGED <<backend, net, event, sig, shared, worker, refreshNeeded, ctx, drained, faults>>

\* ... then close(refreshNeeded) ...
CloseChannel ==
  /\ phase = "close"
  /\ refreshNeeded' = "closed"
  /\ phase' = "joinWorker"
  /\ UNCHANGED <<backend, net, event, sig, shared, worker, ctx, drained, faults>>

\* ... and <-refreshDone.
JoinWorker ==
  /\ phase = "joinWorker" /\ coord = "done"
  /\ phase' = "done"
  /\ UNCHANGED <<backend, net, event, sig, shared, worker, refreshNeeded, ctx, drained, faults>>

Run ==
  \/ InitialRefresh \/ StartLoops \/ LeaveRun \/ CancelCore \/ JoinReader \/ CloseChannel
  \/ JoinWorker \/ Signal("run")

Next ==
  \/ Backend \/ Reader \/ Coordinator \/ Fetch \/ Run \/ Signal("heartbeat")
  \/ Tick \/ HeartbeatTick \/ CancelContext \/ AbortRun

Spec == Init /\ [][Next]_vars

\* The backend's handlers and the daemon's goroutines keep running; the minute
\* ticker keeps firing; a select does not always prefer a tick to a done
\* context; a fetch is answered unless fetches may hang.
Fairness ==
  /\ WF_vars(Publish) /\ WF_vars(SendSnapshot) /\ WF_vars(ForwardEvent)
  /\ WF_vars(Reader) /\ WF_vars(Coordinator) /\ WF_vars(Run) /\ WF_vars(Signal("heartbeat"))
  /\ WF_vars(Tick)
  /\ SF_vars(LeaveRun) /\ SF_vars(CancelCore)
  /\ ~MayHang => WF_vars(Fetch)

FairSpec == Spec /\ Fairness

-----------------------------------------------------------------------------
(* Properties *)

Versions == Nat \cup {None}
Messages == [type : {Snapshot, Change, Quiet}, data : Versions]

\* Everything has its type.
TypeOK ==
  /\ version \in Nat /\ unpublished \in Nat /\ gone \in BOOLEAN
  /\ stream \in {"down", "subscribed", "streaming"}
  /\ queue \in Seq({Change, Quiet}) /\ wire \in Seq(Messages)
  /\ reader \in {"dial", "read", "add", "grab", "cancel", "send", "done"}
  /\ message \in Versions /\ grabbed \in BOOLEAN /\ published \in Versions
  /\ sig \in [Signalers -> {"off", "set", "send"}]
  /\ pendingSnapshot \in Versions /\ refreshPending \in BOOLEAN /\ snapshotEpoch \in Nat
  /\ cancelFetch \in BOOLEAN /\ canceled \in BOOLEAN /\ token \in BOOLEAN
  /\ coord \in {"wait", "load", "swap", "apply", "cas", "arm", "recheck", "fetch", "served",
                "refused", "check", "install", "disarm", "done"}
  /\ epoch \in Nat /\ snap \in Versions /\ view \in Versions /\ latestWorkspace \in Versions
  /\ refreshNeeded \in {"nil", "open", "closed"}
  /\ phase \in {"initial", "starting", "running", "stopHeartbeat", "joinReader", "close",
                "joinWorker", "done"}
  /\ ctx \in BOOLEAN /\ drained \in BOOLEAN
  /\ faults \in Nat

\* Nobody is left who could send on refreshNeeded once teardown has closed it;
\* a send on a closed channel would panic.
Sending == {s \in Signalers : sig[s] # "off"}
NoSendOnClosed ==
  refreshNeeded = "closed" => Sending = {} /\ reader \notin {"add", "grab", "cancel", "send"}

\* Whoever asked for work, a snapshot or a refresh, the coordinator is awake,
\* has a token waiting, or will be sent one; however the atomics interleave.
WakeupNotLost ==
  pendingSnapshot # None \/ refreshPending =>
    \/ token \/ coord # "wait"
    \/ reader \in {"add", "grab", "cancel", "send"}
    \/ \E s \in Signalers : sig[s] = "send"

\* A view that passes the epoch check is as new as every snapshot published
\* until then.
NoStaleView ==
  [][coord = "check" /\ coord' = "install" /\ published # None => view >= published]_vars

Stopping == ctx \/ drained \/ gone

\* The daemon ends up with the backend's workspace.
EventuallyFresh == <>[](latestWorkspace = version \/ Stopping)

\* A published snapshot never waits for the answer of a fetch that hangs.
SnapshotPreempts == (pendingSnapshot # None) ~> (pendingSnapshot = None \/ Stopping)

\* A stopped, drained or failing daemon joins all it started and terminates.
Terminates == (ctx \/ drained \/ phase = "stopHeartbeat") ~> (phase = "done")
==============================================================================
