--------------------------- MODULE ThreadDelivery ---------------------------
(***************************************************************************)
(* A daemon between its agents and the inbox: the outbox of queued threads *)
(* with its delivery loop (daemon/internal/syncer, thread_outbox.go,       *)
(* thread_materialization.go, thread_delivery.go), the poll that hands     *)
(* listed items to an agent's session (automation.go) and the inbox tools  *)
(* of an agent's run (agent_tools.go), composed with the store of Inbox.   *)
(***************************************************************************)
EXTENDS Inbox

CONSTANTS IntentAgent, \* the agent whose run queued an intent
          Anchored     \* the intents queued with relative anchors

ASSUME IntentAssumption == IntentAgent \in [Intents -> Agents] /\ Anchored \subseteq Intents

VARIABLES
  outbox,  \* thread_outbox: the status of each intent's row
  waiting, \* the intent whose request the delivery loop waits for
  late,    \* intents of which a request nobody waits for may still arrive
  known,   \* the daemon's cache has content of the document (applied_seq > 0)
  heard,   \* the newest version a listing has shown to each agent
  closed   \* the newest version each agent's own requests were to finish or view

daemonVars == <<outbox, waiting, late, known, heard, closed>>
vars == <<storeVars, daemonVars>>

\* unused: not queued yet; posted: the row is deleted after a 2xx.
OutboxStatuses == {"unused", "pending", "ready", "failed", "posted"}

InitAll ==
  /\ Init
  /\ outbox = [k \in Intents |-> "unused"]
  /\ waiting = NoIntent
  /\ late = {}
  /\ known = FALSE
  /\ heard = [a \in Agents |-> 0]
  /\ closed = [a \in Agents |-> 0]

(***************************************************************************)
(* The outbox.  A queued intent waits for the document's content, is given *)
(* anchors in it, and is then posted until the backend answers for good.   *)
(***************************************************************************)
QueueThreadCreate(k) ==
  /\ saved > 0 /\ outbox[k] = "unused"
  /\ outbox' = [outbox EXCEPT ![k] = "pending"]
  /\ UNCHANGED <<storeVars, waiting, late, known, heard, closed>>

\* The first content of the document is applied to the daemon's cache; only
\* intents ask whether it was.
LearnContent ==
  /\ saved > 0 /\ ~known
  /\ known' = TRUE
  /\ UNCHANGED <<storeVars, outbox, waiting, late, heard, closed>>

\* Anchors are found in the content or the intent fails; an intent with
\* relative anchors does not wait for the content.
Materialize(k) ==
  /\ outbox[k] = "pending" /\ (known \/ k \in Anchored)
  /\ \E status \in {"ready", "failed"} : outbox' = [outbox EXCEPT ![k] = status]
  /\ UNCHANGED <<storeVars, waiting, late, known, heard, closed>>

\* A due intent is posted; its idempotency key is its own id.
SendThreadIntent(k) ==
  /\ outbox[k] = "ready" /\ waiting = NoIntent
  /\ waiting' = k
  /\ UNCHANGED <<storeVars, outbox, late, known, heard, closed>>

SettledByAny(answer) == \* mutant: every answer deletes the row
  IF answer = "created" THEN "posted" ELSE "unused"

\* What the loop does with an answer: 2xx deletes the row; 408, 425, 429, 5xx
\* and no answer leave it ready for a later attempt; any other status fails it.
Settled(answer) == CASE answer = "created" -> "posted"
                     [] answer = "refused" -> "failed"
                     [] OTHER              -> "ready"

Answered(k, answer) ==
  /\ outbox' = [outbox EXCEPT ![k] = Settled(answer)]
  /\ waiting' = NoIntent
  /\ UNCHANGED <<late, known, heard, closed>>

\* The backend serves the request; its answer arrives or is lost.
ServeThreadIntent(k) ==
  /\ waiting = k
  /\ \E mentions \in SUBSET Agents : CreateThread(IntentAgent[k], k, mentions)
  /\ \E answer \in {"created", "lost"} : Answered(k, answer)

\* The request is refused, or does not get through and the loop gives up on
\* it; in the last case it may still reach the backend.
RefuseThreadIntent(k) ==
  /\ waiting = k
  /\ \E answer \in {"refused", "unavailable"} : Answered(k, answer)
  /\ UNCHANGED storeVars

AbandonThreadIntent(k) ==
  /\ waiting = k
  /\ outbox' = [outbox EXCEPT ![k] = Settled("lost")]
  /\ waiting' = NoIntent
  /\ late' = late \cup {k}
  /\ UNCHANGED <<storeVars, known, heard, closed>>

ServeLate(k) ==
  /\ k \in late
  /\ \E mentions \in SUBSET Agents : CreateThread(IntentAgent[k], k, mentions)
  /\ late' = late \ {k}
  /\ UNCHANGED <<outbox, waiting, known, heard, closed>>

LoseLate(k) ==
  /\ k \in late
  /\ late' = late \ {k}
  /\ UNCHANGED <<storeVars, outbox, waiting, known, heard, closed>>

\* The outbox survives; the loop and its request do not.
RestartDaemon ==
  /\ waiting # NoIntent
  /\ waiting' = NoIntent
  /\ \E arrives \in BOOLEAN : late' = IF arrives THEN late \cup {waiting} ELSE late
  /\ UNCHANGED <<storeVars, outbox, known, heard, closed>>

(***************************************************************************)
(* The poll lists the boxes that are pushed.                               *)
(***************************************************************************)
Pushed == {"for_me", "general"}

PushedCards(a) == UNION {Listed(a, box) : box \in Pushed}

GapPushed(a) == \E box \in Pushed : GapListed(a, box)

PushedVersions(a) == {c.to : c \in {e \in PushedCards(a) : OfDocument(e)}}
                       \cup (IF GapPushed(a) THEN {head} ELSE {})

Newest(S, v) == CHOOSE w \in S \cup {v} : \A x \in S \cup {v} : x <= w

PollInbox(a) ==
  /\ heard' = [heard EXCEPT ![a] = Newest(PushedVersions(a), heard[a])]
  /\ UNCHANGED <<storeVars, outbox, waiting, late, known, closed>>

Closing(a, v) == [closed EXCEPT ![a] = Newest({v}, closed[a])]

\* The agent completes or dismisses an item that a listing has shown to it,
\* now or before it slid, in whatever state the row is by now.
FinishItem(a) ==
  \E c \in cards :
    /\ c.key.agent = a /\ c.time # "waiting"
    /\ UpdateAgentEvent(c)
    /\ closed' = IF OfDocument(c) THEN Closing(a, c.to) ELSE closed
    /\ UNCHANGED <<outbox, waiting, late, known, heard>>

\* A gap has no row: finishing it, as mark-document-viewed, views the head.
ViewDocument(a) ==
  /\ heard[a] > 0
  /\ \E v \in Versions : MarkDocumentViewed(a, v) /\ closed' = Closing(a, Watermark(v))
  /\ UNCHANGED <<outbox, waiting, late, known, heard>>

(***************************************************************************)
(* The store's lock is held from the creation of the document until its    *)
(* cards are written.                                                      *)
(***************************************************************************)
Serving ==
  \/ \E p \in Principals : CreateDocument(p) \/ Edit(p)
  \/ EditFails
  \/ \E a \in Agents : \/ \E p \in {a, Human} : Subscribe(a, p)
                       \/ Unsubscribe(a)
  \/ \E p \in Principals, mentions \in SUBSET Agents :
       /\ Len(said) < MaxMessages + Cardinality({t \in DOMAIN threads : threads[t].op # NoIntent})
       /\ \/ CreateThread(p, NoIntent, mentions)
          \/ \E t \in DOMAIN threads : ReplyThread(t, p, mentions)
  \/ FinishView

Clock == \E c \in cards : Mature(c)

DaemonStep ==
  \/ \E k \in Intents : \/ QueueThreadCreate(k) \/ Materialize(k)
                        \/ SendThreadIntent(k) \/ ServeThreadIntent(k)
                        \/ RefuseThreadIntent(k) \/ AbandonThreadIntent(k)
                        \/ ServeLate(k) \/ LoseLate(k) \/ LearnContent
  \/ \E a \in Agents : PollInbox(a) \/ FinishItem(a) \/ ViewDocument(a)

Next ==
  \/ announcing = Nobody /\ Serving /\ UNCHANGED daemonVars
  \/ announcing = Nobody /\ DaemonStep
  \/ AnnounceDocument /\ UNCHANGED daemonVars
  \/ RestartBackend /\ UNCHANGED daemonVars
  \/ RestartDaemon
  \/ Clock /\ UNCHANGED daemonVars

(***************************************************************************)
(* Fairness: the daemon polls each agent's inbox at every refresh, its     *)
(* delivery loop runs at least every half minute, a pass of the document's *)
(* synchronisation materialises its intents, the content of a document     *)
(* arrives, requests are served, time passes, and of infinitely many posts *)
(* some are served and answered.                                           *)
(***************************************************************************)
Fairness ==
  /\ \A a \in Agents : WF_vars(announcing = Nobody /\ PollInbox(a))
  /\ \A k \in Intents : /\ WF_vars(announcing = Nobody /\ LearnContent)
                        /\ WF_vars(announcing = Nobody /\ Materialize(k))
                        /\ WF_vars(announcing = Nobody /\ SendThreadIntent(k))
                        /\ SF_vars(announcing = Nobody /\ ServeThreadIntent(k) /\ outbox'[k] = "posted")
                        /\ WF_vars(waiting = k /\ waiting' = NoIntent /\ Next)
  /\ WF_vars(AnnounceDocument /\ UNCHANGED daemonVars)
  /\ WF_vars(Clock /\ UNCHANGED daemonVars)

Spec     == InitAll /\ [][Next]_vars
FairSpec == Spec /\ Fairness

(***************************************************************************)
(* Properties.                                                             *)
(***************************************************************************)
ThreadRows  == [by : Principals, op : Intents \cup {NoIntent}, members : SUBSET Principals]
MessageRows == [thread : Nat, by : Principals, mentions : SUBSET Principals]

\* Every variable has its type (the tables of store_postgres.go and the rows of
\* thread_outbox).
TypeOK ==
  /\ seq \in Versions /\ saved \in Versions /\ head \in Versions /\ unsaved \in Nat
  /\ announcing \in Principals \cup {Nobody}
  /\ subs \subseteq Agents
  /\ view \in [Agents -> Versions]
  /\ cards \subseteq Cards
  /\ finishing \subseteq Agents \X Versions
  /\ threads \in Seq(ThreadRows) /\ said \in Seq(MessageRows)
  /\ outbox \in [Intents -> OutboxStatuses]
  /\ waiting \in Intents \cup {NoIntent}
  /\ late \subseteq Intents
  /\ known \in BOOLEAN
  /\ heard \in [Agents -> Versions] /\ closed \in [Agents -> Versions]

\* A queued thread is created at most once, and its row leaves the outbox as
\* posted only when its thread exists: lost answers, abandoned requests that
\* arrive late, retries and restarts neither repeat nor drop it
\* (deliverThreadIntent with createThreadPostgres).
PostedOnce ==
  \A k \in Intents :
    /\ \A t, u \in DOMAIN threads : threads[t].op = k /\ threads[u].op = k => t = u
    /\ outbox[k] = "posted" => \E t \in DOMAIN threads : threads[t].op = k

\* Everyone a message mentions, or who wrote or was mentioned in its thread
\* before it, but its author.
Audience(m) ==
  {a \in Agents \ {said[m].by} :
     \/ a \in said[m].mentions
     \/ \E i \in 1..(m - 1) : /\ said[i].thread = said[m].thread
                              /\ a \in said[i].mentions \cup {said[i].by}}

CardsOn(a, m) == {c \in cards : /\ c.key.kind \in MessageKinds
                                /\ c.key.agent = a /\ c.key.message = m}

\* A message reaches each agent of its thread in exactly one card, and nobody
\* else: a mention stands in for the reply card, an author is not told of its
\* own message, and no retry adds a second card (collectThread*EventsPostgres).
MessageCardedOnce ==
  \A m \in DOMAIN said, a \in Agents :
    /\ a \in Audience(m) <=> CardsOn(a, m) # {}
    /\ \A c, d \in CardsOn(a, m) : c = d

\* No agent has viewed or finished a version that the next edit could still be
\* given, not even after a failed persist and a restart put the store's head
\* back: every later edit is news to every agent (persistDocumentsPostgresLocked
\* and MarkDocumentViewed).
EditsStayNews ==
  \A a \in Agents : /\ view[a] < NextVersion
                    /\ \A c \in cards : c.key.agent = a /\ OfDocument(c) => c.to < NextVersion

\* A queued thread is eventually posted or reported failed.
IntentSettled == \A k \in Intents : outbox[k] = "pending" ~> outbox[k] \in {"posted", "failed"}

SilencedAt(a, v) == view[a] >= v \/ \E c \in cards : /\ c.key.agent = a /\ OfDocument(c)
                                                     /\ ~Active(c) /\ c.to >= v

CardTo(a, v) == \E c \in cards : /\ c.key = Key("document.updated", a, 0, 0)
                                  /\ Active(c) /\ c.to = v

\* The agent has a document card before it; finishing it brings up the gap.
CardShown(a) == \E c \in PushedCards(a) : OfDocument(c)

\* A saved version that is news to a subscriber is eventually shown to it, or a
\* card of the document is, unless the subscription ends or the agent itself
\* finishes a card that reaches the version, or views the document at it; a
\* version it has a card for is shown whether or not the subscription ends.
\* Only the agent's own requests take a version out of its sight: no crash
\* between the halves of one, no watermark that a late one moves back and no
\* finished card of an earlier version does.  A request to finish a card takes
\* the card as it is by then, with what was merged into it since it was shown
\* (computedDocumentInboxLocked with upsertDocumentInboxEventPostgres).
EditHeard ==
  \A a \in Agents, v \in 1..MaxVersion :
    /\ (a \in subs /\ saved = v /\ ~SilencedAt(a, v))
         ~> (a \notin subs \/ heard[a] >= v \/ closed[a] >= v \/ CardShown(a))
    /\ CardTo(a, v) ~> (heard[a] >= v \/ closed[a] >= v)
=============================================================================
