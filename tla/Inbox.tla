------------------------------- MODULE Inbox -------------------------------
(***************************************************************************)
(* The agents' inbox at the backend: the event cards, view watermarks,     *)
(* subscriptions and threads that the store keeps in Postgres, and the     *)
(* operations of the store that write them (backend/internal/notty,        *)
(* store.go and store_postgres.go).                                        *)
(*                                                                         *)
(* One document of one workspace is modelled: no row of agent_events,      *)
(* agent_document_views or threads refers to two documents.  A version is  *)
(* an update id, drawn from the sequence of document_updates.  Time is     *)
(* abstract: a card is due once its available_at has passed.  Doorbells    *)
(* are left out: they make a daemon poll sooner, and change nothing else.  *)
(***************************************************************************)
EXTENDS Naturals, Sequences, FiniteSets

CONSTANTS Agents,      \* the agents of the workspace
          Human,       \* a human member
          Invited,     \* the agents that the human member may subscribe
          Intents,     \* client operation ids, one per intent of a daemon's outbox
          NoIntent,    \* the empty client operation id
          Nobody,      \* no principal
          FirstVersion,\* the document's head at the start, 0 if it is still to be made
          MaxVersion,  \* bound: update ids drawn from the sequence
          MaxMessages  \* bound: messages that no intent of an outbox posts

ASSUME InboxAssumption == /\ Human \notin Agents /\ Invited \subseteq Agents
                          /\ Nobody \notin Agents \cup {Human}
                          /\ NoIntent \notin Intents
                          /\ MaxVersion \in Nat /\ FirstVersion \in 0..MaxVersion
                          /\ MaxMessages \in Nat

VARIABLES
  seq,        \* the last update id drawn from the sequence
  saved,      \* document_heads.update_id, 0 before the document exists
  head,       \* the store's own Document.UpdateID
  unsaved,    \* pendingDocumentEvents that a failed persist left in memory
  announcing, \* who created the document, while its cards are still to be written
  subs,       \* agent_document_subscriptions
  view,       \* agent_document_views.update_id, 0 when there is no row
  cards,      \* agent_events
  finishing,  \* watermarks still to be set by requests that finished a card
  threads,    \* threads and thread_participants
  said        \* thread_messages, in the order of their creation

storeVars == <<seq, saved, head, unsaved, announcing, subs, view, cards,
               finishing, threads, said>>

Principals == Agents \cup {Human}

(***************************************************************************)
(* Cards.  The dedup key of a card is its kind, its agent and what it is   *)
(* on: a thread, a message of a thread, or the document.                   *)
(***************************************************************************)
Versions == 0..MaxVersion

DocumentKinds == {"document.created", "document.updated"}
MessageKinds  == {"thread.mentioned", "thread.replied"}
Kinds == DocumentKinds \cup MessageKinds
           \cup {"subscription.added", "thread.created", "thread.watched"}

\* Completed and dismissed cards are treated alike: both are finished.  No
\* client of the repository claims cards, which would put them in processing.
Statuses == {"pending", "finished"}

\* A card that waits becomes due with time; a due card may slide back.
Times == {"waiting", "due", "again"}

Keys == [kind : Kinds, agent : Agents, thread : Nat, message : Nat]

Cards == [key : Keys, status : Statuses, to : Versions, time : Times]

Key(kind, a, t, m) == [kind |-> kind, agent |-> a, thread |-> t, message |-> m]

Box(kind) == IF kind \in MessageKinds \cup {"subscription.added"}
             THEN "for_me" ELSE "general"

\* Recurring streams mature a quiescence window after their last event.
Sliding(kind) == kind \in {"document.updated", "thread.watched"}

\* A card before it has a row: its key and the version it leads to.
Draft(key, to) == [key |-> key, to |-> to]

Active(c) == c.status # "finished"

ActiveRows(rows, key) == {c \in rows : c.key = key /\ Active(c)}

Fresh(d) ==
  [key |-> d.key, status |-> "pending", to |-> d.to,
   time |-> IF Sliding(d.key.kind) THEN "waiting" ELSE "due"]

\* The row keeps its id and its status, spans both, and slides.
Merged(c, d) ==
  [c EXCEPT !.to   = IF d.to > c.to THEN d.to ELSE c.to,
            !.time = IF Sliding(d.key.kind) /\ c.time = "due" THEN "again" ELSE c.time]

\* ON CONFLICT on the active dedup key DO NOTHING.
Insert(rows, drafts) ==
  rows \cup {Fresh(d) : d \in {e \in drafts : ActiveRows(rows, e.key) = {}}}

\* ON CONFLICT on the active dedup key DO UPDATE.
Upsert(rows, drafts) ==
  LET hit(c) == {d \in drafts : d.key = c.key /\ Active(c)}
  IN  {c \in rows : hit(c) = {}}
        \cup {Merged(c, CHOOSE d \in hit(c) : TRUE) : c \in {e \in rows : hit(e) # {}}}
        \cup (Insert(rows, drafts) \ rows)

Init ==
  /\ seq = FirstVersion /\ saved = FirstVersion /\ head = FirstVersion
  /\ unsaved = 0
  /\ announcing = Nobody
  /\ subs = {}
  /\ view = [a \in Agents |-> FirstVersion]
  /\ cards = {}
  /\ finishing = {}
  /\ threads = <<>> /\ said = <<>>

(***************************************************************************)
(* The document: creation, edits, and edits whose transaction fails.       *)
(***************************************************************************)

\* The document commits first; its cards are written afterwards.
CreateDocument(p) ==
  /\ saved = 0 /\ head = 0 /\ seq < MaxVersion
  /\ seq' = seq + 1 /\ saved' = seq + 1 /\ head' = seq + 1
  /\ announcing' = p
  /\ UNCHANGED <<unsaved, subs, view, cards, finishing, threads, said>>

\* Every agent but the creator gets an instant card; a failed write skips one.
AnnounceDocument ==
  /\ announcing # Nobody
  /\ \E reached \in SUBSET (Agents \ {announcing}) :
       cards' = Upsert(cards, {Draft(Key("document.created", a, 0, 0), head)
                                 : a \in reached})
  /\ announcing' = Nobody
  /\ UNCHANGED <<seq, saved, head, unsaved, subs, view, finishing, threads, said>>

\* Subscribers who did not make the edit and have not viewed it.
Notified(p, v) == {a \in subs \ {p} : view[a] < v}

NextAfterHead == head + unsaved + 1 \* mutant: counts from the store's head

\* The update id the records of one persist end with.
NextVersion == seq + unsaved + 1

Edit(p) ==
  /\ saved > 0 /\ announcing = Nobody
  /\ NextVersion <= MaxVersion
  /\ seq' = NextVersion /\ saved' = NextVersion /\ head' = NextVersion
  /\ unsaved' = 0
  /\ cards' = Upsert(cards, {Draft(Key("document.updated", a, 0, 0), NextVersion)
                               : a \in Notified(p, NextVersion)})
  /\ UNCHANGED <<announcing, subs, view, finishing, threads, said>>

\* The transaction rolls back, before, while or after the records of the persist
\* were given ids.  The update stays pending in memory, and so may the head,
\* which is set once all ids are drawn.
EditFails ==
  /\ saved > 0 /\ announcing = Nobody
  /\ NextVersion < MaxVersion
  /\ unsaved' = unsaved + 1
  /\ seq' \in seq..NextVersion
  /\ \/ head' = head
     \/ seq' = NextVersion /\ head' = NextVersion
  /\ UNCHANGED <<saved, announcing, subs, view, cards, finishing, threads, said>>

(***************************************************************************)
(* Subscriptions.                                                          *)
(***************************************************************************)
Subscribe(a, p) ==
  /\ saved > 0 /\ a \notin subs
  /\ p = Human => a \in Invited
  /\ subs' = subs \cup {a}
  /\ cards' = IF p = Human
              THEN Upsert(cards, {Draft(Key("subscription.added", a, 0, 0), 0)})
              ELSE cards
  /\ UNCHANGED <<seq, saved, head, unsaved, announcing, view, finishing, threads, said>>

Unsubscribe(a) ==
  /\ a \in subs
  /\ subs' = subs \ {a}
  /\ UNCHANGED <<seq, saved, head, unsaved, announcing, view, cards, finishing,
                 threads, said>>

(***************************************************************************)
(* Threads.                                                                *)
(***************************************************************************)
Message(t, p, mentions) == [thread |-> t, by |-> p, mentions |-> mentions]

ThreadsOf(p, op) == {t \in DOMAIN threads : threads[t].by = p /\ threads[t].op = op}

Mentioned(msg) == (msg.mentions \cap Agents) \ {msg.by}

MentionDrafts(t, m, msg) ==
  {Draft(Key("thread.mentioned", a, t, m), 0) : a \in Mentioned(msg)}

CreatedDrafts(t, msg) ==
  {Draft(Key("thread.created", a, t, 0), 0) : a \in subs \ ({msg.by} \cup Mentioned(msg))}

ReplyToAll(t, m, msg, members) == \* mutant: also to those it mentions
  {Draft(Key("thread.replied", a, t, m), 0) : a \in (members \cap Agents) \ {msg.by}}

ReplyDrafts(t, m, msg, members) ==
  {Draft(Key("thread.replied", a, t, m), 0)
     : a \in (members \cap Agents) \ ({msg.by} \cup msg.mentions)}

WatchDrafts(t, msg, members) ==
  {Draft(Key("thread.watched", a, t, 0), 0) : a \in subs \ (members \cup {msg.by})}

RepeatedNever(p, op) == FALSE \* mutant: no unique client operation id

\* A repeated client operation id of the same author creates nothing.
Repeated(p, op) == op # NoIntent /\ ThreadsOf(p, op) # {}

CreateThread(p, op, mentions) ==
  LET t   == Len(threads) + 1
      m   == Len(said) + 1
      msg == Message(t, p, mentions)
  IN  /\ saved > 0
      /\ IF Repeated(p, op)
         THEN UNCHANGED <<threads, said, cards>>
         ELSE /\ threads' = Append(threads, [by |-> p, op |-> op,
                                             members |-> {p} \cup mentions])
              /\ said' = Append(said, msg)
              /\ cards' = Insert(cards, MentionDrafts(t, m, msg) \cup CreatedDrafts(t, msg))
      /\ UNCHANGED <<seq, saved, head, unsaved, announcing, subs, view, finishing>>

ReplyThread(t, p, mentions) ==
  LET m       == Len(said) + 1
      msg     == Message(t, p, mentions)
      members == threads[t].members \cup {p} \cup mentions
      direct  == MentionDrafts(t, m, msg) \cup ReplyDrafts(t, m, msg, members)
  IN  /\ threads' = [threads EXCEPT ![t].members = members]
      /\ said' = Append(said, msg)
      /\ cards' = Upsert(Insert(cards, direct), WatchDrafts(t, msg, members))
      /\ UNCHANGED <<seq, saved, head, unsaved, announcing, subs, view, finishing>>

(***************************************************************************)
(* Reading and finishing cards.                                            *)
(***************************************************************************)
OfDocument(c) == c.key.kind \in DocumentKinds

\* Rows an inbox listing with status=pending returns.
Listed(a, box) == {c \in cards : /\ c.key.agent = a /\ Box(c.key.kind) = box
                                 /\ c.status = "pending" /\ c.time = "due"}

HandledOnce(a) == \* mutant: whatever version the card led to
  \E c \in cards : c.key.agent = a /\ OfDocument(c) /\ ~Active(c)

\* A finished document card that spans the head silences the gap.  (The query
\* also takes a finished card without a version; document cards carry an id.)
Handled(a) == \E c \in cards : /\ c.key.agent = a /\ OfDocument(c)
                               /\ ~Active(c) /\ c.to >= head

\* The gap between an agent's watermark and the head is an item of its own,
\* computed at each listing, unless a listed document card shows it already.
GapBox(a) == IF a \in subs THEN "general" ELSE "muted"

GapListed(a, box) ==
  /\ head > 0 /\ view[a] < head /\ ~Handled(a)
  /\ GapBox(a) = box
  /\ \A c \in Listed(a, box) : ~OfDocument(c)

\* An update id of zero, or one past the head, means the head.
Watermark(v) == IF v = 0 \/ v > head THEN head ELSE v

MarkViewed(a, v) ==
  /\ view' = [view EXCEPT ![a] = Watermark(v)]
  /\ cards' = {IF c.key.agent = a /\ OfDocument(c) /\ Active(c) /\ c.to <= Watermark(v)
               THEN [c EXCEPT !.status = "finished"] ELSE c : c \in cards}

\* The request may name the version that was viewed; the daemon names none.
MarkDocumentViewed(a, v) ==
  /\ head > 0
  /\ MarkViewed(a, v)
  /\ UNCHANGED <<seq, saved, head, unsaved, announcing, subs, finishing, threads, said>>

UpdateSwapped(c) == \* mutant: the watermark's arguments are swapped
  /\ c \in cards
  /\ cards' = (cards \ {c}) \cup {[c EXCEPT !.status = "finished"]}
  /\ finishing' = IF OfDocument(c) THEN finishing \cup {<<c.to, c.key.agent>>} ELSE finishing
  /\ UNCHANGED <<seq, saved, head, unsaved, announcing, subs, view, threads, said>>

\* The status commits first; the watermark of a document card comes after.
UpdateAgentEvent(c) ==
  /\ c \in cards
  /\ cards' = (cards \ {c}) \cup {[c EXCEPT !.status = "finished"]}
  /\ finishing' = IF OfDocument(c)
                  THEN finishing \cup {<<c.key.agent, c.to>>} ELSE finishing
  /\ UNCHANGED <<seq, saved, head, unsaved, announcing, subs, view, threads, said>>

FinishView ==
  \E f \in finishing :
    /\ MarkViewed(f[1], f[2])
    /\ finishing' = finishing \ {f}
    /\ UNCHANGED <<seq, saved, head, unsaved, announcing, subs, threads, said>>

(***************************************************************************)
(* Time and restarts.                                                      *)
(***************************************************************************)
Mature(c) ==
  /\ c \in cards /\ c.time # "due" /\ Active(c)
  /\ cards' = (cards \ {c}) \cup {[c EXCEPT !.time = "due"]}
  /\ UNCHANGED <<seq, saved, head, unsaved, announcing, subs, view, finishing,
                 threads, said>>

\* Memory is lost: pending updates, cards still to be written and the second
\* half of the requests being served.
RestartBackend ==
  /\ head' = saved /\ unsaved' = 0
  /\ announcing' = Nobody
  /\ finishing' = {}
  /\ <<head', unsaved', announcing', finishing'>> # <<head, unsaved, announcing, finishing>>
  /\ UNCHANGED <<seq, saved, subs, view, cards, threads, said>>
=============================================================================
