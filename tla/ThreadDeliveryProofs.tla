------------------------ MODULE ThreadDeliveryProofs ------------------------
(***************************************************************************)
(* Proofs about ThreadDelivery, for any sets of agents and intents and any *)
(* number of versions and messages.  The inductive invariant says that no  *)
(* row leads past the sequence of update ids (Behind), whose an intent's   *)
(* thread is (Posting), that the members of a thread are those who spoke   *)
(* or were mentioned in it (Talk), and which message cards there are, by   *)
(* their dedup keys (Carded).                                              *)
(***************************************************************************)
EXTENDS ThreadDelivery, SequenceTheorems, WellFoundedInduction, TLAPS

Drafts == [key : Keys, to : Versions]

(* No watermark, card or request in service is past the sequence. *)
Behind ==
  /\ saved <= seq /\ head <= seq
  /\ \A a \in Agents : view[a] <= seq
  /\ \A c \in cards : c.to <= seq
  /\ \A f \in finishing : f[2] <= seq

(* The thread of an intent is its agent's, and there is one. *)
Posting ==
  /\ \A t \in DOMAIN threads : threads[t].op # NoIntent => threads[t].by = IntentAgent[threads[t].op]
  /\ PostedOnce

(* Who belongs to a thread. *)
Speaks(x, msg) == x \in msg.mentions \cup {msg.by}

Talk ==
  /\ \A i \in DOMAIN said : said[i].thread \in DOMAIN threads
  /\ \A t \in DOMAIN threads, x \in Principals :
       x \in threads[t].members <=> \E i \in DOMAIN said : said[i].thread = t /\ Speaks(x, said[i])

(* The message cards, by their keys. *)
Has(rows, key) == \E c \in rows : c.key = key

OneRow(rows) ==
  \A c, d \in rows : c.key.kind \in MessageKinds /\ c.key = d.key => c = d

MessageKey(a, m) ==
  Key(IF a \in said[m].mentions THEN "thread.mentioned" ELSE "thread.replied", a,
      said[m].thread, m)

RightKey(key) ==
  \E m \in DOMAIN said : \E a \in Audience(m) : key = MessageKey(a, m)

Carded ==
  /\ OneRow(cards)
  /\ \A key \in Keys : key.kind \in MessageKinds => (Has(cards, key) <=> RightKey(key))

IInv == TypeOK /\ Behind /\ Posting /\ Talk /\ Carded

\* ------------------------------------------------------------ rows of cards

LEMMA DraftIs ==
  ASSUME NEW key \in Keys, NEW to \in Versions
  PROVE  Draft(key, to) \in Drafts /\ Draft(key, to).key = key /\ Draft(key, to).to = to
BY DEF Draft, Drafts

LEMMA KeyIs ==
  ASSUME NEW kind \in Kinds, NEW a \in Agents, NEW t \in Nat, NEW m \in Nat
  PROVE  /\ Key(kind, a, t, m) \in Keys /\ Key(kind, a, t, m).kind = kind
         /\ Key(kind, a, t, m).agent = a /\ Key(kind, a, t, m).message = m
         /\ Key(kind, a, t, m).thread = t
BY DEF Key, Keys

LEMMA FreshIs ==
  ASSUME NEW d \in Drafts
  PROVE  Fresh(d) \in Cards /\ Fresh(d).key = d.key /\ Fresh(d).to = d.to
BY DEF Fresh, Drafts, Cards, Statuses, Times

LEMMA MergedIs ==
  ASSUME NEW c \in Cards, NEW d \in Drafts
  PROVE  /\ Merged(c, d) \in Cards /\ Merged(c, d).key = c.key
         /\ Merged(c, d).to \in {c.to, d.to}
BY DEF Merged, Drafts, Cards, Statuses, Times

LEMMA FinishedIs ==
  ASSUME NEW c \in Cards
  PROVE  /\ [c EXCEPT !.status = "finished"] \in Cards
         /\ [c EXCEPT !.status = "finished"].key = c.key
         /\ [c EXCEPT !.status = "finished"].to = c.to
BY DEF Cards, Statuses

LEMMA DueIs ==
  ASSUME NEW c \in Cards
  PROVE  /\ [c EXCEPT !.time = "due"] \in Cards
         /\ [c EXCEPT !.time = "due"].key = c.key
         /\ [c EXCEPT !.time = "due"].to = c.to
BY DEF Cards, Times

\* What is inserted: the drafts whose key no active row has.
LEMMA Inserted ==
  ASSUME NEW rows, rows \subseteq Cards, NEW drafts, drafts \subseteq Drafts, NEW n \in Nat,
         \A c \in rows : c.to <= n, \A d \in drafts : d.to <= n
  PROVE  Insert(rows, drafts) \subseteq Cards /\ \A c \in Insert(rows, drafts) : c.to <= n
<1> SUFFICES ASSUME NEW c \in Insert(rows, drafts) PROVE c \in Cards /\ c.to <= n
  OBVIOUS
<1>1. CASE c \in rows
  BY <1>1
<1>2. ASSUME NEW d \in drafts, c = Fresh(d) PROVE c \in Cards /\ c.to <= n
  BY <1>2, FreshIs
<1> QED
  BY <1>1, <1>2 DEF Insert

\* Message cards are always new.
LEMMA InsertedKeys ==
  ASSUME NEW rows, rows \subseteq Cards, NEW drafts, drafts \subseteq Drafts, OneRow(rows),
         \A d \in drafts : d.key.kind \in MessageKinds => ~Has(rows, d.key),
         \A d, e \in drafts : d.key = e.key => d = e
  PROVE  /\ OneRow(Insert(rows, drafts))
         /\ \A key \in Keys : key.kind \in MessageKinds =>
              (Has(Insert(rows, drafts), key) <=> Has(rows, key) \/ Has(drafts, key))
<1> DEFINE new == Insert(rows, drafts)
<1>1. \A c \in new : c \in rows \/ \E d \in drafts : c = Fresh(d) /\ c.key = d.key
  BY FreshIs DEF Insert
<1>2. rows \subseteq new
  BY DEF Insert
<1>3. ASSUME NEW d \in drafts, d.key.kind \in MessageKinds PROVE Fresh(d) \in new
  BY <1>3 DEF Insert, ActiveRows, Has
<1>4. ASSUME NEW c \in new, NEW d \in new, c.key.kind \in MessageKinds, c.key = d.key
      PROVE  c = d
  BY <1>1, <1>4 DEF OneRow, Has
<1>5. ASSUME NEW key \in Keys, key.kind \in MessageKinds, Has(new, key)
      PROVE  Has(rows, key) \/ Has(drafts, key)
  BY <1>1, <1>5 DEF Has
<1>6. ASSUME NEW key \in Keys, key.kind \in MessageKinds, Has(rows, key) \/ Has(drafts, key)
      PROVE  Has(new, key)
  BY <1>2, <1>3, <1>6, FreshIs DEF Has
<1> QED
  BY <1>4, <1>5, <1>6 DEF OneRow

\* The rows of an upsert, each with where it comes from.
LEMMA UpsertFrom ==
  ASSUME NEW rows, rows \subseteq Cards, NEW drafts, drafts \subseteq Drafts,
         NEW c \in Upsert(rows, drafts)
  PROVE  \/ c \in rows /\ ~\E d \in drafts : d.key = c.key /\ Active(c)
         \/ \E e \in rows, d \in drafts : d.key = e.key /\ c = Merged(e, d)
         \/ c \in Insert(rows, drafts) \ rows
<1> DEFINE hit(e) == {d \in drafts : d.key = e.key /\ Active(e)}
<1>1. ASSUME NEW e \in rows, hit(e) # {}
      PROVE  (CHOOSE d \in hit(e) : TRUE) \in hit(e)
  BY <1>1
<1>2. CASE c \in {e \in rows : hit(e) = {}}
  BY <1>2
<1>3. CASE c \in {Merged(e, CHOOSE d \in hit(e) : TRUE) : e \in {f \in rows : hit(f) # {}}}
  <2>1. PICK e \in rows : hit(e) # {} /\ c = Merged(e, CHOOSE d \in hit(e) : TRUE)
    BY <1>3
  <2> QED
    BY <2>1, <1>1
<1> QED
  BY <1>2, <1>3 DEF Upsert

LEMMA Upserted ==
  ASSUME NEW rows, rows \subseteq Cards, NEW drafts, drafts \subseteq Drafts, NEW n \in Nat,
         \A c \in rows : c.to <= n, \A d \in drafts : d.to <= n
  PROVE  Upsert(rows, drafts) \subseteq Cards /\ \A c \in Upsert(rows, drafts) : c.to <= n
<1> SUFFICES ASSUME NEW c \in Upsert(rows, drafts) PROVE c \in Cards /\ c.to <= n
  OBVIOUS
<1>1. ASSUME NEW e \in rows, NEW d \in drafts, c = Merged(e, d)
      PROVE  c \in Cards /\ c.to <= n
  BY <1>1, MergedIs
<1>2. CASE c \in Insert(rows, drafts)
  BY <1>2, Inserted
<1> QED
  BY <1>1, <1>2, UpsertFrom

\* No upsert writes a message card.
LEMMA UpsertedKeys ==
  ASSUME NEW rows, rows \subseteq Cards, NEW drafts, drafts \subseteq Drafts, OneRow(rows),
         \A d \in drafts : d.key.kind \notin MessageKinds
  PROVE  /\ OneRow(Upsert(rows, drafts))
         /\ \A key \in Keys : key.kind \in MessageKinds =>
              (Has(Upsert(rows, drafts), key) <=> Has(rows, key))
<1> DEFINE new == Upsert(rows, drafts)
<1>1. ASSUME NEW c \in new, c.key.kind \in MessageKinds PROVE c \in rows
  <2>1. ASSUME NEW e \in rows, NEW d \in drafts, d.key = e.key, c = Merged(e, d) PROVE FALSE
    BY <2>1, <1>1, MergedIs
  <2>2. ASSUME c \in Insert(rows, drafts) \ rows PROVE FALSE
    <3>1. PICK d \in drafts : c = Fresh(d)
      BY <2>2 DEF Insert
    <3> QED
      BY <3>1, <1>1, FreshIs
  <2> QED
    BY <2>1, <2>2, UpsertFrom
<1>2. ASSUME NEW c \in rows, c.key.kind \in MessageKinds PROVE c \in new
  BY <1>2 DEF Upsert
<1> QED
  BY <1>1, <1>2 DEF OneRow, Has
\* A rewriting of rows that keeps keys and versions.
LEMMA Rewritten ==
  ASSUME NEW rows, rows \subseteq Cards, OneRow(rows), NEW n \in Nat, \A c \in rows : c.to <= n,
         NEW f, \A c \in rows : f[c] \in Cards /\ f[c].key = c.key /\ f[c].to = c.to,
         NEW new, \A x : x \in new <=> \E c \in rows : x = f[c]
  PROVE  /\ new \subseteq Cards /\ OneRow(new) /\ \A c \in new : c.to <= n
         /\ \A key \in Keys : Has(new, key) <=> Has(rows, key)
BY DEF OneRow, Has

LEMMA Largest ==
  ASSUME NEW S, S \subseteq Versions, NEW v \in Versions
  PROVE  Newest(S, v) \in S \cup {v}
<1> USE InboxAssumption
<1> DEFINE T == S \cup {v}
           U == {MaxVersion - x : x \in T}
<1>1. T \subseteq Nat /\ \A x \in T : x <= MaxVersion
  BY DEF Versions
<1>2. U \subseteq Nat /\ U # {}
  BY <1>1
<1>3. \E x \in U : \A y \in U : ~(<<y, x>> \in OpToRel(<, Nat))
  BY <1>2, NatLessThanWellFounded, WFMin
<1>4. PICK x \in U : \A y \in U : ~(y < x)
  BY <1>2, <1>3 DEF OpToRel
<1>5. PICK w \in T : x = MaxVersion - w
  BY <1>4
<1>6. ASSUME NEW z \in T PROVE z <= w
  <2>1. ~(MaxVersion - z < MaxVersion - w)
    BY <1>4, <1>5
  <2> QED
    BY <2>1, <1>1
<1>7. \E u \in T : \A z \in T : z <= u
  BY <1>6
<1> QED
  BY <1>7 DEF Newest

\* ------------------------------------------------------------------- frames

LEMMA TalkFrame ==
  ASSUME Talk, UNCHANGED <<threads, said>>
  PROVE  Talk'
BY DEF Talk

LEMMA PostingFrame ==
  ASSUME Posting, UNCHANGED threads,
         \A k \in Intents : outbox'[k] = "posted"
           => outbox[k] = "posted" \/ \E t \in DOMAIN threads : threads[t].op = k
  PROVE  Posting'
BY DEF Posting, PostedOnce

LEMMA CardedFrame ==
  ASSUME Carded, UNCHANGED said, OneRow(cards'),
         \A key \in Keys : key.kind \in MessageKinds => (Has(cards', key) <=> Has(cards, key))
  PROVE  Carded'
<1>1. \A key \in Keys : RightKey(key)' <=> RightKey(key)
  BY DEF RightKey, Audience, MessageKey
<1>2. \A key \in Keys : Has(cards, key)' <=> Has(cards', key)
  BY DEF Has
<1>3. OneRow(cards)' <=> OneRow(cards')
  BY DEF OneRow
<1> QED
  BY <1>1, <1>2, <1>3 DEF Carded

LEMMA CardedSame ==
  ASSUME Carded, UNCHANGED <<said, cards>>
  PROVE  Carded'
BY CardedFrame DEF Carded

\* What the daemon's variables are.
DaemonTypes ==
  /\ outbox \in [Intents -> OutboxStatuses] /\ waiting \in Intents \cup {NoIntent}
  /\ late \subseteq Intents /\ known \in BOOLEAN
  /\ heard \in [Agents -> Versions] /\ closed \in [Agents -> Versions]

LEMMA TypesAre ==
  ASSUME IInv
  PROVE  /\ seq \in Versions /\ saved \in Versions /\ head \in Versions /\ unsaved \in Nat
         /\ view \in [Agents -> Versions] /\ cards \subseteq Cards
         /\ finishing \subseteq Agents \X Versions
         /\ threads \in Seq(ThreadRows) /\ said \in Seq(MessageRows)
         /\ outbox \in [Intents -> OutboxStatuses] /\ waiting \in Intents \cup {NoIntent}
         /\ subs \subseteq Agents /\ announcing \in Principals \cup {Nobody}
         /\ late \subseteq Intents /\ heard \in [Agents -> Versions] /\ DaemonTypes
BY DEF IInv, TypeOK, DaemonTypes

\* Steps of the daemon that only touch the outbox.
LEMMA DaemonOnly ==
  ASSUME IInv, UNCHANGED storeVars, TypeOK',
         \A k \in Intents : outbox'[k] = "posted"
           => outbox[k] = "posted" \/ \E t \in DOMAIN threads : threads[t].op = k
  PROVE  IInv'
<1> USE DEF IInv, storeVars
<1>1. Behind'
  BY DEF Behind
<1> QED
  BY <1>1, TalkFrame, PostingFrame, CardedSame

\* Steps that leave the threads and the outbox alone.
LEMMA CardsOnly ==
  ASSUME IInv, UNCHANGED <<threads, said, outbox>>, TypeOK', Behind', OneRow(cards'),
         \A key \in Keys : key.kind \in MessageKinds => (Has(cards', key) <=> Has(cards, key))
  PROVE  IInv'
BY TalkFrame, PostingFrame, CardedFrame DEF IInv
LEMMA NoCards ==
  ASSUME IInv, UNCHANGED <<threads, said, outbox, cards>>, TypeOK', Behind'
  PROVE  IInv'
BY CardsOnly DEF IInv, Carded

\* --------------------------------------------------------- the document

LEMMA CreateDocumentStep ==
  ASSUME IInv, UNCHANGED daemonVars, NEW p \in Principals, CreateDocument(p)
  PROVE  IInv'
<1> USE InboxAssumption, TypesAre DEF CreateDocument, daemonVars, Versions
<1>1. TypeOK'
  BY DEF TypeOK, DaemonTypes
<1>2. Behind'
  BY DEF IInv, Behind, TypeOK, Cards
<1> QED
  BY <1>1, <1>2, NoCards

\* Cards of documents are drafts of no message.
LEMMA DocumentDraft ==
  ASSUME NEW kind \in Kinds \ MessageKinds, NEW a \in Agents, NEW t \in Nat, NEW v \in Versions
  PROVE  LET d == Draft(Key(kind, a, t, 0), v)
         IN  d \in Drafts /\ d.to = v /\ d.key.kind \notin MessageKinds
BY KeyIs, DraftIs

LEMMA AnnounceDocumentStep ==
  ASSUME IInv, UNCHANGED daemonVars, AnnounceDocument
  PROVE  IInv'
<1> USE TypesAre
<1>1. PICK reached \in SUBSET (Agents \ {announcing}) :
        cards' = Upsert(cards, {Draft(Key("document.created", a, 0, 0), head) : a \in reached})
  BY DEF AnnounceDocument
<1> DEFINE drafts == {Draft(Key("document.created", a, 0, 0), head) : a \in reached}
<1>2. /\ drafts \subseteq Drafts
      /\ \A d \in drafts : d.to = head /\ d.key.kind \notin MessageKinds
  <2>1. "document.created" \in Kinds \ MessageKinds
    BY DEF Kinds, DocumentKinds, MessageKinds
  <2>2. \A a \in reached : LET d == Draft(Key("document.created", a, 0, 0), head)
                           IN  d \in Drafts /\ d.to = head /\ d.key.kind \notin MessageKinds
    BY <2>1, DocumentDraft
  <2> QED
    BY <2>2
<1>3. /\ head <= seq /\ seq \in Nat /\ OneRow(cards)
      /\ \A c \in cards : c.to <= seq
  BY DEF IInv, Behind, Carded, Versions
<1> HIDE DEF drafts
<1>4. cards' \subseteq Cards /\ \A c \in cards' : c.to <= seq
  BY <1>1, <1>2, <1>3, Upserted DEF drafts
<1>5. /\ OneRow(cards')
      /\ \A key \in Keys : key.kind \in MessageKinds => (Has(cards', key) <=> Has(cards, key))
  BY <1>1, <1>2, <1>3, UpsertedKeys DEF drafts
<1>6. TypeOK'
  BY <1>4 DEF AnnounceDocument, daemonVars, TypeOK, DaemonTypes
<1>7. Behind'
  BY <1>4 DEF AnnounceDocument, IInv, Behind
<1> QED
  BY <1>5, <1>6, <1>7, CardsOnly DEF AnnounceDocument, daemonVars

LEMMA EditStep ==
  ASSUME IInv, UNCHANGED daemonVars, NEW p \in Principals, Edit(p)
  PROVE  IInv'
<1> USE TypesAre, InboxAssumption
<1> DEFINE v == NextVersion
           drafts == {Draft(Key("document.updated", a, 0, 0), v) : a \in Notified(p, v)}
<1>1. v \in Versions /\ seq <= v /\ v \in Nat
  BY DEF Edit, NextVersion, Versions
<1>2. /\ drafts \subseteq Drafts
      /\ \A d \in drafts : d.to = v /\ d.key.kind \notin MessageKinds
  <2>1. "document.updated" \in Kinds \ MessageKinds
    BY DEF Kinds, DocumentKinds, MessageKinds
  <2>2. Notified(p, v) \subseteq Agents
    BY DEF Notified
  <2>3. \A a \in Notified(p, v) :
          LET d == Draft(Key("document.updated", a, 0, 0), v)
          IN  d \in Drafts /\ d.to = v /\ d.key.kind \notin MessageKinds
    BY <1>1, <2>1, <2>2, DocumentDraft
  <2> QED
    BY <2>3
<1>3. OneRow(cards) /\ \A c \in cards : c.to <= v
  <2>1. \A c \in cards : c.to <= seq /\ c.to \in Nat
    BY DEF IInv, Behind, Cards, Versions
  <2> QED
    BY <1>1, <2>1 DEF IInv, Carded, Versions
<1>4. cards' = Upsert(cards, drafts)
  BY DEF Edit
<1> HIDE DEF drafts
<1>5. cards' \subseteq Cards /\ \A c \in cards' : c.to <= v
  <2>1. \A d \in drafts : d.to <= v
    BY <1>1, <1>2
  <2> QED
    BY <1>1, <1>2, <1>3, <1>4, <2>1, Upserted
<1>6. /\ OneRow(cards')
      /\ \A key \in Keys : key.kind \in MessageKinds => (Has(cards', key) <=> Has(cards, key))
  BY <1>2, <1>3, <1>4, UpsertedKeys
<1>7. TypeOK'
  BY <1>1, <1>5 DEF Edit, daemonVars, TypeOK, DaemonTypes
<1>8. Behind'
  <2>1. \A a \in Agents : view[a] <= seq /\ view[a] \in Nat
    BY DEF IInv, Behind, Versions
  <2>2. \A f \in finishing : f[2] <= seq /\ f[2] \in Nat
    BY DEF IInv, Behind, Versions
  <2>3. seq' = v /\ saved' = v /\ head' = v /\ UNCHANGED <<view, finishing>>
    BY DEF Edit
  <2>4. (\A a \in Agents : view[a] <= v) /\ \A f \in finishing : f[2] <= v
    BY <1>1, <2>1, <2>2 DEF Versions
  <2> QED
    BY <1>1, <1>5, <2>3, <2>4 DEF Behind
<1> QED
  BY <1>6, <1>7, <1>8, CardsOnly DEF Edit, daemonVars

LEMMA EditFailsStep ==
  ASSUME IInv, UNCHANGED daemonVars, EditFails
  PROVE  IInv'
<1> USE TypesAre, InboxAssumption
<1>1. seq' \in Versions /\ seq <= seq' /\ (head' = head \/ head' = seq')
  BY DEF EditFails, NextVersion, Versions
<1>2. TypeOK'
  BY <1>1 DEF EditFails, daemonVars, TypeOK, DaemonTypes
<1>3. Behind'
  <2>1. \A a \in Agents : view[a] <= seq /\ view[a] \in Nat
    BY DEF IInv, Behind, Versions
  <2>2. \A f \in finishing : f[2] <= seq /\ f[2] \in Nat
    BY DEF IInv, Behind, Versions
  <2>3. \A c \in cards : c.to <= seq /\ c.to \in Nat
    BY DEF IInv, Behind, Cards, Versions
  <2>4. saved' <= seq' /\ head' <= seq'
    BY <1>1 DEF EditFails, IInv, Behind, Versions
  <2> QED
    BY <1>1, <2>1, <2>2, <2>3, <2>4 DEF EditFails, Behind, Versions
<1> QED
  BY <1>2, <1>3, NoCards DEF EditFails, daemonVars

LEMMA RestartBackendStep ==
  ASSUME IInv, UNCHANGED daemonVars, RestartBackend
  PROVE  IInv'
<1>1. TypeOK'
  BY TypesAre DEF RestartBackend, daemonVars, TypeOK, DaemonTypes
<1>2. Behind'
  BY TypesAre DEF IInv, Behind, RestartBackend
<1> QED
  BY <1>1, <1>2, NoCards DEF RestartBackend, daemonVars

LEMMA SubscribeStep ==
  ASSUME IInv, UNCHANGED daemonVars, NEW a \in Agents, NEW p \in {a, Human}, Subscribe(a, p)
  PROVE  IInv'
<1> USE TypesAre, InboxAssumption
<1> DEFINE drafts == {Draft(Key("subscription.added", a, 0, 0), 0)}
<1>1. "subscription.added" \in Kinds /\ "subscription.added" \notin MessageKinds /\ 0 \in Versions
  BY DEF Kinds, MessageKinds, Versions
<1>2. drafts \subseteq Drafts /\ \A d \in drafts : d.to = 0 /\ d.key.kind \notin MessageKinds
  <2>1. PICK key : key = Key("subscription.added", a, 0, 0)
    OBVIOUS
  <2>2. key \in Keys /\ key.kind = "subscription.added"
    BY <1>1, <2>1, KeyIs
  <2>3. PICK d : d = Draft(key, 0)
    OBVIOUS
  <2>4. d \in Drafts /\ d.to = 0 /\ d.key = key
    BY <1>1, <2>2, <2>3, DraftIs
  <2>5. drafts = {d}
    BY <2>1, <2>3
  <2> QED
    BY <1>1, <2>2, <2>4, <2>5
<1>3. OneRow(cards) /\ seq \in Nat /\ \A c \in cards : c.to <= seq
  BY DEF IInv, Behind, Carded, Versions
<1>4. cards' = cards \/ cards' = Upsert(cards, drafts)
  BY DEF Subscribe
<1> HIDE DEF drafts
<1>5. cards' \subseteq Cards /\ \A c \in cards' : c.to <= seq
  <2>1. \A d \in drafts : d.to <= seq
    BY <1>2, <1>3
  <2> QED
    BY <1>2, <1>3, <1>4, <2>1, Upserted
<1>6. /\ OneRow(cards')
      /\ \A key \in Keys : key.kind \in MessageKinds => (Has(cards', key) <=> Has(cards, key))
  BY <1>2, <1>3, <1>4, UpsertedKeys
<1>7. TypeOK'
  BY <1>5 DEF Subscribe, daemonVars, TypeOK, DaemonTypes
<1>8. Behind'
  BY <1>5 DEF Subscribe, IInv, Behind
<1> QED
  BY <1>6, <1>7, <1>8, CardsOnly DEF Subscribe, daemonVars

LEMMA UnsubscribeStep ==
  ASSUME IInv, UNCHANGED daemonVars, NEW a \in Agents, Unsubscribe(a)
  PROVE  IInv'
<1>1. TypeOK'
  BY TypesAre DEF Unsubscribe, daemonVars, TypeOK, DaemonTypes
<1>2. Behind'
  BY TypesAre DEF IInv, Behind, Unsubscribe
<1> QED
  BY <1>1, <1>2, NoCards DEF Unsubscribe, daemonVars
\* ------------------------------------------------- reading and finishing cards

LEMMA RewrittenCards ==
  ASSUME IInv, NEW f, \A c \in cards : f[c] \in Cards /\ f[c].key = c.key /\ f[c].to = c.to,
         \A x : x \in cards' <=> \E c \in cards : x = f[c]
  PROVE  /\ cards' \subseteq Cards /\ OneRow(cards') /\ \A c \in cards' : c.to <= seq
         /\ \A key \in Keys : Has(cards', key) <=> Has(cards, key)
<1>1. cards \subseteq Cards /\ seq \in Nat /\ OneRow(cards) /\ \A e \in cards : e.to <= seq
  BY TypesAre DEF IInv, Behind, Carded, Versions
<1>2. PICK rows, new, n : rows = cards /\ new = cards' /\ n = seq
  OBVIOUS
<1>3. rows \subseteq Cards /\ n \in Nat /\ OneRow(rows) /\ \A c \in rows : c.to <= n
  BY <1>1, <1>2
<1>4. /\ \A c \in rows : f[c] \in Cards /\ f[c].key = c.key /\ f[c].to = c.to
      /\ \A x : x \in new <=> \E c \in rows : x = f[c]
  BY <1>2
<1>5. /\ new \subseteq Cards /\ OneRow(new) /\ \A c \in new : c.to <= n
      /\ \A key \in Keys : Has(new, key) <=> Has(rows, key)
  BY <1>3, <1>4, Rewritten
<1> QED
  BY <1>2, <1>5

LEMMA Replaced ==
  ASSUME IInv, NEW c \in cards, NEW d \in Cards, d.key = c.key, d.to = c.to,
         cards' = (cards \ {c}) \cup {d}
  PROVE  /\ cards' \subseteq Cards /\ OneRow(cards') /\ \A e \in cards' : e.to <= seq
         /\ \A key \in Keys : Has(cards', key) <=> Has(cards, key)
<1>1. PICK f : f = [e \in cards |-> IF e = c THEN d ELSE e]
  OBVIOUS
<1>2. \A e \in cards : f[e] \in Cards /\ f[e].key = e.key /\ f[e].to = e.to
  BY <1>1, TypesAre
<1>3. \A x : x \in cards' <=> \E e \in cards : x = f[e]
  BY <1>1
<1> QED
  BY <1>2, <1>3, RewrittenCards

LEMMA MarkedViewed ==
  ASSUME IInv, NEW a \in Agents, NEW v \in Versions, MarkViewed(a, v),
         UNCHANGED <<seq, saved, head, unsaved, announcing, subs, threads, said, outbox>>,
         DaemonTypes', finishing' \subseteq finishing
  PROVE  IInv'
<1>1. PICK f : f = [c \in cards |->
                     IF c.key.agent = a /\ OfDocument(c) /\ Active(c) /\ c.to <= Watermark(v)
                     THEN [c EXCEPT !.status = "finished"] ELSE c]
  OBVIOUS
<1>2. \A c \in cards : f[c] \in Cards /\ f[c].key = c.key /\ f[c].to = c.to
  BY <1>1, FinishedIs, TypesAre
<1>3. \A x : x \in cards' <=> \E c \in cards : x = f[c]
  BY <1>1 DEF MarkViewed
<1>4. /\ cards' \subseteq Cards /\ OneRow(cards') /\ \A c \in cards' : c.to <= seq
      /\ \A key \in Keys : Has(cards', key) <=> Has(cards, key)
  BY <1>2, <1>3, RewrittenCards
<1> USE TypesAre
<1>5. Watermark(v) \in Versions /\ Watermark(v) <= seq
  BY DEF Watermark, IInv, Behind, Versions
<1>6. view' \in [Agents -> Versions] /\ \A b \in Agents : view'[b] <= seq
  BY <1>5 DEF MarkViewed, IInv, Behind
<1>7. TypeOK'
  BY <1>4, <1>6 DEF DaemonTypes, TypeOK
<1>8. Behind'
  BY <1>4, <1>6 DEF IInv, Behind
<1> QED
  BY <1>4, <1>7, <1>8, CardsOnly

LEMMA FinishViewStep ==
  ASSUME IInv, UNCHANGED daemonVars, FinishView
  PROVE  IInv'
<1>1. PICK f \in finishing : /\ MarkViewed(f[1], f[2]) /\ finishing' = finishing \ {f}
                             /\ UNCHANGED <<seq, saved, head, unsaved, announcing, subs,
                                            threads, said>>
  BY DEF FinishView
<1>2. f[1] \in Agents /\ f[2] \in Versions
  BY TypesAre
<1>3. DaemonTypes'
  BY TypesAre DEF DaemonTypes, daemonVars
<1> QED
  BY <1>1, <1>2, <1>3, MarkedViewed DEF daemonVars

LEMMA ClosingIs ==
  ASSUME IInv, NEW a \in Agents, NEW v \in Versions
  PROVE  Closing(a, v) \in [Agents -> Versions]
<1>1. closed \in [Agents -> Versions]
  BY TypesAre DEF DaemonTypes
<1>2. Newest({v}, closed[a]) \in Versions
  BY <1>1, Largest
<1> QED
  BY <1>1, <1>2 DEF Closing

LEMMA ViewDocumentStep ==
  ASSUME IInv, NEW a \in Agents, ViewDocument(a)
  PROVE  IInv'
<1>1. PICK v \in Versions : MarkDocumentViewed(a, v) /\ closed' = Closing(a, Watermark(v))
  BY DEF ViewDocument
<1>2. Watermark(v) \in Versions
  BY TypesAre DEF Watermark
<1>3. DaemonTypes'
  BY <1>1, <1>2, ClosingIs, TypesAre DEF ViewDocument, DaemonTypes
<1> QED
  BY <1>1, <1>3, MarkedViewed DEF ViewDocument, MarkDocumentViewed

LEMMA FinishItemStep ==
  ASSUME IInv, NEW a \in Agents, FinishItem(a)
  PROVE  IInv'
<1> USE TypesAre
<1>1. PICK c \in cards : /\ UpdateAgentEvent(c) /\ UNCHANGED <<outbox, waiting, late, known, heard>>
                        /\ closed' = IF OfDocument(c) THEN Closing(a, c.to) ELSE closed
  BY DEF FinishItem
<1>2. c \in Cards
  OBVIOUS
<1> DEFINE d == [c EXCEPT !.status = "finished"]
<1>3. d \in Cards /\ d.key = c.key /\ d.to = c.to /\ cards' = (cards \ {c}) \cup {d}
  BY <1>1, <1>2, FinishedIs DEF UpdateAgentEvent
<1> HIDE DEF d
<1>4. /\ cards' \subseteq Cards /\ OneRow(cards') /\ \A e \in cards' : e.to <= seq
      /\ \A key \in Keys : Has(cards', key) <=> Has(cards, key)
  BY <1>3, Replaced
<1>5. c.key.agent \in Agents /\ c.to \in Versions /\ c.to <= seq
  BY <1>2 DEF Cards, Keys, IInv, Behind
<1>6. finishing' \subseteq Agents \X Versions /\ \A f \in finishing' : f[2] <= seq
  BY <1>1, <1>5 DEF UpdateAgentEvent, IInv, Behind
<1>7. closed' \in [Agents -> Versions]
  BY <1>1, <1>5, ClosingIs DEF DaemonTypes
<1>8. TypeOK'
  BY <1>1, <1>4, <1>6, <1>7 DEF UpdateAgentEvent, TypeOK, DaemonTypes
<1>9. Behind'
  BY <1>1, <1>4, <1>6 DEF UpdateAgentEvent, IInv, Behind
<1> QED
  BY <1>1, <1>4, <1>8, <1>9, CardsOnly DEF UpdateAgentEvent

LEMMA ClockStep ==
  ASSUME IInv, UNCHANGED daemonVars, Clock
  PROVE  IInv'
<1> USE TypesAre
<1>1. PICK c \in cards : Mature(c)
  BY DEF Clock
<1> DEFINE d == [c EXCEPT !.time = "due"]
<1>2. d \in Cards /\ d.key = c.key /\ d.to = c.to /\ cards' = (cards \ {c}) \cup {d}
  BY <1>1, DueIs DEF Mature
<1> HIDE DEF d
<1>3. /\ cards' \subseteq Cards /\ OneRow(cards') /\ \A e \in cards' : e.to <= seq
      /\ \A key \in Keys : Has(cards', key) <=> Has(cards, key)
  BY <1>2, Replaced
<1>4. TypeOK'
  BY <1>1, <1>3 DEF Mature, daemonVars, TypeOK, DaemonTypes
<1>5. Behind'
  BY <1>1, <1>3 DEF Mature, IInv, Behind
<1> QED
  BY <1>1, <1>3, <1>4, <1>5, CardsOnly DEF Mature, daemonVars

LEMMA PollInboxStep ==
  ASSUME IInv, NEW a \in Agents, PollInbox(a)
  PROVE  IInv'
<1> USE TypesAre
<1>1. PushedCards(a) \subseteq Cards
  BY DEF PushedCards, Listed
<1>2. PushedVersions(a) \subseteq Versions
  BY <1>1 DEF PushedVersions, Cards
<1>3. Newest(PushedVersions(a), heard[a]) \in Versions
  BY <1>2, Largest
<1>4. TypeOK'
  BY <1>3 DEF PollInbox, storeVars, TypeOK, DaemonTypes
<1> QED
  BY <1>4, DaemonOnly DEF PollInbox

\* ---------------------------------------------------------------- the outbox

LEMMA OutboxStep ==
  ASSUME IInv, NEW k \in Intents,
         \/ QueueThreadCreate(k) \/ Materialize(k) \/ SendThreadIntent(k)
         \/ RefuseThreadIntent(k) \/ AbandonThreadIntent(k) \/ LoseLate(k) \/ LearnContent
  PROVE  IInv'
<1> USE TypesAre DEF OutboxStatuses
<1>1. CASE QueueThreadCreate(k)
  BY <1>1, DaemonOnly DEF QueueThreadCreate, storeVars, TypeOK, DaemonTypes
<1>2. CASE Materialize(k)
  BY <1>2, DaemonOnly DEF Materialize, storeVars, TypeOK, DaemonTypes
<1>3. CASE SendThreadIntent(k)
  BY <1>3, DaemonOnly DEF SendThreadIntent, storeVars, TypeOK, DaemonTypes
<1>4. CASE RefuseThreadIntent(k)
  BY <1>4, DaemonOnly DEF RefuseThreadIntent, Answered, Settled, storeVars, TypeOK, DaemonTypes
<1>5. CASE AbandonThreadIntent(k)
  BY <1>5, DaemonOnly DEF AbandonThreadIntent, Settled, storeVars, TypeOK, DaemonTypes
<1>6. CASE LoseLate(k)
  BY <1>6, DaemonOnly DEF LoseLate, storeVars, TypeOK, DaemonTypes
<1>7. CASE LearnContent
  BY <1>7, DaemonOnly DEF LearnContent, storeVars, TypeOK, DaemonTypes
<1> QED
  BY <1>1, <1>2, <1>3, <1>4, <1>5, <1>6, <1>7

LEMMA RestartDaemonStep ==
  ASSUME IInv, RestartDaemon
  PROVE  IInv'
BY TypesAre, DaemonOnly DEF RestartDaemon, storeVars, TypeOK, DaemonTypes
\* ------------------------------------------------------ threads and messages

\* The key of the card that a message gives to an agent.
KeyFor(a, msg, m) ==
  Key(IF a \in msg.mentions THEN "thread.mentioned" ELSE "thread.replied", a, msg.thread, m)

\* prior: who was in the message's thread before it.
Concerns(a, msg, prior) == a \in Agents \ {msg.by} /\ (a \in msg.mentions \/ a \in prior)

WereIn(prior, t) ==
  \A x \in Principals :
    x \in prior <=> \E i \in DOMAIN said : said[i].thread = t /\ Speaks(x, said[i])

LEMMA KeyForIs ==
  ASSUME NEW a \in Agents, NEW msg \in MessageRows, NEW m \in Nat
  PROVE  /\ KeyFor(a, msg, m) \in Keys /\ KeyFor(a, msg, m).kind \in MessageKinds
         /\ KeyFor(a, msg, m).message = m /\ KeyFor(a, msg, m).agent = a
<1>1. msg.thread \in Nat
  BY DEF MessageRows
<1>2. PICK kind \in MessageKinds : KeyFor(a, msg, m) = Key(kind, a, msg.thread, m)
  BY DEF KeyFor, MessageKinds
<1>3. kind \in Kinds
  BY <1>2 DEF Kinds
<1> QED
  BY <1>1, <1>2, <1>3, KeyIs

\* A new message adds the keys of those it concerns.
LEMMA Spoken ==
  ASSUME IInv, NEW msg \in MessageRows, said' = Append(said, msg), NEW prior,
         WereIn(prior, msg.thread), NEW key
  PROVE  RightKey(key)' <=> \/ RightKey(key)
                            \/ \E a : Concerns(a, msg, prior) /\ key = KeyFor(a, msg, Len(said) + 1)
<1>0. PICK n : n = Len(said)
  OBVIOUS
<1> DEFINE m == n + 1
<1>1. /\ n \in Nat /\ DOMAIN said = 1..n /\ DOMAIN said' = 1..m
      /\ \A i \in 1..n : said'[i] = said[i]
      /\ said'[m] = msg
  <2>1. said \in Seq(MessageRows)
    BY TypesAre
  <2> QED
    BY <1>0, <2>1, AppendProperties
<1>2. \A i \in 1..n : \A j \in 1..(i - 1) : j \in 1..n
  BY <1>1
<1>3. ASSUME NEW i \in 1..n PROVE Audience(i)' = Audience(i)
  BY <1>1, <1>2, <1>3 DEF Audience
<1>4. ASSUME NEW i \in 1..n, NEW a PROVE MessageKey(a, i)' = MessageKey(a, i)
  BY <1>1, <1>4 DEF MessageKey
<1>5. \A a : a \in Audience(m)' <=> Concerns(a, msg, prior)
  <2>1. m - 1 = n
    BY <1>1
  <2>2. ASSUME NEW a \in Agents
        PROVE  a \in prior <=> \E i \in 1..n : /\ said'[i].thread = said'[m].thread
                                               /\ a \in said'[i].mentions \cup {said'[i].by}
    BY <1>1 DEF WereIn, Speaks, Principals
  <2> QED
    BY <1>1, <2>1, <2>2 DEF Audience, Concerns
<1>6. \A a : MessageKey(a, m)' = KeyFor(a, msg, m)
  BY <1>1 DEF MessageKey, KeyFor
<1>7. RightKey(key)' <=> \E i \in 1..m : \E a \in Audience(i)' : key = MessageKey(a, i)'
  BY <1>1 DEF RightKey
<1>8. RightKey(key) <=> \E i \in 1..n : \E a \in Audience(i) : key = MessageKey(a, i)
  BY <1>1 DEF RightKey
<1>9. \A i : i \in 1..m <=> i \in 1..n \/ i = m
  BY <1>1
<1> QED
  BY <1>3, <1>4, <1>5, <1>6, <1>7, <1>8, <1>9, <1>0

LEMMA NewMessage ==
  ASSUME IInv, NEW key \in Keys, key.kind \in MessageKinds, key.message = Len(said) + 1
  PROVE  ~Has(cards, key)
<1> SUFFICES ASSUME NEW i \in DOMAIN said, NEW a \in Audience(i), key = MessageKey(a, i)
             PROVE  FALSE
  BY DEF IInv, Carded, RightKey
<1>1. said \in Seq(MessageRows)
  BY TypesAre
<1>2. i \in 1..Len(said) /\ i \in Nat /\ Len(said) \in Nat
  BY <1>1
<1>3. said[i] \in MessageRows
  BY <1>1, <1>2
<1>4. a \in Agents
  BY DEF Audience
<1>5. key.message = i
  BY <1>2, <1>3, <1>4, KeyForIs DEF MessageKey, KeyFor
<1> QED
  BY <1>2, <1>5
\* The cards of a new message: direct ones, and those of the watchers.
LEMMA CardsOfMessage ==
  ASSUME IInv, NEW msg \in MessageRows, said' = Append(said, msg), NEW prior,
         WereIn(prior, msg.thread),
         NEW direct, direct \subseteq Drafts,
         \A d \in direct : /\ d = Draft(d.key, 0)
                           /\ d.key.kind \in MessageKinds => d.key.message = Len(said) + 1,
         \A key \in Keys : key.kind \in MessageKinds =>
           (Has(direct, key) <=> \E a : Concerns(a, msg, prior) /\ key = KeyFor(a, msg, Len(said) + 1)),
         NEW watch, watch \subseteq Drafts,
         \A d \in watch : d.to = 0 /\ d.key.kind \notin MessageKinds,
         cards' \in {Insert(cards, direct), Upsert(Insert(cards, direct), watch)}
  PROVE  cards' \subseteq Cards /\ (\A c \in cards' : c.to <= seq) /\ Carded'
<1>1. cards \subseteq Cards /\ seq \in Nat /\ OneRow(cards) /\ \A c \in cards : c.to <= seq
  BY TypesAre DEF IInv, Behind, Carded, Versions
<1>2. PICK rows, n, new : rows = Insert(cards, direct) /\ n = seq /\ new = cards'
  OBVIOUS
<1>3. \A d \in direct : d.to <= n /\ (d.key.kind \in MessageKinds => ~Has(cards, d.key))
  BY <1>1, <1>2, NewMessage DEF Draft, Drafts, Versions
<1>4. \A d, e \in direct : d.key = e.key => d = e
  OBVIOUS
<1>5. rows \subseteq Cards /\ \A c \in rows : c.to <= n
  BY <1>1, <1>2, <1>3, Inserted
<1>6. /\ OneRow(rows)
      /\ \A key \in Keys : key.kind \in MessageKinds =>
           (Has(rows, key) <=> Has(cards, key) \/ Has(direct, key))
  BY <1>1, <1>2, <1>3, <1>4, InsertedKeys
<1>7. \A d \in watch : d.to <= n
  BY <1>1, <1>2
<1>8. new = rows \/ new = Upsert(rows, watch)
  BY <1>2
<1>9. new \subseteq Cards /\ \A c \in new : c.to <= n
  BY <1>1, <1>2, <1>5, <1>7, <1>8, Upserted
<1>10. /\ OneRow(new)
       /\ \A key \in Keys : key.kind \in MessageKinds => (Has(new, key) <=> Has(rows, key))
  BY <1>5, <1>6, <1>8, UpsertedKeys
<1>11. \A key \in Keys : key.kind \in MessageKinds => (Has(new, key) <=> RightKey(key)')
  <2> SUFFICES ASSUME NEW key \in Keys, key.kind \in MessageKinds
               PROVE  Has(new, key) <=> RightKey(key)'
    OBVIOUS
  <2>1. RightKey(key)' <=> \/ RightKey(key)
                           \/ \E a : Concerns(a, msg, prior) /\ key = KeyFor(a, msg, Len(said) + 1)
    BY Spoken
  <2>2. Has(cards, key) <=> RightKey(key)
    BY DEF IInv, Carded
  <2> QED
    BY <1>6, <1>10, <2>1, <2>2
<1>12. Carded'
  <2>1. OneRow(cards)' <=> OneRow(new)
    BY <1>2 DEF OneRow
  <2>2. \A key : Has(cards, key)' <=> Has(new, key)
    BY <1>2 DEF Has
  <2> QED
    BY <1>10, <1>11, <2>1, <2>2 DEF Carded
<1> QED
  BY <1>2, <1>9, <1>12

LEMMA CreateThreadStep ==
  ASSUME IInv, NEW p \in Principals, NEW op \in Intents \cup {NoIntent},
         NEW mentions \in SUBSET Agents, CreateThread(p, op, mentions),
         op # NoIntent => p = IntentAgent[op], DaemonTypes',
         \A k \in Intents : outbox'[k] = "posted" => outbox[k] = "posted" \/ k = op
  PROVE  IInv'
<1> USE TypesAre, InboxAssumption
<1> DEFINE row == [by |-> p, op |-> op, members |-> {p} \cup mentions]
<1>1. CASE Repeated(p, op)
  <2>1. UNCHANGED storeVars
    BY <1>1 DEF CreateThread, storeVars
  <2>2. TypeOK'
    BY <2>1 DEF storeVars, DaemonTypes, TypeOK
  <2>3. \E t \in DOMAIN threads : threads[t].op = op
    BY <1>1 DEF Repeated, ThreadsOf
  <2> QED
    BY <2>1, <2>2, <2>3, DaemonOnly
<1>2. CASE ~Repeated(p, op)
  <2>1. PICK t, m : t = Len(threads) + 1 /\ m = Len(said) + 1
    OBVIOUS
  <2>2. PICK msg : msg = Message(t, p, mentions)
    OBVIOUS
  <2>3. /\ threads' = Append(threads, row) /\ said' = Append(said, msg)
        /\ cards' = Insert(cards, MentionDrafts(t, m, msg) \cup CreatedDrafts(t, msg))
        /\ UNCHANGED <<seq, saved, head, unsaved, announcing, subs, view, finishing>>
    BY <1>2, <2>1, <2>2 DEF CreateThread
  <2>4. /\ t \in Nat /\ m \in Nat /\ row \in ThreadRows /\ msg \in MessageRows
        /\ msg.thread = t /\ msg.by = p /\ msg.mentions = mentions
    BY <2>1, <2>2 DEF Message, ThreadRows, MessageRows, Principals
  <2> HIDE DEF row
  <2>5. /\ DOMAIN threads = 1..(t - 1) /\ DOMAIN threads' = 1..t /\ threads'[t] = row
        /\ threads' \in Seq(ThreadRows) /\ \A u \in 1..(t - 1) : threads'[u] = threads[u]
    BY <2>1, <2>3, <2>4, AppendProperties
  <2>6. /\ DOMAIN said = 1..(m - 1) /\ DOMAIN said' = 1..m /\ said'[m] = msg
        /\ said' \in Seq(MessageRows) /\ \A i \in 1..(m - 1) : said'[i] = said[i]
    BY <2>1, <2>3, <2>4, AppendProperties
  <2>7. \A i \in DOMAIN said : said[i].thread \in 1..(t - 1)
    BY <2>5 DEF IInv, Talk
  <2>13. /\ \A i : i \in 1..m <=> i \in 1..(m - 1) \/ i = m
         /\ \A u : u \in 1..t <=> u \in 1..(t - 1) \/ u = t
         /\ t \notin 1..(t - 1)
    BY <2>1, <2>4
  <2>8. cards' \subseteq Cards /\ (\A c \in cards' : c.to <= seq) /\ Carded'
    <3>1. PICK direct : direct = MentionDrafts(t, m, msg) \cup CreatedDrafts(t, msg)
      OBVIOUS
    <3>2. PICK prior, watch : prior = {} /\ watch = {}
      OBVIOUS
    <3>12. WereIn(prior, msg.thread)
      BY <2>4, <2>7, <3>2 DEF WereIn
    <3>3. ASSUME NEW a \in Agents, NEW kind \in {"thread.mentioned", "thread.created"},
                 NEW j \in {0, m}
          PROVE  LET d == Draft(Key(kind, a, t, j), 0)
                 IN  d \in Drafts /\ d.key = Key(kind, a, t, j) /\ d = Draft(d.key, 0)
                     /\ d.key.kind = kind /\ d.key.message = j
      <4>1. kind \in Kinds /\ j \in Nat /\ 0 \in Versions
        BY <2>4 DEF Kinds, MessageKinds, Versions
      <4>2. /\ Key(kind, a, t, j) \in Keys /\ Key(kind, a, t, j).kind = kind
            /\ Key(kind, a, t, j).message = j
        BY <2>4, <4>1, KeyIs
      <4> QED
        BY <4>1, <4>2, DraftIs
    <3>4. "thread.created" \notin MessageKinds /\ "thread.mentioned" \in MessageKinds
      BY DEF MessageKinds
    <3>5. \A d \in direct :
            \/ \E a \in Mentioned(msg) : d = Draft(Key("thread.mentioned", a, t, m), 0)
            \/ \E a \in Agents : d = Draft(Key("thread.created", a, t, 0), 0)
      BY <3>1 DEF MentionDrafts, CreatedDrafts
    <3>6. Mentioned(msg) \subseteq Agents
      BY DEF Mentioned
    <3>7. /\ direct \subseteq Drafts
          /\ \A d \in direct : /\ d = Draft(d.key, 0)
                               /\ d.key.kind \in MessageKinds => d.key.message = Len(said) + 1
      <4> SUFFICES ASSUME NEW d \in direct
                   PROVE  /\ d \in Drafts /\ d = Draft(d.key, 0)
                          /\ d.key.kind \in MessageKinds => d.key.message = m
        BY <2>1
      <4>1. ASSUME NEW a \in Mentioned(msg), d = Draft(Key("thread.mentioned", a, t, m), 0)
            PROVE  d \in Drafts /\ d = Draft(d.key, 0) /\ d.key.message = m
        BY <3>3, <3>6, <4>1
      <4>2. ASSUME NEW a \in Agents, d = Draft(Key("thread.created", a, t, 0), 0)
            PROVE  d \in Drafts /\ d = Draft(d.key, 0) /\ d.key.kind = "thread.created"
        BY <3>3, <4>2
      <4> QED
        BY <3>4, <3>5, <4>1, <4>2
    <3>8. \A a : Concerns(a, msg, prior) <=> a \in Mentioned(msg)
      BY <3>2 DEF Concerns, Mentioned
    <3>9. \A a \in Mentioned(msg) : KeyFor(a, msg, m) = Key("thread.mentioned", a, t, m)
      BY <2>4 DEF KeyFor, Mentioned
    <3>10. ASSUME NEW key \in Keys, key.kind \in MessageKinds
           PROVE  Has(direct, key) <=> \E a : Concerns(a, msg, prior)
                                              /\ key = KeyFor(a, msg, Len(said) + 1)
      <4>1. ASSUME Has(direct, key)
            PROVE  \E a \in Mentioned(msg) : key = Key("thread.mentioned", a, t, m)
        BY <3>3, <3>4, <3>5, <3>6, <3>10, <4>1 DEF Has
      <4>2. ASSUME NEW a \in Mentioned(msg), key = Key("thread.mentioned", a, t, m)
            PROVE  Has(direct, key)
        <5>1. Draft(key, 0) \in direct /\ Draft(key, 0).key = key
          BY <3>1, <3>3, <3>6, <4>2 DEF MentionDrafts
        <5> QED
          BY <5>1 DEF Has
      <4> QED
        BY <2>1, <3>8, <3>9, <4>1, <4>2
    <3>11. cards' \in {Insert(cards, direct), Upsert(Insert(cards, direct), watch)}
      BY <2>3, <3>1
    <3>13. watch \subseteq Drafts /\ \A d \in watch : d.to = 0 /\ d.key.kind \notin MessageKinds
      BY <3>2
    <3> QED
      BY <2>3, <2>4, <3>12, <3>7, <3>10, <3>11, <3>13, CardsOfMessage
  <2>9. TypeOK'
    BY <2>3, <2>5, <2>6, <2>8 DEF TypeOK, DaemonTypes
  <2>10. Behind'
    BY <2>3, <2>8 DEF IInv, Behind
  <2>11. Talk'
    <3>1. \A i \in DOMAIN said' : said'[i].thread \in DOMAIN threads'
      BY <2>4, <2>5, <2>6, <2>7, <2>13
    <3>2. ASSUME NEW u \in 1..(t - 1), NEW x \in Principals
          PROVE  x \in threads'[u].members <=>
                   \E i \in DOMAIN said' : said'[i].thread = u /\ Speaks(x, said'[i])
      <4>1. x \in threads[u].members <=>
              \E i \in 1..(m - 1) : said[i].thread = u /\ Speaks(x, said[i])
        <5>1. Talk /\ u \in DOMAIN threads
          BY <2>5 DEF IInv
        <5>2. x \in threads[u].members <=>
                \E i \in DOMAIN said : said[i].thread = u /\ Speaks(x, said[i])
          BY ONLY <5>1, x \in Principals DEF Talk
        <5> QED
          BY <2>6, <5>2
      <4>2. said'[m].thread # u
        <5>1. said'[m].thread = t
          BY <2>4, <2>6
        <5> QED
          BY <2>13, <5>1
      <4> QED
        BY <2>5, <2>6, <2>13, <4>1, <4>2
    <3>3. ASSUME NEW x \in Principals
          PROVE  x \in threads'[t].members <=>
                   \E i \in DOMAIN said' : said'[i].thread = t /\ Speaks(x, said'[i])
      <4>1. x \in threads'[t].members <=> Speaks(x, msg)
        BY <2>4, <2>5 DEF row, Speaks
      <4>2. \A i \in 1..(m - 1) : said'[i].thread # t
        BY <2>4, <2>6, <2>7
      <4> QED
        BY <2>4, <2>6, <2>13, <4>1, <4>2
    <3>4. \A u \in DOMAIN threads' : u \in 1..(t - 1) \/ u = t
      BY <2>5, <2>13
    <3> QED
      BY <3>1, <3>2, <3>3, <3>4 DEF Talk
  <2>12. Posting'
    <3>1. threads'[t].op = op /\ threads'[t].by = p
      BY <2>5 DEF row
    <3>2. op # NoIntent => \A u \in 1..(t - 1) : threads[u].op # op
      BY <1>2, <2>5 DEF Repeated, ThreadsOf, IInv, Posting
    <3>3. \A u \in DOMAIN threads' :
            threads'[u].op # NoIntent => threads'[u].by = IntentAgent[threads'[u].op]
      BY <2>4, <2>5, <3>1 DEF IInv, Posting
    <3>4. ASSUME NEW k \in Intents
          PROVE  /\ \A u, w \in DOMAIN threads' : threads'[u].op = k /\ threads'[w].op = k => u = w
                 /\ outbox'[k] = "posted" => \E u \in DOMAIN threads' : threads'[u].op = k
      <4>1. /\ \A u, w \in 1..(t - 1) : threads[u].op = k /\ threads[w].op = k => u = w
            /\ outbox[k] = "posted" => \E u \in 1..(t - 1) : threads[u].op = k
        BY <2>5 DEF IInv, Posting, PostedOnce
      <4>2. \A u \in 1..t : u \in 1..(t - 1) \/ u = t
        BY <2>4
      <4>3. \A u \in 1..(t - 1) : u \in 1..t
        BY <2>4
      <4>4. t \in 1..t
        BY <2>1, <2>4
      <4>5. k # NoIntent
        OBVIOUS
      <4>6. DOMAIN threads' = 1..t /\ \A u \in 1..(t - 1) : threads'[u].op = threads[u].op
        BY <2>5
      <4>7. op = k => \A u \in 1..(t - 1) : threads[u].op # k
        BY <3>2, <4>5
      <4>8. ASSUME NEW u \in 1..t, NEW w \in 1..t, threads'[u].op = k, threads'[w].op = k
            PROVE  u = w
        <5>1. CASE u = t \/ w = t
          BY <3>1, <4>2, <4>6, <4>7, <4>8, <5>1
        <5>2. CASE u \in 1..(t - 1) /\ w \in 1..(t - 1)
          BY <4>1, <4>6, <4>8, <5>2
        <5> QED
          BY <4>2, <5>1, <5>2
      <4>9. outbox'[k] = "posted" => \E u \in 1..t : threads'[u].op = k
        BY <2>5, <3>1, <4>1, <4>3, <4>4, <4>6
      <4> QED
        BY <4>6, <4>8, <4>9
    <3> QED
      BY <3>3, <3>4 DEF Posting, PostedOnce
  <2> QED
    BY <2>8, <2>9, <2>10, <2>11, <2>12 DEF IInv
<1> QED
  BY <1>1, <1>2
LEMMA ReplyThreadStep ==
  ASSUME IInv, UNCHANGED daemonVars, NEW t \in DOMAIN threads, NEW p \in Principals,
         NEW mentions \in SUBSET Agents, ReplyThread(t, p, mentions)
  PROVE  IInv'
<1> USE TypesAre, InboxAssumption
<1>1. PICK m, prior : m = Len(said) + 1 /\ prior = threads[t].members
  OBVIOUS
<1>2. PICK msg, members : msg = Message(t, p, mentions) /\ members = prior \cup {p} \cup mentions
  OBVIOUS
<1>3. PICK direct, watch : /\ direct = MentionDrafts(t, m, msg) \cup ReplyDrafts(t, m, msg, members)
                           /\ watch = WatchDrafts(t, msg, members)
  OBVIOUS
<1>4. /\ threads' = [threads EXCEPT ![t].members = members] /\ said' = Append(said, msg)
      /\ cards' = Upsert(Insert(cards, direct), watch)
      /\ UNCHANGED <<seq, saved, head, unsaved, announcing, subs, view, finishing>>
  BY <1>1, <1>2, <1>3 DEF ReplyThread
<1>5. /\ DOMAIN threads = 1..Len(threads) /\ t \in 1..Len(threads) /\ t \in Nat /\ m \in Nat
      /\ threads[t] \in ThreadRows
  BY <1>1
<1>6. /\ prior \subseteq Principals /\ members \subseteq Principals /\ mentions \subseteq Principals
  BY <1>1, <1>2, <1>5 DEF ThreadRows, Principals
<1>7. /\ msg \in MessageRows /\ msg.thread = t /\ msg.by = p /\ msg.mentions = mentions
  BY <1>2, <1>5, <1>6 DEF Message, MessageRows
<1>8. /\ DOMAIN said = 1..(m - 1) /\ DOMAIN said' = 1..m /\ said'[m] = msg
      /\ said' \in Seq(MessageRows) /\ \A i \in 1..(m - 1) : said'[i] = said[i]
      /\ \A i : i \in 1..m <=> i \in 1..(m - 1) \/ i = m
  BY <1>1, <1>4, <1>7, AppendProperties
<1>9. /\ threads' \in Seq(ThreadRows) /\ DOMAIN threads' = DOMAIN threads
      /\ threads'[t].members = members
      /\ \A u \in DOMAIN threads : /\ threads'[u].op = threads[u].op
                                   /\ threads'[u].by = threads[u].by
                                   /\ u # t => threads'[u].members = threads[u].members
  <2>1. PICK row : row = [threads[t] EXCEPT !.members = members]
    OBVIOUS
  <2>2. /\ row \in ThreadRows /\ row.members = members
        /\ row.op = threads[t].op /\ row.by = threads[t].by
    BY <1>5, <1>6, <2>1 DEF ThreadRows
  <2>3. threads' = [threads EXCEPT ![t] = row]
    BY <1>4, <2>1
  <2>4. /\ threads' \in Seq(ThreadRows) /\ Len(threads') = Len(threads)
        /\ \A u \in 1..Len(threads) : threads'[u] = IF u = t THEN row ELSE threads[u]
    BY <1>5, <2>2, <2>3, ExceptSeq
  <2>5. DOMAIN threads' = 1..Len(threads)
    BY <2>4
  <2> QED
    BY <1>5, <2>2, <2>4, <2>5
<1>10. WereIn(prior, msg.thread)
  BY <1>1, <1>7 DEF IInv, Talk, WereIn
<1>11. cards' \subseteq Cards /\ (\A c \in cards' : c.to <= seq) /\ Carded'
  <2>1. ASSUME NEW a \in Agents,
               NEW kind \in {"thread.mentioned", "thread.replied", "thread.watched"},
               NEW j \in {0, m}
        PROVE  LET d == Draft(Key(kind, a, t, j), 0)
               IN  d \in Drafts /\ d.key = Key(kind, a, t, j) /\ d = Draft(d.key, 0)
                   /\ d.key.kind = kind /\ d.key.message = j /\ d.to = 0
    <3>1. kind \in Kinds /\ j \in Nat /\ 0 \in Versions
      BY <1>5 DEF Kinds, MessageKinds, Versions
    <3>2. /\ Key(kind, a, t, j) \in Keys /\ Key(kind, a, t, j).kind = kind
          /\ Key(kind, a, t, j).message = j
      BY <1>5, <3>1, KeyIs
    <3> QED
      BY <3>1, <3>2, DraftIs
  <2>2. /\ "thread.watched" \notin MessageKinds /\ "thread.mentioned" \in MessageKinds
        /\ "thread.replied" \in MessageKinds
    BY DEF MessageKinds
  <2>3. \A a : Concerns(a, msg, prior) <=>
          a \in Mentioned(msg) \/ a \in (members \cap Agents) \ ({msg.by} \cup msg.mentions)
    BY <1>2, <1>7 DEF Concerns, Mentioned
  <2>4. \A a : Concerns(a, msg, prior) => a \in Agents
    BY DEF Concerns
  <2>5. \A a : /\ a \in Mentioned(msg) => KeyFor(a, msg, m) = Key("thread.mentioned", a, t, m)
               /\ a \in (members \cap Agents) \ ({msg.by} \cup msg.mentions)
                    => KeyFor(a, msg, m) = Key("thread.replied", a, t, m)
    BY <1>7 DEF KeyFor, Mentioned
  <2>6. \A d : d \in direct <=>
          \/ \E a \in Mentioned(msg) : d = Draft(Key("thread.mentioned", a, t, m), 0)
          \/ \E a \in (members \cap Agents) \ ({msg.by} \cup msg.mentions) :
               d = Draft(Key("thread.replied", a, t, m), 0)
    BY <1>3 DEF MentionDrafts, ReplyDrafts
  <2>7. \A d : d \in direct <=>
          \E a : Concerns(a, msg, prior) /\ d = Draft(KeyFor(a, msg, m), 0)
    BY <2>3, <2>5, <2>6
  <2>8. ASSUME NEW a, Concerns(a, msg, prior)
        PROVE  LET d == Draft(KeyFor(a, msg, m), 0)
               IN  d \in Drafts /\ d.key = KeyFor(a, msg, m) /\ d = Draft(d.key, 0)
                   /\ d.key.message = m
    BY <2>1, <2>3, <2>4, <2>5, <2>8
  <2>9. /\ direct \subseteq Drafts
        /\ \A d \in direct : /\ d = Draft(d.key, 0)
                             /\ d.key.kind \in MessageKinds => d.key.message = Len(said) + 1
    BY <1>1, <2>7, <2>8
  <2>10. ASSUME NEW key \in Keys, key.kind \in MessageKinds
         PROVE  Has(direct, key) <=> \E a : Concerns(a, msg, prior)
                                            /\ key = KeyFor(a, msg, Len(said) + 1)
    BY <1>1, <2>7, <2>8 DEF Has
  <2>11. watch \subseteq Drafts /\ \A d \in watch : d.to = 0 /\ d.key.kind \notin MessageKinds
    <3>1. \A d \in watch : \E a \in Agents : d = Draft(Key("thread.watched", a, t, 0), 0)
      BY <1>3 DEF WatchDrafts
    <3> QED
      BY <2>1, <2>2, <3>1
  <2>12. cards' \in {Insert(cards, direct), Upsert(Insert(cards, direct), watch)}
    BY <1>4
  <2> QED
    BY <1>4, <1>7, <1>10, <2>9, <2>10, <2>11, <2>12, CardsOfMessage
<1>12. TypeOK'
  BY <1>4, <1>8, <1>9, <1>11 DEF TypeOK, daemonVars, DaemonTypes
<1>13. Behind'
  BY <1>4, <1>11 DEF IInv, Behind
<1>14. Talk'
  <2>1. \A i \in DOMAIN said' : said'[i].thread \in DOMAIN threads'
    BY <1>7, <1>8, <1>9 DEF IInv, Talk
  <2>2. ASSUME NEW u \in DOMAIN threads, NEW x \in Principals
        PROVE  x \in threads'[u].members <=>
                 \E i \in DOMAIN said' : said'[i].thread = u /\ Speaks(x, said'[i])
    <3>1. x \in threads[u].members <=>
            \E i \in 1..(m - 1) : said[i].thread = u /\ Speaks(x, said[i])
      BY <1>8 DEF IInv, Talk
    <3>2. x \in threads'[u].members <=> x \in threads[u].members \/ (u = t /\ Speaks(x, msg))
      BY <1>1, <1>2, <1>7, <1>9 DEF Speaks
    <3> QED
      BY <1>7, <1>8, <3>1, <3>2
  <2> QED
    BY <1>9, <2>1, <2>2 DEF Talk
<1>15. Posting'
  <2>1. /\ DOMAIN threads' = DOMAIN threads /\ outbox' = outbox
        /\ \A u \in DOMAIN threads : threads'[u].op = threads[u].op /\ threads'[u].by = threads[u].by
    BY <1>9 DEF daemonVars
  <2>2. Posting
    BY DEF IInv
  <2>3. \A u \in DOMAIN threads' :
          threads'[u].op # NoIntent => threads'[u].by = IntentAgent[threads'[u].op]
    BY <2>1, <2>2 DEF Posting
  <2>4. ASSUME NEW k \in Intents
        PROVE  /\ \A u, w \in DOMAIN threads' : threads'[u].op = k /\ threads'[w].op = k => u = w
               /\ outbox'[k] = "posted" => \E u \in DOMAIN threads' : threads'[u].op = k
    <3>1. /\ \A u, w \in DOMAIN threads : threads[u].op = k /\ threads[w].op = k => u = w
          /\ outbox[k] = "posted" => \E u \in DOMAIN threads : threads[u].op = k
      BY <2>2 DEF Posting, PostedOnce
    <3>2. \A u, w \in DOMAIN threads' : threads'[u].op = k /\ threads'[w].op = k => u = w
      BY <2>1, <3>1
    <3>3. outbox'[k] = "posted" => \E u \in DOMAIN threads' : threads'[u].op = k
      BY <2>1, <3>1
    <3> QED
      BY <3>2, <3>3
  <2> QED
    BY <2>3, <2>4 DEF Posting, PostedOnce
<1> QED
  BY <1>11, <1>12, <1>13, <1>14, <1>15 DEF IInv

LEMMA ServeStep ==
  ASSUME IInv, NEW k \in Intents, ServeThreadIntent(k) \/ ServeLate(k)
  PROVE  IInv'
<1> USE TypesAre, InboxAssumption, IntentAssumption
<1>1. IntentAgent[k] \in Principals /\ k # NoIntent
  BY DEF Principals
<1>2. PICK mentions \in SUBSET Agents : CreateThread(IntentAgent[k], k, mentions)
  BY DEF ServeThreadIntent, ServeLate
<1>3. /\ DaemonTypes'
      /\ \A j \in Intents : outbox'[j] = "posted" => outbox[j] = "posted" \/ j = k
  <2>1. CASE ServeLate(k)
    BY <2>1 DEF ServeLate, DaemonTypes
  <2>2. CASE ServeThreadIntent(k)
    BY <2>2 DEF ServeThreadIntent, Answered, Settled, DaemonTypes, OutboxStatuses
  <2> QED
    BY <2>1, <2>2
<1> QED
  BY <1>1, <1>2, <1>3, CreateThreadStep

LEMMA ServingStep ==
  ASSUME IInv, UNCHANGED daemonVars, Serving
  PROVE  IInv'
<1>1. ASSUME NEW p \in Principals, NEW mentions \in SUBSET Agents,
             CreateThread(p, NoIntent, mentions)
      PROVE  IInv'
  <2>1. /\ DaemonTypes'
        /\ \A k \in Intents : outbox'[k] = "posted" => outbox[k] = "posted" \/ k = NoIntent
    BY TypesAre DEF DaemonTypes, daemonVars
  <2> QED
    BY <1>1, <2>1, CreateThreadStep
<1> QED
  BY <1>1, CreateDocumentStep, EditStep, EditFailsStep, SubscribeStep, UnsubscribeStep,
     ReplyThreadStep, FinishViewStep DEF Serving

LEMMA Initially == InitAll => IInv
<1> SUFFICES ASSUME InitAll PROVE IInv
  OBVIOUS
<1> USE InboxAssumption, IntentAssumption DEF InitAll, Init
<1>1. 0 \in Versions /\ FirstVersion \in Versions
  BY DEF Versions
<1>5. DaemonTypes
  BY <1>1 DEF DaemonTypes, OutboxStatuses
<1>6. TypeOK
  BY <1>1, <1>5 DEF TypeOK, DaemonTypes
<1>2. Behind
  BY DEF Behind, Versions
<1>3. Posting /\ Talk
  BY DEF Posting, PostedOnce, Talk
<1>4. Carded
  BY DEF Carded, OneRow, Has, RightKey
<1> QED
  BY <1>2, <1>3, <1>4, <1>6 DEF IInv

LEMMA Inductive == IInv /\ [Next]_vars => IInv'
<1>1. ASSUME IInv, DaemonStep PROVE IInv'
  BY <1>1, OutboxStep, ServeStep, PollInboxStep, FinishItemStep, ViewDocumentStep DEF DaemonStep
<1>2. ASSUME IInv, UNCHANGED vars PROVE IInv'
  <2>1. UNCHANGED storeVars /\ UNCHANGED daemonVars
    BY <1>2 DEF vars
  <2>2. TypeOK'
    BY <1>2, <2>1 DEF IInv, TypeOK, storeVars, daemonVars, DaemonTypes
  <2> QED
    BY <1>2, <2>1, <2>2, DaemonOnly DEF daemonVars
<1> QED
  BY <1>1, <1>2, ServingStep, AnnounceDocumentStep, RestartBackendStep, RestartDaemonStep,
     ClockStep DEF Next

LEMMA Invariance == Spec => []IInv
BY Initially, Inductive, PTL DEF Spec

(* Every behaviour of ThreadDelivery keeps the store's tables and the        *)
(* daemon's outbox in their types.                                           *)
THEOREM DeliveryTypeCorrect == Spec => []TypeOK
<1>1. IInv => TypeOK
  BY DEF IInv
<1> QED
  BY <1>1, Invariance, PTL

(* Nothing an agent has viewed or finished covers a version that the next    *)
(* edit may be given (persistDocumentsPostgresLocked, MarkDocumentViewed),   *)
(* for any number of edits, failures and restarts.                           *)
THEOREM LaterEditsAreNews == Spec => []EditsStayNews
<1>1. IInv => EditsStayNews
  BY TypesAre DEF IInv, Behind, EditsStayNews, NextVersion, Versions, Cards
<1> QED
  BY <1>1, Invariance, PTL

(* A queued thread is created at most once and leaves the outbox as posted   *)
(* only when it exists (deliverThreadIntent, createThreadPostgres), for any  *)
(* number of intents, retries and late requests.                             *)
THEOREM ThreadsArePostedOnce == Spec => []PostedOnce
<1>1. IInv => PostedOnce
  BY DEF IInv, Posting
<1> QED
  BY <1>1, Invariance, PTL

(* A message reaches each agent of its thread in exactly one card, and       *)
(* nobody else (collectThreadMentionEventsPostgres and its siblings), for    *)
(* any number of agents, threads and messages.                               *)
THEOREM MessagesAreCardedOnce == Spec => []MessageCardedOnce
<1>1. IInv => MessageCardedOnce
  <2> SUFFICES ASSUME IInv, NEW m \in DOMAIN said, NEW a \in Agents
               PROVE  /\ a \in Audience(m) <=> CardsOn(a, m) # {}
                      /\ \A c, d \in CardsOn(a, m) : c = d
    BY DEF MessageCardedOnce
  <2>1. \A i \in DOMAIN said : i \in Nat /\ said[i] \in MessageRows
    BY TypesAre
  <2>2. ASSUME NEW i \in DOMAIN said, NEW b \in Agents
        PROVE  /\ MessageKey(b, i) \in Keys /\ MessageKey(b, i).kind \in MessageKinds
               /\ MessageKey(b, i).agent = b /\ MessageKey(b, i).message = i
    BY <2>1, KeyForIs DEF MessageKey, KeyFor
  <2>3. \A i \in DOMAIN said : Audience(i) \subseteq Agents
    BY DEF Audience
  <2>4. ASSUME NEW c \in CardsOn(a, m) PROVE a \in Audience(m) /\ c.key = MessageKey(a, m)
    <3>1. c \in cards /\ c.key \in Keys /\ c.key.kind \in MessageKinds
          /\ c.key.agent = a /\ c.key.message = m
      BY TypesAre DEF CardsOn, Cards
    <3>2. PICK i \in DOMAIN said : \E b \in Audience(i) : c.key = MessageKey(b, i)
      BY <3>1 DEF IInv, Carded, RightKey, Has
    <3> QED
      BY <2>2, <2>3, <3>1, <3>2
  <2>5. ASSUME a \in Audience(m) PROVE CardsOn(a, m) # {}
    <3>1. RightKey(MessageKey(a, m))
      BY <2>5 DEF RightKey
    <3>2. PICK c \in cards : c.key = MessageKey(a, m)
      BY <2>2, <3>1 DEF IInv, Carded, Has
    <3> QED
      BY <2>2, <3>2 DEF CardsOn
  <2>6. ASSUME NEW c \in CardsOn(a, m), NEW d \in CardsOn(a, m) PROVE c = d
    BY <2>4, <2>6 DEF CardsOn, IInv, Carded, OneRow
  <2> QED
    BY <2>4, <2>5, <2>6
<1> QED
  BY <1>1, Invariance, PTL
=============================================================================
