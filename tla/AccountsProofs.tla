--------------------------- MODULE AccountsProofs ---------------------------
(***************************************************************************)
(* Proofs about Accounts, for any sets of accounts, links, handles, agents *)
(* and runs and any number of requests at once.  The inductive invariant   *)
(* has three parts: what the tables say (Database), that no lock has two   *)
(* holders (Exclusive), and what a request that has come to a statement    *)
(* knows (LinkSlot, JoinSlot, WorkSlot).  A request that only reads or     *)
(* moves on is dealt with once (Quietly); a commit once for its own slot   *)
(* (Commits), after which it has to be shown not to disturb the others.    *)
(***************************************************************************)
EXTENDS Accounts, TLAPS

LinkType ==
  [state : {"unused", "live", "superseded", "spent"}, owner : People \cup {None},
   purpose : Purposes \cup {None}, age : {"young", "ripe", "expired", None}, uses : Nat,
   replaced : BOOLEAN]
MemberType == [handle : Handles \cup {None}, role : {"owner", "member", None}]
Items == Links \cup Invites \cup Agents \cup Runs \cup Daemons \cup {None}

(* What the tables say. *)
LinkInv ==
  \A l \in Links :
    /\ link[l].state = "unused" \/ link[l].owner \in People
    /\ link[l].state = "spent" => link[l].uses = 1
    /\ link[l].state # "spent" => link[l].uses = 0
    /\ link[l].replaced => link[l].state = "superseded"

WorkspaceInv ==
  /\ workspace # "live" => /\ \A p \in People : member[p] = NoMember
                           /\ \A g \in Agents : agent[g].state # "here"
  /\ \A i \in Invites : invite[i] # "none" => workspace # "none"
  /\ \A g \in Agents : agent[g].state = "here" => agent[g].handle \in Handles

RunInv ==
  /\ \A g \in Agents : agent[g].state = "here" /\ agent[g].run # None
       => run[agent[g].run].state # "unused" /\ run[agent[g].run].agent = g
  /\ \A r \in Runs : RunKept(r) => run[r].agent \in Agents

Database == LinkInv /\ WorkspaceInv /\ HandlesDistinct /\ RunInv

(* No lock has two holders. *)
Exclusive ==
  \A s, t \in Slots : s # t => request[s].holds \cap request[t].holds = {}

Claims(s) == request[s].holds \cup request[s].wants

(* What a request that is on its way knows, by the tables it works on. *)
LinkSlot(s) ==
  /\ request[s].op \in {"register", "resend", "forgot"} => request[s].who \in People
  /\ request[s].op \in Purposes
       => /\ request[s].item \in Links /\ request[s].item \in Claims(s)
          /\ request[s].at = "spend" => /\ request[s].item \in request[s].holds
                                        /\ link[request[s].item].state = "live"

Joins == {"add", "accept", "agent"}

JoinSlot(s) ==
  /\ request[s].op = "workspace" => request[s].who \in People /\ request[s].handle \in Handles
  /\ request[s].op \in {"add", "accept"} => request[s].who \in People
  /\ request[s].op = "accept" => request[s].item \in Invites
  /\ request[s].op = "agent" => request[s].item \in Daemons
  /\ request[s].op \in Joins
       => /\ request[s].handle \in Handles
          /\ workspace # "none"
          /\ request[s].at = "count" => request[s].handle \in Claims(s)
          /\ request[s].at = "insert" => request[s].handle \in request[s].holds
                                         /\ ~Taken(request[s].handle)

OnAgents == {"edit", "retire", "start"}

WorkSlot(s) ==
  /\ request[s].op \in OnAgents
       => /\ request[s].item \in Agents /\ request[s].item \in Claims(s)
          /\ agent[request[s].item].state # "unused"
          /\ request[s].at # "current" => request[s].item \in request[s].holds
          /\ /\ request[s].at = "cascade"
             /\ agent[request[s].item].state = "here" /\ agent[request[s].item].run # None
             => ~RunActive(agent[request[s].item].run)
          /\ /\ request[s].op = "edit" /\ request[s].at = "write"
             /\ agent[request[s].item].state = "here"
             => request[s].seen = agent[request[s].item].run
  /\ request[s].op \in {"report", "stop"}
       => /\ request[s].item \in Runs
          /\ run[request[s].item].state # "unused"
          /\ request[s].at = "write" /\ RunKept(request[s].item)
               => run[request[s].item].agent \in Claims(s)
  /\ request[s].op = "report" => request[s].phase \in {"active", "over"}
  /\ request[s].op = "unhost" => request[s].item \in Daemons

SlotInv(s) == LinkSlot(s) /\ JoinSlot(s) /\ WorkSlot(s)

IInv == TypeOK /\ Database /\ Exclusive /\ \A s \in Slots : SlotInv(s)

DataType ==
  /\ account \in [People -> {"none", "unverified", "verified"}]
  /\ jwt \subseteq People
  /\ link \in [Links -> LinkType]
  /\ workspace \in {"none", "live", "gone"}
  /\ member \in [People -> MemberType]
  /\ invite \in [Invites -> {"none", "open", "expired"}]
  /\ daemon \in [Daemons -> {"none", "active", "ready", "deleted"}]
  /\ agent \in [Agents -> AgentType]
  /\ run \in [Runs -> RunType]

\* TypeOK speaks of the tables and of the requests.
LEMMA Types ==
  TypeOK <=> DataType /\ request \in [Slots -> RequestType] /\ left \in 0..Requests
BY DEF TypeOK, DataType, LinkType, MemberType

LEMMA TypesNext ==
  ASSUME DataType', request' \in [Slots -> RequestType], left' \in 0..Requests
  PROVE  TypeOK'
BY DEF TypeOK, DataType, LinkType, MemberType

\* ------------------------------------------------------------ rows of requests

\* The records of requests have the type of requests.
LEMMA IdleType == Idle \in RequestType
BY DEF Idle, RequestType, Ops, Steps, Rows

LEMMA AskType ==
  ASSUME NEW op \in Ops, NEW at \in Steps, NEW who \in People \cup {None},
         NEW handle \in Handles \cup {None}, NEW item \in Items, NEW wants \in SUBSET Rows
  PROVE  Ask(op, at, who, handle, item, wants) \in RequestType
BY DEF Ask, RequestType, Items

LEMMA MovedType ==
  ASSUME NEW q \in RequestType, NEW at \in Steps, NEW wants \in SUBSET Rows
  PROVE  Moved(q, at, wants) \in RequestType
BY DEF Moved, RequestType

LEMMA GrantingType ==
  ASSUME NEW q \in RequestType
  PROVE  Granting(q) \in RequestType
BY DEF Granting, RequestType

LEMMA ReportingType ==
  ASSUME NEW q \in RequestType, NEW state \in {"active", "over"}
  PROVE  Reporting(q, state) \in RequestType
BY DEF Reporting, RequestType

LEMMA SeeingType ==
  ASSUME NEW q \in RequestType, NEW r \in Runs \cup {None}
  PROVE  Seeing(q, r) \in RequestType
BY DEF Seeing, RequestType

\* -------------------------------------------------------------------- frames

\* A slot keeps what it knows while its request and the tables it reads stay.
LEMMA LinkFrame ==
  ASSUME NEW t \in Slots, LinkSlot(t), request'[t] = request[t], link' = link
  PROVE  LinkSlot(t)'
BY DEF LinkSlot, Claims

LEMMA JoinFrame ==
  ASSUME NEW t \in Slots, JoinSlot(t), request'[t] = request[t],
         UNCHANGED <<workspace, member, agent>>
  PROVE  JoinSlot(t)'
BY DEF JoinSlot, Claims, Taken

LEMMA WorkFrame ==
  ASSUME NEW t \in Slots, WorkSlot(t), request'[t] = request[t], UNCHANGED <<agent, run>>
  PROVE  WorkSlot(t)'
BY DEF WorkSlot, Claims, RunActive, RunKept

LEMMA DatabaseFrame ==
  ASSUME Database, UNCHANGED <<link, memberVars, agentVars>>
  PROVE  Database'
BY DEF Database, LinkInv, WorkspaceInv, HandlesDistinct, RunInv, RunKept, memberVars, agentVars

\* The invariant after a step of one slot, ...
LEMMA Steps1 ==
  ASSUME IInv, NEW s \in Slots, request' \in [Slots -> RequestType],
         \A t \in Slots \ {s} : request'[t] = request[t],
         \A t \in Slots \ {s} : request'[s].holds \cap request[t].holds = {},
         left' \in 0..Requests, DataType', Database',
         \A t \in Slots : SlotInv(t)'
  PROVE  IInv'
<1>1. TypeOK'
  BY TypesNext
<1>2. Exclusive'
  BY DEF IInv, Exclusive
<1> QED
  BY <1>1, <1>2 DEF IInv

\* ... in which the tables that other slots rely on stay the same ...
LEMMA Quietly ==
  ASSUME IInv, NEW s \in Slots, request' \in [Slots -> RequestType],
         \A t \in Slots \ {s} : request'[t] = request[t],
         \A t \in Slots \ {s} : request'[s].holds \cap request[t].holds = {},
         left' \in 0..Requests, DataType', UNCHANGED <<link, memberVars, agentVars>>,
         SlotInv(s)'
  PROVE  IInv'
<1>1. ASSUME NEW t \in Slots PROVE SlotInv(t)'
  <2>1. CASE t = s
    BY <2>1
  <2>2. CASE t # s
    <3>1. SlotInv(t) /\ request'[t] = request[t]
      BY <2>2 DEF IInv
    <3> QED
      BY <3>1, LinkFrame, JoinFrame, WorkFrame DEF SlotInv, memberVars, agentVars
  <2> QED
    BY <2>1, <2>2
<1>2. Database'
  BY DatabaseFrame DEF IInv
<1> QED
  BY <1>1, <1>2, Steps1

\* ... or in which a transaction ends.
LEMMA Commits ==
  ASSUME IInv, NEW s \in Slots, Ends(s), DataType', Database',
         \A t \in Slots \ {s} : SlotInv(t)'
  PROVE  IInv'
<1>1. request \in [Slots -> RequestType] /\ left \in 0..Requests
  BY Types DEF IInv
<1>2. /\ request' \in [Slots -> RequestType] /\ left' \in 0..Requests
      /\ request'[s] = Idle
      /\ \A t \in Slots \ {s} : request'[t] = request[t]
  BY <1>1, IdleType DEF Ends
<1>3. SlotInv(s)'
  BY <1>2 DEF SlotInv, LinkSlot, JoinSlot, WorkSlot, Idle, Purposes, Joins, OnAgents
<1>4. request'[s].holds = {}
  BY <1>2 DEF Idle
<1> QED
  BY <1>2, <1>3, <1>4, Steps1

\* The other slots at a commit: their requests, and what they know before it.
LEMMA Others ==
  ASSUME IInv, NEW s \in Slots, Ends(s), NEW t \in Slots \ {s}
  PROVE  /\ request[t] \in RequestType /\ request[s] \in RequestType
         /\ request'[t] = request[t]
         /\ LinkSlot(t) /\ JoinSlot(t) /\ WorkSlot(t)
         /\ request[s].holds \cap request[t].holds = {}
<1>1. request \in [Slots -> RequestType]
  BY Types DEF IInv
<1> QED
  BY <1>1 DEF IInv, Ends, Exclusive, SlotInv

\* A request begins, goes on or gives up without touching the tables.
LEMMA Begins ==
  ASSUME IInv, NEW s \in Slots, NEW op \in Ops, NEW at \in Steps, NEW who \in People \cup {None},
         NEW handle \in Handles \cup {None}, NEW item \in Items, NEW wants \in SUBSET Rows,
         Serve(s, Ask(op, at, who, handle, item, wants)),
         DataType', UNCHANGED <<link, memberVars, agentVars>>,
         request'[s] = Ask(op, at, who, handle, item, wants) => SlotInv(s)'
  PROVE  IInv'
<1>1. request \in [Slots -> RequestType] /\ left \in 0..Requests
  BY Types DEF IInv
<1>2. /\ request' \in [Slots -> RequestType]
      /\ request'[s] = Ask(op, at, who, handle, item, wants)
      /\ \A t \in Slots \ {s} : request'[t] = request[t]
  BY <1>1, AskType DEF Serve
<1>3. left' \in 0..Requests
  BY <1>1, RequestsAssumption DEF Serve
<1>4. request'[s].holds = {}
  BY <1>2 DEF Ask
<1> QED
  BY <1>2, <1>3, <1>4, Quietly

LEMMA MovesOn ==
  ASSUME IInv, NEW s \in Slots, NEW at \in Steps, NEW wants \in SUBSET Rows, Goes(s, at, wants),
         UNCHANGED <<accountVars, memberVars, agentVars>>,
         request'[s] = Moved(request[s], at, wants) => SlotInv(s)'
  PROVE  IInv'
<1>1. request \in [Slots -> RequestType] /\ left \in 0..Requests /\ DataType
  BY Types DEF IInv
<1>2. /\ request' \in [Slots -> RequestType]
      /\ request'[s] = Moved(request[s], at, wants)
      /\ \A t \in Slots \ {s} : request'[t] = request[t]
  BY <1>1, MovedType DEF Goes
<1>3. request'[s].holds = request[s].holds
  BY <1>2 DEF Moved
<1>4. \A t \in Slots \ {s} : request'[s].holds \cap request[t].holds = {}
  BY <1>3 DEF IInv, Exclusive
<1>5. DataType' /\ left' \in 0..Requests
  BY <1>1 DEF DataType, Goes, accountVars, memberVars, agentVars
<1> QED
  BY <1>2, <1>4, <1>5, Quietly DEF accountVars

LEMMA GivesUp ==
  ASSUME IInv, NEW s \in Slots, Ends(s), UNCHANGED <<accountVars, memberVars, agentVars>>
  PROVE  IInv'
<1>1. DataType'
  BY Types DEF IInv, DataType, accountVars, memberVars, agentVars
<1>2. Database'
  BY DatabaseFrame DEF IInv, accountVars
<1>3. ASSUME NEW t \in Slots \ {s} PROVE SlotInv(t)'
  BY <1>3, Others, LinkFrame, JoinFrame, WorkFrame DEF SlotInv, accountVars, memberVars, agentVars
<1> QED
  BY <1>1, <1>2, <1>3, Commits

\* A request that is one statement.
LEMMA Meanwhile ==
  ASSUME IInv, UNCHANGED request, left' \in 0..Requests, DataType', Database',
         \A t \in Slots : SlotInv(t)'
  PROVE  IInv'
<1>1. request' \in [Slots -> RequestType]
  BY Types DEF IInv
<1>2. TypeOK'
  BY <1>1, TypesNext
<1>3. Exclusive'
  BY DEF IInv, Exclusive
<1> QED
  BY <1>2, <1>3 DEF IInv

\* --------------------------------------------------------------- e-mailed links

\* The tables that requests for links do not touch.
LEMMA SameData ==
  ASSUME IInv, UNCHANGED <<accountVars, memberVars, agentVars>>
  PROVE  DataType' /\ UNCHANGED <<link, memberVars, agentVars>>
BY Types DEF IInv, DataType, accountVars, memberVars, agentVars

LEMMA RegisterStep ==
  ASSUME IInv, NEW s \in Slots, NEW p \in People, Register(s, p)
  PROVE  IInv'
<1>1. DataType'
  BY Types DEF IInv, DataType, Register, Registered, memberVars, agentVars
<1>2. Serve(s, Ask("register", "supersede", p, None, None, {}))
      /\ UNCHANGED <<link, memberVars, agentVars>>
  BY DEF Register
<1>3. request'[s] = Ask("register", "supersede", p, None, None, {}) => SlotInv(s)'
  BY DEF SlotInv, LinkSlot, JoinSlot, WorkSlot, Ask, Purposes, Joins, OnAgents
<1>4. "register" \in Ops /\ "supersede" \in Steps /\ None \in Items /\ {} \in SUBSET Rows
  BY DEF Ops, Steps, Items
<1> QED
  BY <1>1, <1>2, <1>3, <1>4, Begins

LEMMA AskForLink ==
  ASSUME IInv, NEW s \in Slots, NEW p \in People, ResendVerification(s, p) \/ ForgotPassword(s, p)
  PROVE  IInv'
<1>1. PICK op \in {"resend", "forgot"} : Serve(s, Ask(op, "cooldown", p, None, None, {}))
  BY DEF ResendVerification, ForgotPassword
<1>2. DataType' /\ UNCHANGED <<link, memberVars, agentVars>>
  BY SameData DEF ResendVerification, ForgotPassword
<1>3. request'[s] = Ask(op, "cooldown", p, None, None, {}) => SlotInv(s)'
  BY DEF SlotInv, LinkSlot, JoinSlot, WorkSlot, Ask, Purposes, Joins, OnAgents
<1>4. op \in Ops /\ "cooldown" \in Steps /\ None \in Items /\ {} \in SUBSET Rows
  BY DEF Ops, Steps, Items
<1> QED
  BY <1>1, <1>2, <1>3, <1>4, Begins

LEMMA CooldownReadStep ==
  ASSUME IInv, NEW s \in Slots, CooldownRead(s)
  PROVE  IInv'
<1>1. UNCHANGED <<accountVars, memberVars, agentVars>>
  BY DEF CooldownRead
<1>2. CASE Ends(s)
  BY <1>1, <1>2, GivesUp
<1>3. CASE Goes(s, "supersede", {})
  <2>1. request'[s] = Moved(request[s], "supersede", {}) => SlotInv(s)'
    BY DEF IInv, CooldownRead, At, SlotInv, LinkSlot, JoinSlot, WorkSlot, Moved, Purposes, Joins,
           OnAgents
  <2> QED
    BY <1>1, <1>3, <2>1, MovesOn DEF Steps
<1> QED
  BY <1>2, <1>3 DEF CooldownRead

LEMMA SupersedeStep ==
  ASSUME IInv, NEW s \in Slots, Supersede(s)
  PROVE  IInv'
<1>1. PICK w \in SUBSET Rows : Goes(s, "issue", w)
  BY DEF Supersede, Unconsumed, Rows
<1>2. request'[s] = Moved(request[s], "issue", w) => SlotInv(s)'
  BY DEF IInv, Supersede, At, SlotInv, LinkSlot, JoinSlot, WorkSlot, Moved, Purposes, Joins,
         OnAgents
<1> QED
  BY <1>1, <1>2, MovesOn DEF Supersede, Steps

\* Rows of account_email_tokens.
LEMMA NewLinkIs ==
  ASSUME NEW p \in People, NEW purpose \in Purposes
  PROVE  /\ NewLink(p, purpose) \in LinkType /\ NewLink(p, purpose).owner = p
         /\ NewLink(p, purpose).state = "live" /\ NewLink(p, purpose).uses = 0
         /\ ~NewLink(p, purpose).replaced
BY DEF NewLink, LinkType

LEMMA SupersededIs ==
  ASSUME NEW l \in LinkType
  PROVE  /\ Superseded(l) \in LinkType /\ Superseded(l).owner = l.owner
         /\ Superseded(l).uses = l.uses
         /\ Superseded(l).state = IF l.state = "live" THEN "superseded" ELSE l.state
         /\ l.state # "live" => Superseded(l).replaced = l.replaced
BY DEF Superseded, LinkType

LEMMA UsedIs ==
  ASSUME NEW l \in LinkType
  PROVE  /\ Used(l) \in LinkType /\ Used(l).owner = l.owner
         /\ Used(l).uses = l.uses + 1 /\ Used(l).state = "spent"
         /\ Used(l).replaced = l.replaced
BY DEF Used, LinkType

LEMMA AgedIs ==
  ASSUME NEW l \in LinkType, NEW age \in {"ripe", "expired"}
  PROVE  /\ Aged(l, age) \in LinkType /\ Aged(l, age).owner = l.owner
         /\ Aged(l, age).uses = l.uses /\ Aged(l, age).state = l.state
         /\ Aged(l, age).replaced = l.replaced
BY DEF Aged, LinkType

LEMMA IssueLinkStep ==
  ASSUME IInv, NEW s \in Slots, NEW n \in Links, IssueLink(s, n)
  PROVE  IInv'
<1> DEFINE p == request[s].who
           u == PurposeOf(request[s].op)
<1>1. DataType /\ LinkInv /\ SlotInv(s) /\ request \in [Slots -> RequestType]
  BY Types DEF IInv, Database
<1>2. p \in People /\ u \in Purposes
  BY <1>1 DEF IssueLink, At, SlotInv, LinkSlot, PurposeOf, Purposes
<1>3. \A l \in Links : link'[l] = IF l = n THEN NewLink(p, u)
                                  ELSE IF l \in request[s].holds THEN Superseded(link[l])
                                  ELSE link[l]
  BY DEF IssueLink
<1>4. link \in [Links -> LinkType] /\ link' \in [Links -> LinkType]
  <2>1. link \in [Links -> LinkType]
    BY <1>1 DEF DataType
  <2>2. ASSUME NEW l \in Links PROVE link'[l] \in LinkType
    BY <1>2, <1>3, <2>1, NewLinkIs, SupersededIs
  <2>3. link' = [l \in Links |-> link'[l]]
    BY DEF IssueLink
  <2> QED
    BY <2>1, <2>2, <2>3
<1>5. DataType'
  BY <1>1, <1>4 DEF DataType, IssueLink, memberVars, agentVars
<1>6. LinkInv'
  BY <1>1, <1>2, <1>3, <1>4, NewLinkIs, SupersededIs DEF LinkInv
<1>7. Database'
  BY <1>6 DEF IInv, Database, WorkspaceInv, HandlesDistinct, RunInv, RunKept, IssueLink,
              memberVars, agentVars
<1>8. Ends(s)
  BY DEF IssueLink
<1>9. ASSUME NEW t \in Slots \ {s} PROVE SlotInv(t)'
  <2>1. /\ request'[t] = request[t] /\ LinkSlot(t) /\ JoinSlot(t) /\ WorkSlot(t)
        /\ request[s].holds \cap request[t].holds = {}
    BY <1>8, Others
  <2>2. JoinSlot(t)' /\ WorkSlot(t)'
    BY <2>1, JoinFrame, WorkFrame DEF IssueLink, memberVars, agentVars
  <2>3. LinkSlot(t)'
    BY <1>3, <2>1 DEF LinkSlot, Claims, IssueLink
  <2> QED
    BY <2>2, <2>3 DEF SlotInv
<1> QED
  BY <1>5, <1>7, <1>8, <1>9, Commits

LEMMA OpenLinkStep ==
  ASSUME IInv, NEW s \in Slots, NEW l \in Links, VerifyEmail(s, l) \/ ResetPassword(s, l)
  PROVE  IInv'
<1>1. PICK op \in Purposes : Serve(s, Ask(op, "read", None, None, l, {l}))
  BY DEF VerifyEmail, ResetPassword, OpenLink, Purposes
<1>2. DataType' /\ UNCHANGED <<link, memberVars, agentVars>>
  BY SameData DEF VerifyEmail, ResetPassword, OpenLink
<1>3. request'[s] = Ask(op, "read", None, None, l, {l}) => SlotInv(s)'
  BY DEF SlotInv, LinkSlot, JoinSlot, WorkSlot, Ask, Purposes, Joins, OnAgents, Claims
<1>4. op \in Ops /\ "read" \in Steps /\ l \in Items /\ {l} \in SUBSET Rows
  BY DEF Ops, Steps, Items, Rows, Purposes
<1> QED
  BY <1>1, <1>2, <1>3, <1>4, Begins

LEMMA LinkReadStep ==
  ASSUME IInv, NEW s \in Slots, LinkRead(s)
  PROVE  IInv'
<1>1. UNCHANGED <<accountVars, memberVars, agentVars>>
  BY DEF LinkRead
<1>2. CASE Ends(s)
  BY <1>1, <1>2, GivesUp
<1>3. CASE link[request[s].item].state = "live" /\ Goes(s, "spend", {})
  <2>1. request'[s] = Moved(request[s], "spend", {}) => SlotInv(s)'
    BY <1>1, <1>3 DEF IInv, LinkRead, At, SlotInv, LinkSlot, JoinSlot, WorkSlot, Moved, Purposes,
                      Joins, OnAgents, Claims, accountVars
  <2> QED
    BY <1>1, <1>3, <2>1, MovesOn DEF Steps
<1> QED
  BY <1>2, <1>3 DEF LinkRead

\* Both commits of a link that was read under its lock.
LEMMA SpendStep ==
  ASSUME IInv, NEW s \in Slots, EmailVerified(s) \/ PasswordReset(s)
  PROVE  IInv'
<1> DEFINE n == request[s].item
<1>1. DataType /\ LinkInv /\ SlotInv(s) /\ request \in [Slots -> RequestType]
  BY Types DEF IInv, Database
<1>2. /\ n \in Links /\ n \in request[s].holds /\ link[n].state = "live"
      /\ link[n].owner \in People
  BY <1>1 DEF EmailVerified, PasswordReset, At, SlotInv, LinkSlot, LinkInv, Purposes
<1>3. Ends(s) /\ UNCHANGED <<jwt, memberVars, agentVars>>
  BY DEF EmailVerified, PasswordReset
<1>4. link \in [Links -> LinkType]
  BY <1>1 DEF DataType
<1>5. \/ link' = link
      \/ link' = [link EXCEPT ![n] = Used(link[n])]
  BY DEF EmailVerified, PasswordReset
<1>6. link' \in [Links -> LinkType]
  BY <1>2, <1>4, <1>5, UsedIs
<1>7. DataType'
  <2>1. account' \in [People -> {"none", "unverified", "verified"}]
    BY <1>1, <1>2 DEF DataType, EmailVerified, PasswordReset
  <2> QED
    BY <1>1, <1>3, <1>6, <2>1 DEF DataType, memberVars, agentVars
<1>8. \A l \in Links : l # n => link'[l] = link[l]
  BY <1>4, <1>5
<1>9. LinkInv'
  <2>1. link'[n] = link[n] \/ link'[n] = Used(link[n])
    BY <1>2, <1>4, <1>5
  <2> QED
    BY <1>1, <1>2, <1>4, <1>8, <2>1, UsedIs DEF LinkInv
<1>10. Database'
  BY <1>3, <1>9 DEF IInv, Database, WorkspaceInv, HandlesDistinct, RunInv, RunKept,
                    memberVars, agentVars
<1>11. ASSUME NEW t \in Slots \ {s} PROVE SlotInv(t)'
  <2>1. /\ request'[t] = request[t] /\ LinkSlot(t) /\ JoinSlot(t) /\ WorkSlot(t)
        /\ request[s].holds \cap request[t].holds = {}
    BY <1>3, Others
  <2>2. JoinSlot(t)' /\ WorkSlot(t)'
    BY <1>3, <2>1, JoinFrame, WorkFrame DEF memberVars, agentVars
  <2>3. LinkSlot(t)'
    BY <1>2, <1>8, <2>1 DEF LinkSlot, Claims
  <2> QED
    BY <2>2, <2>3 DEF SlotInv
<1> QED
  BY <1>3, <1>7, <1>10, <1>11, Commits

LEMMA LinkSteps ==
  ASSUME IInv, NEW s \in Slots, LinkStep(s)
  PROVE  IInv'
BY RegisterStep, AskForLink, CooldownReadStep, SupersedeStep, IssueLinkStep, OpenLinkStep,
   LinkReadStep, SpendStep DEF LinkStep

\* ------------------------------------------------- the workspace and its members

LEMMA CreateWorkspaceStep ==
  ASSUME IInv, NEW s \in Slots, NEW p \in People, NEW h \in Handles, CreateWorkspace(s, p, h)
  PROVE  IInv'
<1>1. DataType' /\ UNCHANGED <<link, memberVars, agentVars>>
      /\ Serve(s, Ask("workspace", "insert", p, h, None, {}))
  BY SameData DEF CreateWorkspace
<1>2. request'[s] = Ask("workspace", "insert", p, h, None, {}) => SlotInv(s)'
  BY DEF SlotInv, LinkSlot, JoinSlot, WorkSlot, Ask, Purposes, Joins, OnAgents
<1>3. "workspace" \in Ops /\ "insert" \in Steps /\ None \in Items /\ {} \in SUBSET Rows
  BY DEF Ops, Steps, Items
<1> QED
  BY <1>1, <1>2, <1>3, Begins

LEMMA AddMemberStep ==
  ASSUME IInv, NEW s \in Slots, NEW p \in People, NEW q \in People, NEW h \in Handles,
         AddWorkspaceMember(s, p, q, h)
  PROVE  IInv'
<1>1. DataType' /\ UNCHANGED <<link, memberVars, agentVars>>
      /\ Serve(s, Ask("add", "count", q, h, None, {h}))
  BY SameData DEF AddWorkspaceMember, JoinAsked, HandleLock
<1>2. workspace' # "none"
  BY <1>1 DEF AddWorkspaceMember, requirePermission, MemberOf, MemberRow, memberVars
<1>3. request'[s] = Ask("add", "count", q, h, None, {h}) => SlotInv(s)'
  BY <1>2 DEF SlotInv, LinkSlot, JoinSlot, WorkSlot, Ask, Purposes, Joins, OnAgents, Claims
<1>4. "add" \in Ops /\ "count" \in Steps /\ None \in Items /\ {h} \in SUBSET Rows
  BY DEF Ops, Steps, Items, Rows
<1> QED
  BY <1>1, <1>3, <1>4, Begins

LEMMA AcceptInviteStep ==
  ASSUME IInv, NEW s \in Slots, NEW p \in People, NEW i \in Invites, NEW h \in Handles,
         AcceptWorkspaceInvite(s, p, i, h)
  PROVE  IInv'
<1>1. DataType' /\ UNCHANGED <<link, memberVars, agentVars>>
      /\ Serve(s, Ask("accept", "invite", p, h, i, {i}))
  BY SameData DEF AcceptWorkspaceInvite
<1>2. workspace' # "none"
  BY <1>1 DEF AcceptWorkspaceInvite, IInv, Database, WorkspaceInv, memberVars
<1>3. request'[s] = Ask("accept", "invite", p, h, i, {i}) => SlotInv(s)'
  BY <1>2 DEF SlotInv, LinkSlot, JoinSlot, WorkSlot, Ask, Purposes, Joins, OnAgents, Claims
<1>4. "accept" \in Ops /\ "invite" \in Steps /\ i \in Items /\ {i} \in SUBSET Rows
  BY DEF Ops, Steps, Items, Rows
<1> QED
  BY <1>1, <1>3, <1>4, Begins

LEMMA InviteReadStep ==
  ASSUME IInv, NEW s \in Slots, InviteRead(s)
  PROVE  IInv'
<1>1. UNCHANGED <<accountVars, memberVars, agentVars>>
  BY DEF InviteRead
<1>2. CASE Ends(s)
  BY <1>1, <1>2, GivesUp
<1>3. CASE Goes(s, "count", {request[s].handle})
  <2>1. JoinSlot(s) /\ request[s].op = "accept"
    BY DEF IInv, SlotInv, InviteRead, At
  <2>2. PICK w : w = {request[s].handle}
    OBVIOUS
  <2>3. w \in SUBSET Rows
    BY <2>1, <2>2 DEF JoinSlot, Joins, Rows
  <2>4. request'[s] = Moved(request[s], "count", w) => SlotInv(s)'
    BY <1>1, <2>1, <2>2 DEF SlotInv, LinkSlot, JoinSlot, WorkSlot, Moved, Purposes, Joins,
                            OnAgents, Claims, memberVars
  <2> QED
    BY <1>1, <1>3, <2>2, <2>3, <2>4, MovesOn DEF Steps
<1> QED
  BY <1>2, <1>3 DEF InviteRead, HandleLock

LEMMA HandleCountedStep ==
  ASSUME IInv, NEW s \in Slots, HandleCounted(s)
  PROVE  IInv'
<1>1. UNCHANGED <<accountVars, memberVars, agentVars>>
  BY DEF HandleCounted
<1>2. CASE Ends(s)
  BY <1>1, <1>2, GivesUp
<1>3. CASE ~Taken(request[s].handle) /\ Goes(s, "insert", {})
  <2>1. JoinSlot(s) /\ request[s].op \in Joins /\ request[s].at = "count" /\ request[s].wants = {}
    BY DEF IInv, SlotInv, HandleCounted, At, Joins
  <2>2. ASSUME request'[s] = Moved(request[s], "insert", {}) PROVE SlotInv(s)'
    <3>1. JoinSlot(s)'
      BY <1>1, <1>3, <2>1, <2>2 DEF JoinSlot, Moved, Joins, Claims, Taken, memberVars, agentVars
    <3>2. LinkSlot(s)' /\ WorkSlot(s)'
      BY <2>1, <2>2 DEF LinkSlot, WorkSlot, Moved, Purposes, Joins, OnAgents
    <3> QED
      BY <3>1, <3>2 DEF SlotInv
  <2> QED
    BY <1>1, <1>3, <2>2, MovesOn DEF Steps
<1> QED
  BY <1>2, <1>3 DEF HandleCounted

LEMMA WorkspaceInsertedStep ==
  ASSUME IInv, NEW s \in Slots, WorkspaceInserted(s)
  PROVE  IInv'
<1>1. Ends(s) /\ UNCHANGED <<accountVars, invite, agentVars>>
  BY DEF WorkspaceInserted
<1>2. CASE UNCHANGED <<workspace, member>>
  BY <1>1, <1>2, GivesUp DEF memberVars
<1>3. CASE /\ workspace = "none" /\ workspace' = "live"
           /\ member' = [member EXCEPT ![request[s].who] =
                           [handle |-> request[s].handle, role |-> "owner"]]
  <2> DEFINE p == request[s].who
             h == request[s].handle
  <2>1. p \in People /\ h \in Handles
    BY DEF IInv, SlotInv, JoinSlot, WorkspaceInserted, At
  <2>2. DataType /\ Database
    BY Types DEF IInv
  <2>3. [handle |-> h, role |-> "owner"] \in MemberType
    BY <2>1 DEF MemberType
  <2>4. member \in [People -> MemberType] /\ member' \in [People -> MemberType]
    BY <1>3, <2>1, <2>2, <2>3 DEF DataType
  <2>5. DataType'
    BY <1>1, <1>3, <2>2, <2>4 DEF DataType, accountVars, agentVars
  <2>6. \A q \in People : member'[q].handle = IF q = p THEN h ELSE None
    BY <1>3, <2>1, <2>2, <2>4 DEF Database, WorkspaceInv, NoMember
  <2>7. \A g \in Agents : agent'[g].state # "here"
    BY <1>1, <1>3, <2>2 DEF Database, WorkspaceInv, agentVars
  <2>8. Database'
    <3>1. LinkInv' /\ RunInv'
      BY <1>1, <2>2 DEF Database, LinkInv, RunInv, RunKept, accountVars, agentVars
    <3>2. WorkspaceInv'
      BY <1>1, <1>3, <2>2, <2>7 DEF Database, WorkspaceInv, agentVars
    <3>3. HandlesDistinct'
      BY <2>6, <2>7 DEF HandlesDistinct
    <3> QED
      BY <3>1, <3>2, <3>3 DEF Database
  <2>9. ASSUME NEW t \in Slots \ {s} PROVE SlotInv(t)'
    <3>1. request'[t] = request[t] /\ LinkSlot(t) /\ JoinSlot(t) /\ WorkSlot(t)
      BY <1>1, Others
    <3>2. LinkSlot(t)' /\ WorkSlot(t)'
      BY <1>1, <3>1, LinkFrame, WorkFrame DEF accountVars, agentVars
    <3>3. JoinSlot(t)'
      BY <1>3, <3>1 DEF JoinSlot, Joins
    <3> QED
      BY <3>2, <3>3 DEF SlotInv
  <2> QED
    BY <1>1, <2>5, <2>8, <2>9, Commits
<1> QED
  BY <1>2, <1>3 DEF WorkspaceInserted, SlugAvailable

LEMMA JoinedStep ==
  ASSUME IInv, NEW s \in Slots, MemberAdded(s) \/ InviteAccepted(s)
  PROVE  IInv'
<1> DEFINE p == request[s].who
           h == request[s].handle
<1>1. /\ Ends(s) /\ UNCHANGED <<accountVars, workspace, invite, agentVars>>
      /\ member' = Joined(p, h)
  BY DEF MemberAdded, InviteAccepted
<1>2. p \in People /\ h \in Handles /\ h \in request[s].holds /\ ~Taken(h)
  BY DEF IInv, SlotInv, JoinSlot, Joins, MemberAdded, InviteAccepted, At
<1>3. CASE member' = member
  BY <1>1, <1>3, GivesUp DEF memberVars
<1>4. CASE workspace = "live"
           /\ member' = [member EXCEPT ![p] = [handle |-> h, role |-> "member"]]
  <2>1. DataType /\ Database
    BY Types DEF IInv
  <2>2. [handle |-> h, role |-> "member"] \in MemberType
    BY <1>2 DEF MemberType
  <2>3. member \in [People -> MemberType] /\ member' \in [People -> MemberType]
    BY <1>2, <1>4, <2>1, <2>2 DEF DataType
  <2>4. DataType'
    BY <1>1, <2>1, <2>3 DEF DataType, accountVars, agentVars
  <2>5. \A q \in People : member'[q].handle = IF q = p THEN h ELSE member[q].handle
    BY <1>2, <1>4, <2>3
  <2>6. Database'
    <3>1. LinkInv' /\ RunInv'
      BY <1>1, <2>1 DEF Database, LinkInv, RunInv, RunKept, accountVars, agentVars
    <3>2. WorkspaceInv'
      BY <1>1, <1>4, <2>1 DEF Database, WorkspaceInv, agentVars
    <3>3. HandlesDistinct'
      BY <1>1, <1>2, <2>1, <2>5 DEF Database, HandlesDistinct, Taken, agentVars
    <3> QED
      BY <3>1, <3>2, <3>3 DEF Database
  <2>7. ASSUME NEW t \in Slots \ {s} PROVE SlotInv(t)'
    <3>1. /\ request'[t] = request[t] /\ LinkSlot(t) /\ JoinSlot(t) /\ WorkSlot(t)
          /\ request[s].holds \cap request[t].holds = {}
      BY <1>1, Others
    <3>2. LinkSlot(t)' /\ WorkSlot(t)'
      BY <1>1, <3>1, LinkFrame, WorkFrame DEF accountVars, agentVars
    <3>3. JoinSlot(t)'
      BY <1>1, <1>2, <2>5, <3>1 DEF JoinSlot, Joins, Claims, Taken, agentVars
    <3> QED
      BY <3>2, <3>3 DEF SlotInv
  <2> QED
    BY <1>1, <2>4, <2>6, <2>7, Commits
<1> QED
  BY <1>1, <1>3, <1>4 DEF Joined

LEMMA DeleteWorkspaceStep ==
  ASSUME IInv, NEW s \in Slots, NEW p \in People, DeleteWorkspace(s, p)
  PROVE  IInv'
<1>1. DataType' /\ UNCHANGED <<link, memberVars, agentVars>>
      /\ Serve(s, Ask("close", "delete", p, None, None, {}))
  BY SameData DEF DeleteWorkspace
<1>2. request'[s] = Ask("close", "delete", p, None, None, {}) => SlotInv(s)'
  BY DEF SlotInv, LinkSlot, JoinSlot, WorkSlot, Ask, Purposes, Joins, OnAgents
<1>3. "close" \in Ops /\ "delete" \in Steps /\ None \in Items /\ {} \in SUBSET Rows
  BY DEF Ops, Steps, Items
<1> QED
  BY <1>1, <1>2, <1>3, Begins

\* Rows of agents and of their runs.
LEMMA GoneIs ==
  ASSUME NEW g \in AgentType
  PROVE  /\ Gone(g) \in AgentType
         /\ Gone(g).state = IF g.state = "here" THEN "gone" ELSE g.state
BY DEF Gone, AgentType

LEMMA CurrentIs ==
  ASSUME NEW g \in AgentType, NEW r \in Runs \cup {None}
  PROVE  /\ Current(g, r) \in AgentType /\ Current(g, r).state = g.state
         /\ Current(g, r).handle = g.handle /\ Current(g, r).daemon = g.daemon
         /\ Current(g, r).run = r
BY DEF Current, AgentType

LEMMA NewAgentIs ==
  ASSUME NEW h \in Handles, NEW d \in Daemons
  PROVE  /\ NewAgent(h, d) \in AgentType /\ NewAgent(h, d).state = "here"
         /\ NewAgent(h, d).handle = h /\ NewAgent(h, d).run = None
BY DEF NewAgent, AgentType

LEMMA DroppedIs ==
  ASSUME NEW r \in RunType
  PROVE  /\ Dropped(r) \in RunType
         /\ Dropped(r).state = IF r.state = "unused" THEN "unused" ELSE "gone"
BY DEF Dropped, RunType

LEMMA StoredIs ==
  ASSUME NEW g \in Agents, NEW state \in {"active", "over"}
  PROVE  /\ Stored(g, state) \in RunType /\ Stored(g, state).agent = g
         /\ Stored(g, state).state = state
BY DEF Stored, RunType

LEMMA NewRunIs ==
  ASSUME NEW g \in Agents
  PROVE  NewRun(g) \in RunType /\ NewRun(g).agent = g /\ NewRun(g).state = "active"
BY DEF NewRun, RunType

LEMMA WorkspaceDeletedStep ==
  ASSUME IInv, NEW s \in Slots, WorkspaceDeleted(s)
  PROVE  IInv'
<1>1. Ends(s) /\ UNCHANGED accountVars
  BY DEF WorkspaceDeleted
<1>2. CASE UNCHANGED <<memberVars, agentVars>>
  BY <1>1, <1>2, GivesUp
<1>3. CASE /\ workspace' = "gone"
           /\ member' = [p \in People |-> NoMember]
           /\ invite' = [i \in Invites |-> IF invite[i] = "none" THEN "none" ELSE "expired"]
           /\ daemon' = [d \in Daemons |-> IF daemon[d] = "none" THEN "none" ELSE "deleted"]
           /\ agent' = [g \in Agents |-> Gone(agent[g])]
           /\ run' = [r \in Runs |-> Dropped(run[r])]
  <2>1. DataType /\ Database
    BY Types DEF IInv
  <2>2. /\ agent' \in [Agents -> AgentType]
        /\ \A g \in Agents : agent'[g].state = IF agent[g].state = "here" THEN "gone"
                                               ELSE agent[g].state
    BY <1>3, <2>1, GoneIs DEF DataType
  <2>3. /\ run' \in [Runs -> RunType]
        /\ \A r \in Runs : run'[r].state = IF run[r].state = "unused" THEN "unused" ELSE "gone"
    BY <1>3, <2>1, DroppedIs DEF DataType
  <2>4. NoMember \in MemberType /\ NoMember.handle = None
    BY DEF NoMember, MemberType
  <2>5. DataType'
    BY <1>1, <1>3, <2>1, <2>2, <2>3, <2>4 DEF DataType, accountVars
  <2>6. Database'
    <3>1. LinkInv'
      BY <1>1, <2>1 DEF Database, LinkInv, accountVars
    <3>2. WorkspaceInv'
      BY <1>3, <2>2 DEF WorkspaceInv
    <3>3. HandlesDistinct'
      BY <1>3, <2>2, <2>4 DEF HandlesDistinct
    <3>4. RunInv'
      BY <2>2, <2>3 DEF RunInv, RunKept
    <3> QED
      BY <3>1, <3>2, <3>3, <3>4 DEF Database
  <2>7. ASSUME NEW t \in Slots \ {s} PROVE SlotInv(t)'
    <3>1. request'[t] = request[t] /\ LinkSlot(t) /\ JoinSlot(t) /\ WorkSlot(t)
      BY <1>1, Others
    <3>2. LinkSlot(t)'
      BY <1>1, <3>1, LinkFrame DEF accountVars
    <3>3. \A h \in Handles : ~Taken(h)'
      BY <1>3, <2>2, <2>4, NoneAssumption DEF Taken
    <3>4. JoinSlot(t)'
      BY <1>3, <3>1, <3>3 DEF JoinSlot, Joins, Claims
    <3>5. WorkSlot(t)'
      BY <2>2, <2>3, <3>1 DEF WorkSlot, Claims, RunKept
    <3> QED
      BY <3>2, <3>4, <3>5 DEF SlotInv
  <2> QED
    BY <1>1, <2>5, <2>6, <2>7, Commits
<1> QED
  BY <1>2, <1>3 DEF WorkspaceDeleted

LEMMA MemberSteps ==
  ASSUME IInv, NEW s \in Slots, MemberStep(s)
  PROVE  IInv'
BY CreateWorkspaceStep, AddMemberStep, AcceptInviteStep, WorkspaceInsertedStep, InviteReadStep,
   HandleCountedStep, JoinedStep, DeleteWorkspaceStep, WorkspaceDeletedStep DEF MemberStep

\* ------------------------------------------------------------ daemons and agents

LEMMA DeleteDaemonStep ==
  ASSUME IInv, NEW s \in Slots, NEW p \in People, NEW d \in Daemons, DeleteDaemon(s, p, d)
  PROVE  IInv'
<1>1. DataType' /\ UNCHANGED <<link, memberVars, agentVars>>
      /\ Serve(s, Ask("unhost", "hosted", p, None, d, {d}))
  BY SameData DEF DeleteDaemon
<1>2. request'[s] = Ask("unhost", "hosted", p, None, d, {d}) => SlotInv(s)'
  BY DEF SlotInv, LinkSlot, JoinSlot, WorkSlot, Ask, Purposes, Joins, OnAgents
<1>3. "unhost" \in Ops /\ "hosted" \in Steps /\ d \in Items /\ {d} \in SUBSET Rows
  BY DEF Ops, Steps, Items, Rows
<1> QED
  BY <1>1, <1>2, <1>3, Begins

LEMMA HostedReadStep ==
  ASSUME IInv, NEW s \in Slots, HostedRead(s)
  PROVE  IInv'
<1>1. UNCHANGED <<accountVars, memberVars, agentVars>>
  BY DEF HostedRead
<1>2. CASE Ends(s)
  BY <1>1, <1>2, GivesUp
<1>3. PICK w : w = Hosted(request[s].item)
  OBVIOUS
<1>4. w \in SUBSET Rows /\ "write" \in Steps
  BY <1>3 DEF Hosted, Rows, Steps
<1>5. CASE Goes(s, "write", w)
  <2>1. request'[s] = Moved(request[s], "write", w) => SlotInv(s)'
    BY <1>1 DEF IInv, HostedRead, At, SlotInv, LinkSlot, JoinSlot, WorkSlot, Moved, Purposes,
                Joins, OnAgents, agentVars
  <2> QED
    BY <1>1, <1>4, <1>5, <2>1, MovesOn
<1> QED
  BY <1>2, <1>3, <1>5 DEF HostedRead

\* An update of agents' rows that at most changes the current runs of agents
\* whose rows the transaction has locked.
LEMMA RowsRewritten ==
  ASSUME IInv, NEW s \in Slots, Ends(s), UNCHANGED <<accountVars, memberVars, run>>,
         daemon' \in [Daemons -> {"none", "active", "ready", "deleted"}],
         agent' \in [Agents -> AgentType],
         \A g \in Agents : agent'[g] # agent[g] => g \in request[s].holds,
         \A g \in Agents : /\ agent'[g].state = agent[g].state
                           /\ agent'[g].handle = agent[g].handle
                           /\ agent'[g].run \in {None, agent[g].run}
  PROVE  IInv'
<1>1. DataType /\ Database
  BY Types DEF IInv
<1>2. DataType'
  BY <1>1 DEF DataType, accountVars, memberVars
<1>3. Database'
  <2>1. LinkInv'
    BY <1>1 DEF Database, LinkInv, accountVars
  <2>2. WorkspaceInv'
    BY <1>1 DEF Database, WorkspaceInv, memberVars
  <2>3. HandlesDistinct'
    BY <1>1 DEF Database, HandlesDistinct, memberVars
  <2>4. RunInv'
    BY <1>1 DEF Database, RunInv, RunKept
  <2> QED
    BY <2>1, <2>2, <2>3, <2>4 DEF Database
<1>4. ASSUME NEW t \in Slots \ {s} PROVE SlotInv(t)'
  <2>1. /\ request'[t] = request[t] /\ LinkSlot(t) /\ JoinSlot(t) /\ WorkSlot(t)
        /\ request[s].holds \cap request[t].holds = {}
    BY Others
  <2>2. LinkSlot(t)'
    BY <2>1, LinkFrame DEF accountVars
  <2>3. JoinSlot(t)'
    BY <2>1 DEF JoinSlot, Claims, Taken, memberVars
  <2>4. WorkSlot(t)'
    <3>1. CASE request[t].op \in OnAgents /\ request[t].at # "current"
      <4>1. agent'[request[t].item] = agent[request[t].item]
        BY <2>1, <3>1 DEF WorkSlot
      <4> QED
        BY <2>1, <3>1, <4>1 DEF WorkSlot, Claims, RunActive, RunKept, OnAgents
    <3>2. CASE ~(request[t].op \in OnAgents /\ request[t].at # "current")
      BY <2>1, <3>2 DEF WorkSlot, Claims, RunKept, OnAgents
    <3> QED
      BY <3>1, <3>2
  <2> QED
    BY <2>2, <2>3, <2>4 DEF SlotInv
<1> QED
  BY <1>2, <1>3, <1>4, Commits

LEMMA DaemonDeletedStep ==
  ASSUME IInv, NEW s \in Slots, DaemonDeleted(s)
  PROVE  IInv'
<1>1. Ends(s) /\ UNCHANGED <<accountVars, memberVars, run>> /\ DataType
  BY Types DEF DaemonDeleted, IInv
<1>2. CASE UNCHANGED <<daemon, agent>>
  BY <1>1, <1>2, GivesUp DEF agentVars
<1>3. CASE /\ daemon' = [daemon EXCEPT ![request[s].item] = "deleted"]
           /\ agent' = [g \in Agents |->
                IF g \in request[s].holds THEN Current(agent[g], None) ELSE agent[g]]
  <2>1. daemon' \in [Daemons -> {"none", "active", "ready", "deleted"}]
    BY <1>1, <1>3 DEF DataType
  <2>2. ASSUME NEW g \in Agents
        PROVE  /\ agent'[g] \in AgentType
               /\ agent'[g].state = agent[g].state /\ agent'[g].handle = agent[g].handle
               /\ agent'[g].run \in {None, agent[g].run}
               /\ agent'[g] # agent[g] => g \in request[s].holds
    <3>1. agent[g] \in AgentType
      BY <1>1 DEF DataType
    <3> QED
      BY <1>3, <3>1, CurrentIs
  <2>3. agent' \in [Agents -> AgentType]
    BY <1>3, <2>2
  <2> QED
    BY <1>1, <2>1, <2>2, <2>3, RowsRewritten
<1> QED
  BY <1>2, <1>3 DEF DaemonDeleted

LEMMA CreateAgentStep ==
  ASSUME IInv, NEW s \in Slots, NEW p \in People, NEW d \in Daemons, NEW h \in Handles,
         CreateAgent(s, p, d, h)
  PROVE  IInv'
<1>1. DataType' /\ UNCHANGED <<link, memberVars, agentVars>>
      /\ Serve(s, Ask("agent", "count", p, h, d, {h}))
  BY SameData DEF CreateAgent, AgentAsked, HandleLock
<1>2. workspace' # "none"
  BY <1>1 DEF CreateAgent, requirePermission, MemberOf, MemberRow, memberVars
<1>3. request'[s] = Ask("agent", "count", p, h, d, {h}) => SlotInv(s)'
  BY <1>2 DEF SlotInv, LinkSlot, JoinSlot, WorkSlot, Ask, Purposes, Joins, OnAgents, Claims
<1>4. "agent" \in Ops /\ "count" \in Steps /\ d \in Items /\ {h} \in SUBSET Rows
  BY DEF Ops, Steps, Items, Rows
<1> QED
  BY <1>1, <1>3, <1>4, Begins

LEMMA AgentInsertedStep ==
  ASSUME IInv, NEW s \in Slots, NEW n \in Agents, AgentInserted(s, n)
  PROVE  IInv'
<1> DEFINE h == request[s].handle
           d == request[s].item
<1>1. Ends(s) /\ UNCHANGED <<accountVars, memberVars, daemon, run>> /\ agent[n].state = "unused"
  BY DEF AgentInserted
<1>2. h \in Handles /\ d \in Daemons /\ h \in request[s].holds /\ ~Taken(h)
  BY DEF IInv, SlotInv, JoinSlot, Joins, AgentInserted, At
<1>3. CASE agent' = agent
  BY <1>1, <1>3, GivesUp DEF agentVars
<1>4. CASE workspace = "live" /\ agent' = [agent EXCEPT ![n] = NewAgent(h, d)]
  <2>1. DataType /\ Database
    BY Types DEF IInv
  <2>2. agent \in [Agents -> AgentType] /\ agent' \in [Agents -> AgentType]
    BY <1>2, <1>4, <2>1, NewAgentIs DEF DataType
  <2>3. /\ agent'[n].state = "here" /\ agent'[n].handle = h /\ agent'[n].run = None
        /\ \A g \in Agents : g # n => agent'[g] = agent[g]
    BY <1>2, <1>4, <2>2, NewAgentIs
  <2>4. DataType'
    BY <1>1, <2>1, <2>2 DEF DataType, accountVars, memberVars
  <2>5. Database'
    <3>1. LinkInv'
      BY <1>1, <2>1 DEF Database, LinkInv, accountVars
    <3>2. WorkspaceInv'
      BY <1>1, <1>2, <1>4, <2>1, <2>3 DEF Database, WorkspaceInv, memberVars
    <3>3. HandlesDistinct'
      BY <1>1, <1>2, <2>1, <2>3 DEF Database, HandlesDistinct, Taken, memberVars
    <3>4. RunInv'
      BY <1>1, <2>1, <2>3 DEF Database, RunInv, RunKept
    <3> QED
      BY <3>1, <3>2, <3>3, <3>4 DEF Database
  <2>6. ASSUME NEW t \in Slots \ {s} PROVE SlotInv(t)'
    <3>1. /\ request'[t] = request[t] /\ LinkSlot(t) /\ JoinSlot(t) /\ WorkSlot(t)
          /\ request[s].holds \cap request[t].holds = {}
      BY <1>1, Others
    <3>2. LinkSlot(t)'
      BY <1>1, <3>1, LinkFrame DEF accountVars
    <3>3. JoinSlot(t)'
      BY <1>1, <1>2, <2>3, <3>1 DEF JoinSlot, Joins, Claims, Taken, memberVars
    <3>4. WorkSlot(t)'
      <4>1. request[t].op \in OnAgents => request[t].item # n
        BY <1>1, <3>1 DEF WorkSlot
      <4> QED
        BY <1>1, <2>3, <3>1, <4>1 DEF WorkSlot, Claims, RunActive, RunKept, OnAgents
    <3> QED
      BY <3>2, <3>3, <3>4 DEF SlotInv
  <2> QED
    BY <1>1, <2>4, <2>5, <2>6, Commits
<1> QED
  BY <1>3, <1>4 DEF AgentInserted

\* UpdateAgent, UpdateAgentSession, DeleteAgent and StartAgentRun ask for the
\* lock of the agent's row.
LEMMA AskForAgent ==
  ASSUME IInv, NEW s \in Slots, NEW g \in Agents,
         \/ UpdateAgentSession(s, g)
         \/ \E p \in People : UpdateAgent(s, p, g) \/ DeleteAgent(s, p, g) \/ StartAgentRun(s, p, g)
  PROVE  IInv'
<1>1. PICK op \in OnAgents, who \in People \cup {None} :
        Serve(s, Ask(op, "current", who, None, g, {g}))
  BY DEF UpdateAgentSession, UpdateAgent, DeleteAgent, StartAgentRun, AgentEdit, AgentLock, OnAgents
<1>2. DataType' /\ UNCHANGED <<link, memberVars, agentVars>> /\ agent[g].state = "here"
  BY SameData DEF UpdateAgentSession, UpdateAgent, DeleteAgent, StartAgentRun
<1>3. request'[s] = Ask(op, "current", who, None, g, {g}) => SlotInv(s)'
  BY <1>2 DEF SlotInv, LinkSlot, JoinSlot, WorkSlot, Ask, Purposes, Joins, OnAgents, Claims,
              agentVars
<1>4. op \in Ops /\ "current" \in Steps /\ g \in Items /\ {g} \in SUBSET Rows
  BY DEF Ops, Steps, Items, Rows, OnAgents
<1> QED
  BY <1>1, <1>2, <1>3, <1>4, Begins

\* What the statements that follow know of the agent.
LEMMA OnAgent ==
  ASSUME IInv, NEW s \in Slots, request[s].op \in OnAgents, request[s].wants = {}
  PROVE  /\ request[s] \in RequestType /\ request[s].item \in Agents
         /\ request[s].item \in request[s].holds
         /\ agent[request[s].item] \in AgentType /\ agent[request[s].item].state # "unused"
         /\ RunInv
<1>1. DataType /\ request \in [Slots -> RequestType] /\ RunInv /\ WorkSlot(s)
  BY Types DEF IInv, Database, SlotInv
<1> QED
  BY <1>1 DEF DataType, WorkSlot, Claims

LEMMA AgentRowReadStep ==
  ASSUME IInv, NEW s \in Slots, AgentRowRead(s)
  PROVE  IInv'
<1> DEFINE g == request[s].item
           q == Moved(Seeing(request[s], agent[g].run), "write", {})
<1>1. UNCHANGED <<accountVars, memberVars, agentVars>> /\ request[s].op = "edit"
      /\ request[s].wants = {}
  BY DEF AgentRowRead, At
<1>2. CASE Ends(s)
  BY <1>1, <1>2, GivesUp
<1>3. CASE agent[g].state = "here" /\ request' = [request EXCEPT ![s] = q] /\ UNCHANGED left
  <2>1. /\ request[s] \in RequestType /\ g \in Agents /\ g \in request[s].holds
        /\ agent[g] \in AgentType /\ agent[g].state # "unused"
    BY <1>1, OnAgent DEF OnAgents
  <2>2. agent[g].run \in Runs \cup {None}
    BY <2>1 DEF AgentType
  <2>3. q \in RequestType
    BY <2>1, <2>2, SeeingType, MovedType DEF Steps
  <2>4. request \in [Slots -> RequestType] /\ left \in 0..Requests
    BY Types DEF IInv
  <2>5. /\ request' \in [Slots -> RequestType] /\ left' \in 0..Requests /\ request'[s] = q
        /\ \A t \in Slots \ {s} : request'[t] = request[t]
    BY <1>3, <2>3, <2>4
  <2>6. /\ request'[s].op = "edit" /\ request'[s].at = "write" /\ request'[s].item = g
        /\ request'[s].seen = agent[g].run /\ request'[s].holds = request[s].holds
    BY <1>1, <2>5 DEF Moved, Seeing
  <2>7. SlotInv(s)'
    BY <1>1, <2>1, <2>6 DEF SlotInv, LinkSlot, JoinSlot, WorkSlot, Purposes, Joins, OnAgents,
                            Claims, agentVars
  <2>8. \A t \in Slots \ {s} : request'[s].holds \cap request[t].holds = {}
    BY <2>6 DEF IInv, Exclusive
  <2> QED
    BY <1>1, <2>5, <2>7, <2>8, SameData, Quietly
<1> QED
  BY <1>2, <1>3 DEF AgentRowRead

LEMMA AgentRowWrittenStep ==
  ASSUME IInv, NEW s \in Slots, AgentRowWritten(s)
  PROVE  IInv'
<1> DEFINE g == request[s].item
<1>1. /\ Ends(s) /\ UNCHANGED <<accountVars, memberVars, daemon, run>>
      /\ request[s].op = "edit" /\ request[s].at = "write" /\ request[s].wants = {}
  BY DEF AgentRowWritten, At
<1>2. CASE agent' = agent
  BY <1>1, <1>2, GivesUp DEF agentVars
<1>3. CASE agent[g].state = "here" /\ agent' = [agent EXCEPT ![g] = Current(agent[g], request[s].seen)]
  <2>1. g \in Agents /\ agent[g] \in AgentType /\ request[s].seen = agent[g].run
    BY <1>1, <1>3, OnAgent DEF IInv, SlotInv, WorkSlot, OnAgents
  <2>2. Current(agent[g], agent[g].run) = agent[g]
    BY <2>1 DEF Current, AgentType
  <2>3. agent \in [Agents -> AgentType]
    BY Types DEF IInv, DataType
  <2>4. agent' = agent
    BY <1>3, <2>1, <2>2, <2>3
  <2> QED
    BY <1>1, <2>4, GivesUp DEF agentVars
<1> QED
  BY <1>2, <1>3 DEF AgentRowWritten

\* The rows a deletion locks before it writes.
LEMMA RowsToWriteType ==
  ASSUME NEW s \in Slots
  PROVE  RowsToWrite(s) \in SUBSET Rows
BY DEF RowsToWrite, RunsOf, Rows

LEMMA CurrentRunReadStep ==
  ASSUME IInv, NEW s \in Slots, CurrentRunRead(s)
  PROVE  IInv'
<1> DEFINE g == request[s].item
<1>1. /\ UNCHANGED <<accountVars, memberVars, agentVars>>
      /\ request[s].op \in {"retire", "start"} /\ request[s].wants = {}
  BY DEF CurrentRunRead, At
<1>2. /\ request[s] \in RequestType /\ g \in Agents /\ g \in request[s].holds
      /\ agent[g] \in AgentType /\ agent[g].state # "unused"
  BY <1>1, OnAgent DEF OnAgents
<1>3. CASE Ends(s)
  BY <1>1, <1>3, GivesUp
<1>4. CASE agent[g].run = None /\ Goes(s, WriteStep(request[s].op), RowsToWrite(s))
  <2>1. PICK at, w : at = WriteStep(request[s].op) /\ w = RowsToWrite(s)
    OBVIOUS
  <2>2. at \in {"cascade", "write"} /\ at \in Steps /\ w \in SUBSET Rows
    BY <2>1, RowsToWriteType DEF WriteStep, Steps
  <2>3. request'[s] = Moved(request[s], at, w) => SlotInv(s)'
    BY <1>1, <1>2, <1>4, <2>2 DEF SlotInv, LinkSlot, JoinSlot, WorkSlot, Moved, Purposes, Joins,
                                  OnAgents, Claims, agentVars
  <2> QED
    BY <1>1, <1>4, <2>1, <2>2, <2>3, MovesOn
<1>5. CASE agent[g].run # None /\ Goes(s, "running", RunLock(agent[g].run))
  <2>1. PICK w : w = RunLock(agent[g].run)
    OBVIOUS
  <2>2. w \in SUBSET Rows /\ "running" \in Steps
    BY <1>2, <1>5, <2>1 DEF RunLock, AgentType, Rows, Steps
  <2>3. request'[s] = Moved(request[s], "running", w) => SlotInv(s)'
    BY <1>1, <1>2, <2>2 DEF SlotInv, LinkSlot, JoinSlot, WorkSlot, Moved, Purposes, Joins,
                            OnAgents, Claims, agentVars
  <2> QED
    BY <1>1, <1>5, <2>1, <2>2, <2>3, MovesOn
<1> QED
  BY <1>3, <1>4, <1>5 DEF CurrentRunRead

LEMMA CurrentRunCheckedStep ==
  ASSUME IInv, NEW s \in Slots, CurrentRunChecked(s)
  PROVE  IInv'
<1> DEFINE g == request[s].item
<1>1. /\ UNCHANGED <<accountVars, memberVars, agentVars>>
      /\ request[s].op \in {"retire", "start"} /\ request[s].wants = {}
  BY DEF CurrentRunChecked, At
<1>2. /\ request[s] \in RequestType /\ g \in Agents /\ g \in request[s].holds
      /\ agent[g] \in AgentType /\ agent[g].state # "unused"
  BY <1>1, OnAgent DEF OnAgents
<1>3. CASE Ends(s)
  BY <1>1, <1>3, GivesUp
<1>4. CASE /\ ~(agent[g].state = "here" /\ agent[g].run # None /\ RunActive(agent[g].run))
           /\ Goes(s, WriteStep(request[s].op), RowsToWrite(s))
  <2>1. PICK at, w : at = WriteStep(request[s].op) /\ w = RowsToWrite(s)
    OBVIOUS
  <2>2. at \in {"cascade", "write"} /\ at \in Steps /\ w \in SUBSET Rows
    BY <2>1, RowsToWriteType DEF WriteStep, Steps
  <2>3. request'[s] = Moved(request[s], at, w) => SlotInv(s)'
    BY <1>1, <1>2, <1>4, <2>2 DEF SlotInv, LinkSlot, JoinSlot, WorkSlot, Moved, Purposes, Joins,
                                  OnAgents, Claims, RunActive, agentVars
  <2> QED
    BY <1>1, <1>4, <2>1, <2>2, <2>3, MovesOn
<1> QED
  BY <1>3, <1>4 DEF CurrentRunChecked

LEMMA AgentDeletedStep ==
  ASSUME IInv, NEW s \in Slots, AgentDeleted(s)
  PROVE  IInv'
<1> DEFINE n == request[s].item
<1>1. /\ Ends(s) /\ UNCHANGED <<accountVars, memberVars, daemon>>
      /\ request[s].op \in OnAgents /\ request[s].wants = {}
      /\ agent' = [agent EXCEPT ![n] = Gone(agent[n])]
      /\ run' = [r \in Runs |-> IF r \in RunsOf(n) THEN Dropped(run[r]) ELSE run[r]]
  BY DEF AgentDeleted, At, OnAgents
<1>2. n \in Agents /\ n \in request[s].holds /\ agent[n].state # "unused"
  BY <1>1, OnAgent
<1>3. DataType /\ Database
  BY Types DEF IInv
<1>4. /\ agent \in [Agents -> AgentType] /\ run \in [Runs -> RunType]
      /\ agent' \in [Agents -> AgentType] /\ run' \in [Runs -> RunType]
  BY <1>1, <1>2, <1>3, GoneIs, DroppedIs DEF DataType
<1>5. /\ agent'[n].state = "gone"
      /\ \A g \in Agents : g # n => agent'[g] = agent[g]
  <2>1. agent[n] \in AgentType /\ agent'[n] = Gone(agent[n])
    BY <1>1, <1>2, <1>4
  <2>2. agent'[n].state = "gone"
    BY <1>2, <2>1, GoneIs DEF AgentType
  <2> QED
    BY <1>1, <1>2, <1>4, <2>2
<1>6. \A r \in Runs : \/ run'[r] = run[r]
                      \/ run[r].agent = n /\ run[r].state # "unused" /\ run'[r].state = "gone"
  BY <1>1, <1>4, DroppedIs DEF RunsOf, RunKept
<1>7. DataType'
  BY <1>1, <1>3, <1>4 DEF DataType, accountVars, memberVars
<1>8. Database'
  <2>1. LinkInv'
    BY <1>1, <1>3 DEF Database, LinkInv, accountVars
  <2>2. WorkspaceInv'
    BY <1>1, <1>3, <1>5 DEF Database, WorkspaceInv, memberVars
  <2>3. HandlesDistinct'
    BY <1>1, <1>3, <1>5 DEF Database, HandlesDistinct, memberVars
  <2>4. RunInv'
    <3>1. ASSUME NEW g \in Agents, agent'[g].state = "here", agent'[g].run # None
          PROVE  run'[agent'[g].run].state # "unused" /\ run'[agent'[g].run].agent = g
      <4>1. g # n /\ agent'[g] = agent[g] /\ agent[g].run \in Runs
        BY <1>4, <1>5, <3>1 DEF AgentType
      <4>2. run[agent[g].run].state # "unused" /\ run[agent[g].run].agent = g
        BY <1>3, <3>1, <4>1 DEF Database, RunInv
      <4> QED
        BY <1>6, <4>1, <4>2
    <3>2. \A r \in Runs : RunKept(r)' => run'[r].agent \in Agents
      BY <1>3, <1>6 DEF Database, RunInv, RunKept
    <3> QED
      BY <3>1, <3>2 DEF RunInv
  <2> QED
    BY <2>1, <2>2, <2>3, <2>4 DEF Database
<1>9. ASSUME NEW t \in Slots \ {s} PROVE SlotInv(t)'
  <2>1. /\ request'[t] = request[t] /\ LinkSlot(t) /\ JoinSlot(t) /\ WorkSlot(t)
        /\ request[s].holds \cap request[t].holds = {}
    BY <1>1, Others
  <2>2. LinkSlot(t)'
    BY <1>1, <2>1, LinkFrame DEF accountVars
  <2>3. JoinSlot(t)'
    BY <1>1, <1>5, <2>1 DEF JoinSlot, Joins, Claims, Taken, memberVars
  <2>4. WorkSlot(t)'
    <3>1. CASE request[t].op \in OnAgents
      <4>1. CASE request[t].item = n
        BY <1>2, <1>5, <2>1, <3>1, <4>1 DEF WorkSlot, Claims, OnAgents
      <4>2. CASE request[t].item # n
        <5>1. agent'[request[t].item] = agent[request[t].item] /\ request[t].item \in Agents
          BY <1>5, <2>1, <3>1, <4>2 DEF WorkSlot
        <5>2. agent[request[t].item].state = "here" /\ agent[request[t].item].run # None
                => run'[agent[request[t].item].run] = run[agent[request[t].item].run]
          <6>1. agent[request[t].item].run \in Runs \cup {None}
            BY <1>4, <5>1 DEF AgentType
          <6> QED
            BY <1>3, <1>6, <4>2, <5>1, <6>1 DEF Database, RunInv
        <5> QED
          BY <2>1, <3>1, <5>1, <5>2 DEF WorkSlot, Claims, OnAgents, RunActive
      <4> QED
        BY <4>1, <4>2
    <3>2. CASE request[t].op \notin OnAgents
      BY <1>6, <2>1, <3>2 DEF WorkSlot, Claims, RunKept
    <3> QED
      BY <3>1, <3>2
  <2> QED
    BY <2>2, <2>3, <2>4 DEF SlotInv
<1> QED
  BY <1>1, <1>7, <1>8, <1>9, Commits

LEMMA AgentSteps ==
  ASSUME IInv, NEW s \in Slots, AgentStep(s)
  PROVE  IInv'
BY DeleteDaemonStep, HostedReadStep, CreateAgentStep, DaemonDeletedStep, AgentInsertedStep,
   AskForAgent, AgentRowReadStep, AgentRowWrittenStep, CurrentRunReadStep, CurrentRunCheckedStep,
   AgentDeletedStep DEF AgentStep

\* ---------------------------------------------------------------------- runs

\* A run's row and its agent's row are written together, by a transaction that
\* has locked the agent.
LEMMA RunRowWritten ==
  ASSUME IInv, NEW s \in Slots, Ends(s), UNCHANGED <<accountVars, memberVars, daemon>>,
         NEW n \in Agents, n \in request[s].holds, agent[n].state = "here",
         NEW k \in Runs, run[k].state = "unused" \/ (RunKept(k) /\ run[k].agent = n),
         run' \in [Runs -> RunType], agent' \in [Agents -> AgentType],
         run'[k].agent = n, run'[k].state \in {"active", "over"},
         \A r \in Runs : r # k => run'[r] = run[r],
         agent'[n] = Current(agent[n], k),
         \A g \in Agents : g # n => agent'[g] = agent[g]
  PROVE  IInv'
<1>1. DataType /\ Database
  BY Types DEF IInv
<1>2. agent \in [Agents -> AgentType] /\ run \in [Runs -> RunType]
  BY <1>1 DEF DataType
<1>3. /\ agent'[n].state = "here" /\ agent'[n].handle = agent[n].handle /\ agent'[n].run = k
  BY <1>2, CurrentIs
<1>4. DataType'
  BY <1>1 DEF DataType, accountVars, memberVars
<1>5. \A g \in Agents : g # n /\ agent[g].state = "here" /\ agent[g].run # None
        => run'[agent[g].run] = run[agent[g].run]
  BY <1>1, <1>2 DEF Database, RunInv, AgentType
<1>6. Database'
  <2>1. LinkInv'
    BY <1>1 DEF Database, LinkInv, accountVars
  <2>2. WorkspaceInv'
    BY <1>1, <1>3 DEF Database, WorkspaceInv, memberVars
  <2>3. HandlesDistinct'
    BY <1>1, <1>3 DEF Database, HandlesDistinct, memberVars
  <2>4. RunInv'
    BY <1>1, <1>3, <1>5 DEF Database, RunInv, RunKept
  <2> QED
    BY <2>1, <2>2, <2>3, <2>4 DEF Database
<1>7. ASSUME NEW t \in Slots \ {s} PROVE SlotInv(t)'
  <2>1. /\ request'[t] = request[t] /\ LinkSlot(t) /\ JoinSlot(t) /\ WorkSlot(t)
        /\ request[s].holds \cap request[t].holds = {}
    BY Others
  <2>2. LinkSlot(t)'
    BY <2>1, LinkFrame DEF accountVars
  <2>3. JoinSlot(t)'
    BY <1>3, <2>1 DEF JoinSlot, Joins, Claims, Taken, memberVars
  <2>4. WorkSlot(t)'
    <3>1. CASE request[t].op \in OnAgents
      <4>1. CASE request[t].item = n
        BY <1>3, <2>1, <3>1, <4>1 DEF WorkSlot, Claims, OnAgents
      <4>2. CASE request[t].item # n
        <5>1. agent'[request[t].item] = agent[request[t].item] /\ request[t].item \in Agents
          BY <2>1, <3>1, <4>2 DEF WorkSlot
        <5> QED
          BY <1>5, <2>1, <3>1, <4>2, <5>1 DEF WorkSlot, Claims, OnAgents, RunActive
      <4> QED
        BY <4>1, <4>2
    <3>2. CASE request[t].op \notin OnAgents
      <4>1. request[t].op \in {"report", "stop"} => run[request[t].item].state # "unused"
                                                    /\ request[t].item \in Runs
        BY <2>1 DEF WorkSlot
      <4>2. CASE request[t].item = k
        BY <2>1, <3>2, <4>1, <4>2 DEF WorkSlot, Claims, RunKept
      <4>3. CASE request[t].item # k
        BY <2>1, <3>2, <4>1, <4>3 DEF WorkSlot, Claims, RunKept
      <4> QED
        BY <4>2, <4>3
    <3> QED
      BY <3>1, <3>2
  <2> QED
    BY <2>2, <2>3, <2>4 DEF SlotInv
<1> QED
  BY <1>4, <1>6, <1>7, Commits

LEMMA RunStartedStep ==
  ASSUME IInv, NEW s \in Slots, NEW k \in Runs, RunStarted(s, k)
  PROVE  IInv'
<1> DEFINE n == request[s].item
<1>1. /\ Ends(s) /\ UNCHANGED <<accountVars, memberVars, daemon>>
      /\ request[s].op \in OnAgents /\ request[s].wants = {} /\ run[k].state = "unused"
  BY DEF RunStarted, At, OnAgents
<1>2. n \in Agents /\ n \in request[s].holds
  BY <1>1, OnAgent
<1>3. CASE UNCHANGED <<run, agent>>
  BY <1>1, <1>3, GivesUp DEF agentVars
<1>4. CASE /\ agent[n].state = "here"
           /\ run' = [run EXCEPT ![k] = NewRun(n)]
           /\ agent' = [agent EXCEPT ![n] = Current(agent[n], k)]
  <2>1. agent \in [Agents -> AgentType] /\ run \in [Runs -> RunType]
    BY Types DEF IInv, DataType
  <2>2. /\ run' \in [Runs -> RunType] /\ run'[k].agent = n /\ run'[k].state \in {"active", "over"}
        /\ \A r \in Runs : r # k => run'[r] = run[r]
    BY <1>2, <1>4, <2>1, NewRunIs
  <2>3. /\ agent' \in [Agents -> AgentType] /\ agent'[n] = Current(agent[n], k)
        /\ \A g \in Agents : g # n => agent'[g] = agent[g]
    BY <1>2, <1>4, <2>1, CurrentIs
  <2> QED
    BY <1>1, <1>2, <1>4, <2>2, <2>3, RunRowWritten
<1> QED
  BY <1>3, <1>4 DEF RunStarted

LEMMA UpdateAgentRunStep ==
  ASSUME IInv, NEW s \in Slots, NEW k \in Runs, NEW state \in {"active", "over"},
         UpdateAgentRun(s, k, state)
  PROVE  IInv'
<1> DEFINE a == Ask("report", "owner", None, None, k, {k})
           q == Reporting(a, state)
<1>1. /\ UNCHANGED <<accountVars, memberVars, agentVars>> /\ RunKept(k)
      /\ Serve(s, q)
  BY DEF UpdateAgentRun, RunLock
<1>2. a \in RequestType
  BY AskType DEF Ops, Steps, Items, Rows
<1>3. q \in RequestType
  BY <1>2, ReportingType
<1>4. request \in [Slots -> RequestType] /\ left \in 0..Requests
  BY Types DEF IInv
<1>5. /\ request' \in [Slots -> RequestType] /\ request'[s] = q
      /\ \A t \in Slots \ {s} : request'[t] = request[t]
  BY <1>1, <1>3, <1>4 DEF Serve
<1>6. left' \in 0..Requests
  BY <1>1, <1>4, RequestsAssumption DEF Serve
<1>7. /\ request'[s].op = "report" /\ request'[s].at = "owner" /\ request'[s].item = k
      /\ request'[s].phase = state /\ request'[s].holds = {}
  BY <1>5 DEF Reporting, Ask
<1>8. SlotInv(s)'
  BY <1>1, <1>7 DEF SlotInv, LinkSlot, JoinSlot, WorkSlot, Purposes, Joins, OnAgents, RunKept,
                    agentVars
<1> QED
  BY <1>1, <1>5, <1>6, <1>7, <1>8, SameData, Quietly

LEMMA StopAgentRunStep ==
  ASSUME IInv, NEW s \in Slots, NEW p \in People, NEW k \in Runs, StopAgentRun(s, p, k)
  PROVE  IInv'
<1>1. DataType' /\ UNCHANGED <<link, memberVars, agentVars>> /\ RunKept(k)
      /\ Serve(s, Ask("stop", "owner", p, None, k, {k}))
  BY SameData DEF StopAgentRun, RunLock
<1>2. request'[s] = Ask("stop", "owner", p, None, k, {k}) => SlotInv(s)'
  BY <1>1 DEF SlotInv, LinkSlot, JoinSlot, WorkSlot, Ask, Purposes, Joins, OnAgents, RunKept,
              agentVars
<1>3. "stop" \in Ops /\ "owner" \in Steps /\ k \in Items /\ {k} \in SUBSET Rows
  BY DEF Ops, Steps, Items, Rows
<1> QED
  BY <1>1, <1>2, <1>3, Begins

LEMMA RunReadStep ==
  ASSUME IInv, NEW s \in Slots, RunRead(s)
  PROVE  IInv'
<1> DEFINE k == request[s].item
<1>1. /\ UNCHANGED <<accountVars, memberVars, agentVars>>
      /\ request[s].op \in {"report", "stop"} /\ WorkSlot(s) /\ RunInv
  BY DEF RunRead, At, IInv, SlotInv, Database
<1>2. CASE Ends(s)
  BY <1>1, <1>2, GivesUp
<1>3. CASE RunKept(k) /\ Goes(s, "write", {run[k].agent})
  <2>1. PICK w : w = {run[k].agent}
    OBVIOUS
  <2>2. w \in SUBSET Rows /\ "write" \in Steps
    BY <1>1, <1>3, <2>1 DEF WorkSlot, RunInv, Rows, Steps
  <2>3. request'[s] = Moved(request[s], "write", w) => SlotInv(s)'
    BY <1>1, <2>1 DEF SlotInv, LinkSlot, JoinSlot, WorkSlot, Moved, Purposes, Joins, OnAgents,
                      Claims, RunKept, agentVars
  <2> QED
    BY <1>1, <1>3, <2>1, <2>2, <2>3, MovesOn
<1> QED
  BY <1>2, <1>3 DEF RunRead, AgentLock

LEMMA RunWrittenStep ==
  ASSUME IInv, NEW s \in Slots, RunWritten(s)
  PROVE  IInv'
<1> DEFINE k == request[s].item
           n == run[k].agent
<1>1. /\ Ends(s) /\ UNCHANGED <<accountVars, memberVars, daemon>>
      /\ request[s].op = "report" /\ request[s].at = "write" /\ request[s].wants = {}
  BY DEF RunWritten, At
<1>2. CASE UNCHANGED <<run, agent>>
  BY <1>1, <1>2, GivesUp DEF agentVars
<1>3. CASE /\ RunKept(k) /\ agent[n].state = "here"
           /\ run' = [run EXCEPT ![k] = Stored(n, request[s].phase)]
           /\ agent' = [agent EXCEPT ![n] = Current(agent[n], k)]
  <2>1. /\ k \in Runs /\ n \in Agents /\ n \in request[s].holds
        /\ request[s].phase \in {"active", "over"}
    BY <1>1, <1>3 DEF IInv, SlotInv, WorkSlot, Database, RunInv, Claims
  <2>2. agent \in [Agents -> AgentType] /\ run \in [Runs -> RunType]
    BY Types DEF IInv, DataType
  <2>3. PICK m \in Agents : m = n
    BY <2>1
  <2>4. /\ run' \in [Runs -> RunType] /\ run'[k].agent = m /\ run'[k].state \in {"active", "over"}
        /\ \A r \in Runs : r # k => run'[r] = run[r]
    BY <1>3, <2>1, <2>2, <2>3, StoredIs
  <2>5. /\ agent' \in [Agents -> AgentType] /\ agent'[m] = Current(agent[m], k)
        /\ \A g \in Agents : g # m => agent'[g] = agent[g]
    BY <1>3, <2>1, <2>2, <2>3, CurrentIs
  <2>6. m \in request[s].holds /\ agent[m].state = "here" /\ run[k].agent = m
    BY <1>3, <2>1, <2>3
  <2>7. PICK j \in Runs : j = k
    BY <2>1
  <2>8. /\ run'[j].agent = m /\ run'[j].state \in {"active", "over"}
        /\ RunKept(j) /\ run[j].agent = m
        /\ \A r \in Runs : r # j => run'[r] = run[r]
        /\ agent'[m] = Current(agent[m], j)
    BY <1>3, <2>4, <2>5, <2>6, <2>7
  <2> HIDE DEF k, n
  <2> QED
    BY <1>1, <2>4, <2>5, <2>6, <2>8, RunRowWritten
<1> QED
  BY <1>2, <1>3 DEF RunWritten

LEMMA RunSteps ==
  ASSUME IInv, NEW s \in Slots, RunStep(s)
  PROVE  IInv'
<1>1. ASSUME RunStopAsked(s) PROVE IInv'
  BY <1>1, GivesUp DEF RunStopAsked
<1> QED
  BY <1>1, RunStartedStep, UpdateAgentRunStep, StopAgentRunStep, RunReadStep, RunWrittenStep
     DEF RunStep

\* ----------------------------------------- single statements, the clock, locks

\* Steps that change at most accounts, tokens, links' ages, invitations and
\* daemons, and no request.
LEMMA Aside ==
  ASSUME IInv, UNCHANGED <<request, workspace, member, agent, run>>, left' \in 0..Requests, DataType',
         \A l \in Links : /\ link'[l].state = link[l].state /\ link'[l].owner = link[l].owner
                          /\ link'[l].uses = link[l].uses /\ link'[l].replaced = link[l].replaced,
         \A i \in Invites : invite'[i] # "none" => invite[i] # "none" \/ workspace # "none"
  PROVE  IInv'
<1>1. Database
  BY DEF IInv
<1>2. LinkInv'
  BY <1>1 DEF Database, LinkInv
<1>3. WorkspaceInv'
  BY <1>1 DEF Database, WorkspaceInv
<1>4. HandlesDistinct' /\ RunInv'
  BY <1>1 DEF Database, HandlesDistinct, RunInv, RunKept
<1>5. ASSUME NEW t \in Slots PROVE SlotInv(t)'
  <2>1. LinkSlot(t) /\ JoinSlot(t) /\ WorkSlot(t) /\ request'[t] = request[t]
    BY DEF IInv, SlotInv
  <2>2. LinkSlot(t)'
    BY <2>1 DEF LinkSlot, Claims
  <2> QED
    BY <2>1, <2>2, JoinFrame, WorkFrame DEF SlotInv
<1> QED
  BY <1>2, <1>3, <1>4, <1>5, Meanwhile DEF Database

LEMMA Counted ==
  ASSUME IInv, ServeAtOnce
  PROVE  left' \in 0..Requests /\ UNCHANGED request
BY Types, RequestsAssumption DEF IInv, ServeAtOnce

LEMMA AtOnceSteps ==
  ASSUME IInv, AtOnce
  PROVE  IInv'
<1>1. DataType
  BY Types DEF IInv
<1>2. ASSUME NEW p \in People, Login(p) PROVE IInv'
  <2>1. DataType'
    BY <1>1, <1>2 DEF DataType, Login, issueJWT, memberVars, agentVars
  <2> QED
    BY <1>2, <2>1, Counted, Aside DEF Login, memberVars, agentVars
<1>3. ASSUME NEW p \in People, NEW i \in Invites, CreateWorkspaceInvite(p, i) PROVE IInv'
  <2>1. DataType'
    BY <1>1, <1>3 DEF DataType, CreateWorkspaceInvite, InviteRow, accountVars, agentVars
  <2>2. workspace # "none"
    BY <1>3 DEF CreateWorkspaceInvite, requirePermission, MemberOf, MemberRow
  <2> QED
    BY <1>3, <2>1, <2>2, Counted, Aside DEF CreateWorkspaceInvite, accountVars, agentVars
<1>4. ASSUME NEW p \in People, NEW d \in Daemons, CreateDaemon(p, d) PROVE IInv'
  <2>1. DataType'
    BY <1>1, <1>4 DEF DataType, CreateDaemon, DaemonRow, accountVars, memberVars
  <2> QED
    BY <1>4, <2>1, Counted, Aside DEF CreateDaemon, accountVars, memberVars
<1>5. ASSUME NEW d \in Daemons, NEW found \in BOOLEAN, UpdateDaemonStatus(d, found) PROVE IInv'
  <2>1. DataType'
    BY <1>1, <1>5 DEF DataType, UpdateDaemonStatus, RuntimesReported, accountVars, memberVars
  <2> QED
    BY <1>5, <2>1, Counted, Aside DEF UpdateDaemonStatus, accountVars, memberVars
<1> QED
  BY <1>2, <1>3, <1>4, <1>5 DEF AtOnce

LEMMA ClockSteps ==
  ASSUME IInv, Clock
  PROVE  IInv'
<1>1. DataType /\ left \in 0..Requests
  BY Types DEF IInv
<1>2. ASSUME NEW p \in People, JWTExpires(p) PROVE IInv'
  <2>1. DataType'
    BY <1>1, <1>2 DEF DataType, JWTExpires, memberVars, agentVars
  <2> QED
    BY <1>2, <2>1, Counted, Aside DEF JWTExpires, memberVars, agentVars
<1>3. ASSUME NEW l \in Links, CooldownOver(l) \/ LinkExpires(l) PROVE IInv'
  <2>1. PICK age \in {"ripe", "expired"} : link' = [link EXCEPT ![l] = Aged(link[l], age)]
    BY <1>3 DEF CooldownOver, LinkExpires
  <2>2. link \in [Links -> LinkType]
    BY <1>1 DEF DataType
  <2>3. /\ link' \in [Links -> LinkType]
        /\ \A m \in Links : /\ link'[m].state = link[m].state /\ link'[m].owner = link[m].owner
                            /\ link'[m].uses = link[m].uses
                            /\ link'[m].replaced = link[m].replaced
    BY <2>1, <2>2, AgedIs
  <2>4. UNCHANGED <<account, jwt, memberVars, agentVars, request>> /\ left' \in 0..Requests
    BY <1>1, <1>3, Counted DEF CooldownOver, LinkExpires, serverVars
  <2>5. DataType'
    BY <1>1, <2>3, <2>4 DEF DataType, memberVars, agentVars
  <2> QED
    BY <2>3, <2>4, <2>5, Aside DEF memberVars, agentVars
<1>4. ASSUME NEW i \in Invites, InviteExpires(i) PROVE IInv'
  <2>1. DataType'
    BY <1>1, <1>4 DEF DataType, InviteExpires, accountVars, agentVars
  <2>2. \A j \in Invites : invite'[j] # "none" => invite[j] # "none"
    BY <1>1, <1>4 DEF DataType, InviteExpires
  <2> QED
    BY <1>4, <2>1, <2>2, Counted, Aside DEF InviteExpires, accountVars, agentVars
<1> QED
  BY <1>2, <1>3, <1>4 DEF Clock

LEMMA GrantedStep ==
  ASSUME IInv, NEW s \in Slots, Granted(s)
  PROVE  IInv'
<1>1. request \in [Slots -> RequestType] /\ left \in 0..Requests
  BY Types DEF IInv
<1>2. /\ request' \in [Slots -> RequestType] /\ left' \in 0..Requests
      /\ request'[s] = Granting(request[s])
      /\ \A t \in Slots \ {s} : request'[t] = request[t]
  BY <1>1, GrantingType DEF Granted
<1>3. /\ request'[s].op = request[s].op /\ request'[s].at = request[s].at
      /\ request'[s].who = request[s].who /\ request'[s].handle = request[s].handle
      /\ request'[s].item = request[s].item /\ request'[s].phase = request[s].phase
      /\ request'[s].seen = request[s].seen
      /\ request'[s].holds = Claims(s) /\ Claims(s)' = Claims(s)
  BY <1>2 DEF Granting, Claims
<1>4. UNCHANGED <<accountVars, memberVars, agentVars>>
  BY DEF Granted
<1>5. SlotInv(s)'
  <2>1. SlotInv(s) /\ request[s].holds \subseteq Claims(s)
    BY DEF IInv, Claims
  <2>2. LinkSlot(s)'
    BY <1>3, <1>4, <2>1 DEF SlotInv, LinkSlot, accountVars
  <2>3. JoinSlot(s)'
    BY <1>3, <1>4, <2>1 DEF SlotInv, JoinSlot, Taken, memberVars, agentVars
  <2>4. WorkSlot(s)'
    BY <1>3, <1>4, <2>1 DEF SlotInv, WorkSlot, RunActive, RunKept, agentVars
  <2> QED
    BY <2>2, <2>3, <2>4 DEF SlotInv
<1>6. \A t \in Slots \ {s} : request'[s].holds \cap request[t].holds = {}
  BY <1>3 DEF Granted, Claims, IInv, Exclusive
<1> QED
  BY <1>2, <1>4, <1>5, <1>6, SameData, Quietly

\* ------------------------------------------------------------------- theorems

LEMMA Initially == Init => IInv
<1> SUFFICES ASSUME Init PROVE IInv
  OBVIOUS
<1>1. NoLink \in LinkType /\ NoMember \in MemberType /\ NoAgent \in AgentType /\ NoRun \in RunType
  BY DEF NoLink, NoMember, NoAgent, NoRun, LinkType, MemberType, AgentType, RunType
<1>2. /\ NoLink.state = "unused" /\ NoLink.uses = 0 /\ ~NoLink.replaced /\ NoMember.handle = None
      /\ NoAgent.state = "unused" /\ NoRun.state = "unused"
  BY DEF NoLink, NoMember, NoAgent, NoRun
<1>3. request = [s \in Slots |-> Idle] /\ left = Requests
  BY DEF Init
<1>4. /\ workspace \in {"none", "live"} /\ member \in [People -> MemberType]
      /\ daemon \in [Daemons -> {"none", "active", "ready", "deleted"}]
      /\ agent \in [Agents -> AgentType]
      /\ workspace # "live" => /\ \A p \in People : member[p] = NoMember
                               /\ \A g \in Agents : agent[g].state # "here"
      /\ \A g \in Agents : agent[g].state = "here" => agent[g].handle \in Handles
      /\ \A g \in Agents : agent[g].state = "here" => agent[g].run = None
      /\ HandlesDistinct
  <2>1. CASE Unfounded
    BY <1>1, <1>2, <2>1 DEF Unfounded, HandlesDistinct
  <2>2. CASE Established
    <3>1. PICK p \in Settled, h, k \in Handles, d \in Daemons, n \in Agents :
            /\ h # k
            /\ workspace = "live"
            /\ member = [q \in People |-> IF q = p THEN [handle |-> h, role |-> "owner"]
                                          ELSE NoMember]
            /\ daemon = [e \in Daemons |-> IF e = d THEN "ready" ELSE "none"]
            /\ agent = [f \in Agents |-> IF f = n THEN NewAgent(k, d) ELSE NoAgent]
      BY <2>2 DEF Established
    <3>2. [handle |-> h, role |-> "owner"] \in MemberType
      BY DEF MemberType
    <3>3. member \in [People -> MemberType] /\ agent \in [Agents -> AgentType]
      BY <1>1, <3>1, <3>2, NewAgentIs
    <3>4. /\ \A q \in People : member[q].handle \in {h, None}
          /\ \A q \in People : member[q].handle = h => q = p
      BY <1>2, <3>1, NoneAssumption
    <3>5. \A g \in Agents : agent[g].state = "here"
            => g = n /\ agent[g].handle = k /\ agent[g].run = None
      BY <1>2, <3>1, NewAgentIs
    <3>6. HandlesDistinct
      BY <3>1, <3>4, <3>5, NoneAssumption DEF HandlesDistinct
    <3> QED
      BY <3>1, <3>3, <3>5, <3>6
  <2> QED
    BY <2>1, <2>2 DEF Init
<1>5. DataType
  BY <1>1, <1>4, SettledAssumption DEF Init, DataType
<1>6. TypeOK
  BY <1>3, <1>5, Types, IdleType, RequestsAssumption
<1>7. Database
  <2>1. LinkInv
    BY <1>2 DEF Init, LinkInv
  <2>2. WorkspaceInv
    BY <1>4 DEF Init, WorkspaceInv
  <2>3. RunInv
    BY <1>2, <1>4 DEF Init, RunInv, RunKept
  <2> QED
    BY <1>4, <2>1, <2>2, <2>3 DEF Database
<1>8. Exclusive
  BY <1>3 DEF Exclusive, Idle
<1>9. ASSUME NEW s \in Slots PROVE SlotInv(s)
  BY <1>3 DEF SlotInv, LinkSlot, JoinSlot, WorkSlot, Idle, Purposes, Joins, OnAgents
<1> QED
  BY <1>6, <1>7, <1>8, <1>9 DEF IInv

LEMMA Stuttering == IInv /\ UNCHANGED vars => IInv'
<1> SUFFICES ASSUME IInv, UNCHANGED vars PROVE IInv'
  OBVIOUS
<1>1. UNCHANGED <<accountVars, memberVars, agentVars, request, left>>
  BY DEF vars, serverVars
<1>2. left' \in 0..Requests /\ DataType'
  BY <1>1, SameData, Types DEF IInv
<1> QED
  BY <1>1, <1>2, Aside DEF accountVars, memberVars, agentVars

LEMMA Inductive == IInv /\ [Next]_vars => IInv'
<1>1. ASSUME IInv, Next PROVE IInv'
  <2>1. ASSUME NEW s \in Slots, RolledBack(s) PROVE IInv'
    BY <1>1, <2>1, GivesUp DEF RolledBack
  <2> QED
    BY <1>1, <2>1, LinkSteps, MemberSteps, AgentSteps, RunSteps, GrantedStep, AtOnceSteps,
       ClockSteps DEF Next
<1> QED
  BY <1>1, Stuttering

LEMMA Invariance == Spec => []IInv
BY Initially, Inductive, PTL DEF Spec

(* Every behaviour of Accounts keeps its tables and requests in their types. *)
THEOREM AccountsTypeCorrect == Spec => []TypeOK
<1>1. IInv => TypeOK
  BY DEF IInv
<1> QED
  BY <1>1, Invariance, PTL

(* An e-mailed link works at most once, and never if a newer one replaced    *)
(* it, before or while it was opened (consumeAccountEmailTokenTx,            *)
(* createAccountEmailToken), for any number of requests at once.             *)
THEOREM LinksAreUsedOnce == Spec => []LinkUsedOnce
<1>1. IInv => LinkUsedOnce
  BY Types DEF IInv, Database, LinkInv, LinkUsedOnce, DataType, LinkType
<1> QED
  BY <1>1, Invariance, PTL

(* Users and agents of a workspace never share a handle                      *)
(* (ensureWorkspaceHandleAvailableTx and lockWorkspaceHandleTx).             *)
THEOREM HandlesStayDistinct == Spec => []HandlesDistinct
<1>1. IInv => HandlesDistinct
  BY DEF IInv, Database
<1> QED
  BY <1>1, Invariance, PTL

KeepsActive ==
  \A g \in Agents :
    /\ agent[g].state = "here" /\ agent'[g].state = "gone" /\ workspace' = "live"
    /\ agent[g].run # None
    => run[agent[g].run].state # "active"

\* Most steps leave the agents alone; of the others, only a deletion takes one.
Rewrites(s) ==
  \/ DaemonDeleted(s) \/ AgentRowWritten(s) \/ RunWritten(s)
  \/ \E g \in Agents : AgentInserted(s, g)
  \/ \E r \in Runs : RunStarted(s, r)

LEMMA WhoTouchesAgents ==
  ASSUME Next
  PROVE  \/ UNCHANGED agent
         \/ \E s \in Slots : Rewrites(s) \/ AgentDeleted(s) \/ WorkspaceDeleted(s)
<1>1. ASSUME NEW s \in Slots, LinkStep(s) PROVE UNCHANGED agent
  BY <1>1 DEF LinkStep, Register, ResendVerification, ForgotPassword, CooldownRead, Supersede,
     IssueLink, VerifyEmail, ResetPassword, OpenLink, LinkRead, EmailVerified, PasswordReset,
     agentVars
<1>2. ASSUME NEW s \in Slots, MemberStep(s) PROVE UNCHANGED agent \/ WorkspaceDeleted(s)
  BY <1>2 DEF MemberStep, CreateWorkspace, AddWorkspaceMember, AcceptWorkspaceInvite,
     WorkspaceInserted, InviteRead, HandleCounted, MemberAdded, InviteAccepted, DeleteWorkspace,
     agentVars
<1>3. ASSUME NEW s \in Slots, AgentStep(s)
      PROVE  UNCHANGED agent \/ Rewrites(s) \/ AgentDeleted(s)
  BY <1>3 DEF AgentStep, DeleteDaemon, HostedRead, CreateAgent, UpdateAgentSession, UpdateAgent, DeleteAgent,
     StartAgentRun, AgentRowRead, CurrentRunRead, CurrentRunChecked, Rewrites, agentVars
<1>4. ASSUME NEW s \in Slots, RunStep(s) PROVE UNCHANGED agent \/ Rewrites(s)
  BY <1>4 DEF RunStep, UpdateAgentRun, StopAgentRun, RunRead, RunStopAsked, Rewrites, agentVars
<1>5. ASSUME NEW s \in Slots, Granted(s) \/ RolledBack(s) PROVE UNCHANGED agent
  BY <1>5 DEF Granted, RolledBack, agentVars
<1>6. AtOnce \/ Clock => UNCHANGED agent
  BY DEF AtOnce, Login, CreateWorkspaceInvite, CreateDaemon, UpdateDaemonStatus, Clock,
     JWTExpires, CooldownOver, LinkExpires, InviteExpires, agentVars
<1> QED
  BY <1>1, <1>2, <1>3, <1>4, <1>5, <1>6 DEF Next

LEMMA RewritingKeeps ==
  ASSUME DataType, NEW s \in Slots, Rewrites(s), NEW g \in Agents, agent[g].state = "here"
  PROVE  agent'[g].state = "here"
<1> USE DEF DataType
<1>1. ASSUME NEW r PROVE Current(agent[g], r).state = "here"
  BY DEF Current
<1>2. CASE DaemonDeleted(s)
  BY <1>1, <1>2 DEF DaemonDeleted
<1>3. CASE AgentRowWritten(s)
  BY <1>1, <1>3 DEF AgentRowWritten
<1>4. CASE RunWritten(s)
  BY <1>1, <1>4 DEF RunWritten
<1>5. ASSUME NEW f \in Agents, AgentInserted(s, f) PROVE agent'[g].state = "here"
  BY <1>5 DEF AgentInserted
<1>6. ASSUME NEW r \in Runs, RunStarted(s, r) PROVE agent'[g].state = "here"
  BY <1>1, <1>6 DEF RunStarted
<1> QED
  BY <1>2, <1>3, <1>4, <1>5, <1>6 DEF Rewrites

LEMMA KeepingActive == IInv /\ [Next]_vars => [KeepsActive]_vars
<1> SUFFICES ASSUME IInv, Next, NEW g \in Agents, agent[g].state = "here",
                    agent'[g].state = "gone", workspace' = "live", agent[g].run # None
             PROVE  run[agent[g].run].state # "active"
  BY DEF KeepsActive
<1>1. DataType
  BY Types DEF IInv
<1>2. PICK s \in Slots : Rewrites(s) \/ AgentDeleted(s) \/ WorkspaceDeleted(s)
  BY WhoTouchesAgents
<1>3. ~Rewrites(s)
  BY <1>1, RewritingKeeps
<1>4. ~WorkspaceDeleted(s)
  <2> SUFFICES ASSUME WorkspaceDeleted(s) PROVE FALSE
    OBVIOUS
  <2>1. workspace # "live" => UNCHANGED agent
    BY DEF WorkspaceDeleted, agentVars
  <2>2. workspace = "live" => workspace' = "gone"
    BY DEF WorkspaceDeleted
  <2> QED
    BY <2>1, <2>2
<1>5. AgentDeleted(s)
  BY <1>2, <1>3, <1>4
<1>6. request[s].item = g
  BY <1>1, <1>5 DEF AgentDeleted, DataType
<1>7. request[s].op \in OnAgents /\ request[s].at = "cascade" /\ WorkSlot(s)
  BY <1>5 DEF AgentDeleted, At, OnAgents, IInv, SlotInv
<1> QED
  BY <1>6, <1>7 DEF WorkSlot, RunActive

(* Deleting an agent never takes one whose current run is active             *)
(* (DeleteAgent, StartAgentRun and UpdateAgentRun overlapping), for any      *)
(* number of requests at once: the run's row is checked under the agent's    *)
(* lock, and nothing activates it before the cascade.                        *)
THEOREM ActiveRunsKeepTheirAgent == Spec => ActiveRunKeepsAgent
<1>1. Spec => [][KeepsActive]_vars
  BY KeepingActive, Invariance, PTL DEF Spec
<1> QED
  BY <1>1, PTL DEF ActiveRunKeepsAgent, KeepsActive
=============================================================================
