------------------------------ MODULE Accounts ------------------------------
(***************************************************************************)
(* Accounts, e-mailed links, one workspace with its members, invitations,  *)
(* daemons, agents and agent runs, as the backend keeps them in PostgreSQL *)
(* (backend/internal/notty/auth.go, server_auth.go, server_agents.go and   *)
(* the agent half of store.go).  Slots are the requests the server handles *)
(* at once.  A handler is a sequence of statements: each step below is one *)
(* statement, or the statements between two that other requests can see.   *)
(* The database runs at READ COMMITTED: a step reads what is committed,    *)
(* and what a transaction writes is seen when it commits, so the writes    *)
(* are in the step that commits.  Row locks (FOR UPDATE, UPDATE, DELETE)   *)
(* and the advisory lock on a handle are held until the transaction ends.  *)
(***************************************************************************)
EXTENDS Naturals, FiniteSets

CONSTANTS
  People,     \* accounts, by their e-mail address
  Settled,    \* the ones that were registered and verified before the start
  Links,      \* e-mailed account tokens
  Handles,    \* @names in the workspace
  Invites,    \* invitation links
  Daemons,
  Agents,
  Runs,       \* agent runs
  Slots,      \* requests handled at the same time
  Requests,   \* bound on the number of requests and of expiries
  None

ASSUME SettledAssumption == Settled \subseteq People
ASSUME RequestsAssumption == Requests \in Nat
ASSUME NoneAssumption ==
  /\ None \notin People \cup Handles
  /\ None \notin Links \cup Invites \cup Daemons \cup Agents \cup Runs

\* Rows and advisory locks are of different kinds, so no two of them are equal.
ASSUME KindsAssumption ==
  /\ Handles \cap (Links \cup Invites \cup Daemons \cup Agents \cup Runs) = {}
  /\ Links \cap (Invites \cup Daemons \cup Agents \cup Runs) = {}
  /\ Invites \cap (Daemons \cup Agents \cup Runs) = {}
  /\ Daemons \cap (Agents \cup Runs) = {}
  /\ Agents \cap Runs = {}

VARIABLES
  account,    \* accounts: "none", "unverified" or "verified"
  jwt,        \* accounts whose browser holds an unexpired token
  link,       \* account_email_tokens
  workspace,  \* "none", "live" or "gone": one workspace and its slug
  member,     \* workspace_members and the users row each refers to
  invite,     \* workspace_invites: "none", "open" or "expired"
  daemon,     \* daemons: "none", "active", "ready" (reported) or "deleted"
  agent,      \* agents
  run,        \* agent_runs
  request,    \* what each slot is doing
  left        \* requests and expiries that may still happen

accountVars == <<account, jwt, link>>
memberVars == <<workspace, member, invite>>
agentVars == <<daemon, agent, run>>
serverVars == <<request, left>>
vars == <<accountVars, memberVars, agentVars, serverVars>>

Purposes == {"verify", "reset"}
Rows == Links \cup Handles \cup Invites \cup Daemons \cup Agents \cup Runs

Ops == {"idle", "register", "resend", "forgot", "verify", "reset", "workspace", "add", "accept",
        "agent", "edit", "retire", "start", "report", "stop", "unhost", "close"}
Steps == {"idle", "cooldown", "supersede", "issue", "read", "spend", "insert", "invite", "count",
          "current", "running", "cascade", "owner", "hosted", "write", "delete"}

\* A request: its step, its arguments, the status it reports, the current run
\* in the agent's row that it has read, the locks it holds and the locks its
\* current statement waits for.
RequestType ==
  [op : Ops, at : Steps, who : People \cup {None}, handle : Handles \cup {None},
   item : Links \cup Invites \cup Agents \cup Runs \cup Daemons \cup {None},
   phase : {"active", "over", None}, seen : Runs \cup {None},
   holds : SUBSET Rows, wants : SUBSET Rows]

Idle ==
  [op |-> "idle", at |-> "idle", who |-> None, handle |-> None, item |-> None,
   phase |-> None, seen |-> None, holds |-> {}, wants |-> {}]

Ask(op, at, who, handle, item, wants) ==
  [op |-> op, at |-> at, who |-> who, handle |-> handle, item |-> item,
   phase |-> None, seen |-> None, holds |-> {}, wants |-> wants]

Reporting(q, state) ==
  [op |-> q.op, at |-> q.at, who |-> q.who, handle |-> q.handle, item |-> q.item,
   phase |-> state, seen |-> q.seen, holds |-> q.holds, wants |-> q.wants]

Seeing(q, r) ==
  [op |-> q.op, at |-> q.at, who |-> q.who, handle |-> q.handle, item |-> q.item,
   phase |-> q.phase, seen |-> r, holds |-> q.holds, wants |-> q.wants]

\* ---------------------------------------------------------------- requests

\* A handler begins in a free slot.
Serve(s, q) ==
  /\ request[s] = Idle
  /\ left > 0
  /\ left' = left - 1
  /\ request' = [request EXCEPT ![s] = q]

\* A request that is one statement, or a token that expires (counted with them).
ServeAtOnce ==
  /\ left > 0
  /\ left' = left - 1
  /\ UNCHANGED request

\* The transaction ends and its locks are released.
Ends(s) ==
  /\ request' = [request EXCEPT ![s] = Idle]
  /\ UNCHANGED left

Moved(q, at, wants) ==
  [op |-> q.op, at |-> at, who |-> q.who, handle |-> q.handle, item |-> q.item,
   phase |-> q.phase, seen |-> q.seen, holds |-> q.holds, wants |-> wants]

\* The transaction goes on to a statement that has to lock `wants'.
Goes(s, at, wants) ==
  /\ request' = [request EXCEPT ![s] = Moved(request[s], at, wants)]
  /\ UNCHANGED left

\* Slot s is at a statement and has every lock that it needs.
At(s, ops, at) ==
  /\ request[s].op \in ops
  /\ request[s].at = at
  /\ request[s].wants = {}

Granting(q) ==
  [op |-> q.op, at |-> q.at, who |-> q.who, handle |-> q.handle, item |-> q.item,
   phase |-> q.phase, seen |-> q.seen, holds |-> q.holds \cup q.wants, wants |-> {}]

\* The database grants the locks that nobody else holds.
Granted(s) ==
  /\ request[s].wants # {}
  /\ \A t \in Slots \ {s} : request[s].wants \cap request[t].holds = {}
  /\ request' = [request EXCEPT ![s] = Granting(request[s])]
  /\ UNCHANGED <<accountVars, memberVars, agentVars, left>>

\* A statement fails, the connection is lost, the server stops, or the
\* database picks this transaction as the victim of a deadlock.
RolledBack(s) ==
  /\ request[s] # Idle
  /\ Ends(s)
  /\ UNCHANGED <<accountVars, memberVars, agentVars>>

Unlocked(x) == \A s \in Slots : x \notin request[s].holds

\* ---------------------------------------------------------------- who asks

\* authenticateHumanRequest and authenticateWorkspaceRequest; only owners (and
\* admins, whom no operation makes) have the managing permissions.
Human(p) == p \in jwt /\ account[p] = "verified"
MemberRow(p) == workspace = "live" /\ member[p].role # None
MemberOf(p) == Human(p) /\ MemberRow(p)
requirePermission(p) == MemberOf(p) /\ member[p].role = "owner"

\* authenticateDaemonToken: a deleted daemon's token is refused.
DaemonActive(d) == daemon[d] \in {"active", "ready"}

\* ---------------------------------------------------------- e-mailed links

\* Two fields are histories: how often the link worked, and whether it was
\* consumed because a newer one replaced it (which stays so, whatever follows).
NoLink == [state |-> "unused", owner |-> None, purpose |-> None, age |-> None,
           uses |-> 0, replaced |-> FALSE]

NewLink(p, purpose) ==
  [state |-> "live", owner |-> p, purpose |-> purpose, age |-> "young",
   uses |-> 0, replaced |-> FALSE]

Used(l) ==
  [state |-> "spent", owner |-> l.owner, purpose |-> l.purpose, age |-> l.age,
   uses |-> l.uses + 1, replaced |-> l.replaced]

Superseded(l) ==
  IF l.state # "live" THEN l
  ELSE [state |-> "superseded", owner |-> l.owner, purpose |-> l.purpose, age |-> l.age,
        uses |-> l.uses, replaced |-> TRUE]

Aged(l, age) ==
  [state |-> l.state, owner |-> l.owner, purpose |-> l.purpose, age |-> age,
   uses |-> l.uses, replaced |-> l.replaced]

PurposeOf(op) == IF op = "forgot" THEN "reset" ELSE "verify"

\* The links of an account and a purpose that consumed_at IS NULL selects.
Unconsumed(p, purpose) ==
  {l \in Links : link[l].state = "live" /\ link[l].owner = p /\ link[l].purpose = purpose}

Registered(p) == [account EXCEPT ![p] = "unverified"]

\* handleRegister: the account is inserted by a statement of its own, and the
\* link follows in a transaction of its own.
Register(s, p) ==
  /\ account[p] = "none"
  /\ Serve(s, Ask("register", "supersede", p, None, None, {}))
  /\ account' = Registered(p)
  /\ UNCHANGED <<jwt, link, memberVars, agentVars>>

ResendVerification(s, p) ==
  /\ account[p] = "unverified"
  /\ Serve(s, Ask("resend", "cooldown", p, None, None, {}))
  /\ UNCHANGED <<accountVars, memberVars, agentVars>>

ForgotPassword(s, p) ==
  /\ account[p] = "verified"
  /\ Serve(s, Ask("forgot", "cooldown", p, None, None, {}))
  /\ UNCHANGED <<accountVars, memberVars, agentVars>>

\* The cooldown is read before the transaction that issues the link.
CooldownRead(s) ==
  /\ At(s, {"resend", "forgot"}, "cooldown")
  /\ IF \E l \in Unconsumed(request[s].who, PurposeOf(request[s].op)) : link[l].age = "young"
     THEN Ends(s)
     ELSE Goes(s, "supersede", {})
  /\ UNCHANGED <<accountVars, memberVars, agentVars>>

\* The transaction's UPDATE selects the links it can see and locks them.
Supersede(s) ==
  /\ At(s, {"register", "resend", "forgot"}, "supersede")
  /\ Goes(s, "issue", Unconsumed(request[s].who, PurposeOf(request[s].op)))
  /\ UNCHANGED <<accountVars, memberVars, agentVars>>

\* The commit: the selected links are consumed and the new one is stored.
IssueLink(s, n) ==
  /\ At(s, {"register", "resend", "forgot"}, "issue")
  /\ link[n].state = "unused"
  /\ link' = [l \in Links |->
       IF l = n THEN NewLink(request[s].who, PurposeOf(request[s].op))
       ELSE IF l \in request[s].holds THEN Superseded(link[l])
       ELSE link[l]]
  /\ Ends(s)
  /\ UNCHANGED <<account, jwt, memberVars, agentVars>>

\* A link is opened (the mail may never arrive, so it may never be).  The
\* row is read FOR UPDATE.
OpenLinkUnlocked(s, l) ==
  /\ link[l].state # "unused"
  /\ Serve(s, Ask(link[l].purpose, "read", None, None, l, {}))
  /\ UNCHANGED <<accountVars, memberVars, agentVars>>

OpenLink(s, l) ==
  /\ link[l].state # "unused"
  /\ Serve(s, Ask(link[l].purpose, "read", None, None, l, {l}))
  /\ UNCHANGED <<accountVars, memberVars, agentVars>>

VerifyEmail(s, l) == link[l].purpose = "verify" /\ OpenLink(s, l)
ResetPassword(s, l) == link[l].purpose = "reset" /\ OpenLink(s, l)

\* consumeAccountEmailTokenTx refuses a consumed and then an expired link.
LinkRead(s) ==
  /\ At(s, Purposes, "read")
  /\ LET l == link[request[s].item]
     IN  IF l.state = "live" /\ l.age # "expired" THEN Goes(s, "spend", {}) ELSE Ends(s)
  /\ UNCHANGED <<accountVars, memberVars, agentVars>>

\* The commit of verifyAccountEmailWithToken: consumed and verified together.
EmailVerified(s) ==
  /\ At(s, {"verify"}, "spend")
  /\ LET l == request[s].item
     IN  /\ link' = [link EXCEPT ![l] = Used(link[l])]
         /\ account' = [account EXCEPT ![link[l].owner] = "verified"]
  /\ Ends(s)
  /\ UNCHANGED <<jwt, memberVars, agentVars>>

\* The commit of resetAccountPasswordWithToken, rolled back when the account
\* is not verified.  Tokens that browsers hold stay valid.
PasswordReset(s) ==
  /\ At(s, {"reset"}, "spend")
  /\ LET l == request[s].item
     IN  link' = IF account[link[l].owner] = "verified"
                 THEN [link EXCEPT ![l] = Used(link[l])] ELSE link
  /\ Ends(s)
  /\ UNCHANGED <<account, jwt, memberVars, agentVars>>

authenticateAccount(p) == account[p] # "none"
issueJWT(p) == jwt \cup {p}

Login(p) ==
  /\ authenticateAccount(p)
  /\ account[p] = "verified" /\ p \notin jwt
  /\ ServeAtOnce
  /\ jwt' = issueJWT(p)
  /\ UNCHANGED <<account, link, memberVars, agentVars>>

\* The clock: a token's seven days, a link's cooldown and a link's lifetime.
JWTExpires(p) ==
  /\ p \in jwt
  /\ ServeAtOnce
  /\ jwt' = jwt \ {p}
  /\ UNCHANGED <<account, link, memberVars, agentVars>>

CooldownOver(l) ==
  /\ link[l].state = "live" /\ link[l].age = "young"
  /\ link' = [link EXCEPT ![l] = Aged(link[l], "ripe")]
  /\ UNCHANGED <<account, jwt, memberVars, agentVars, serverVars>>

LinkExpires(l) ==
  /\ link[l].state = "live" /\ link[l].age = "ripe"
  /\ ServeAtOnce
  /\ link' = [link EXCEPT ![l] = Aged(link[l], "expired")]
  /\ UNCHANGED <<account, jwt, memberVars, agentVars>>

\* ------------------------------------------------- agents' and runs' rows

NoAgent == [state |-> "unused", handle |-> None, daemon |-> None, run |-> None]
AgentType ==
  [state : {"unused", "here", "gone"}, handle : Handles \cup {None},
   daemon : Daemons \cup {None}, run : Runs \cup {None}]
NewAgent(h, d) == [state |-> "here", handle |-> h, daemon |-> d, run |-> None]
Current(g, r) == [state |-> g.state, handle |-> g.handle, daemon |-> g.daemon, run |-> r]
Gone(g) == IF g.state # "here" THEN g
           ELSE [state |-> "gone", handle |-> None, daemon |-> None, run |-> None]

NoRun == [state |-> "unused", agent |-> None]
RunType == [state : {"unused", "active", "over", "gone"}, agent : Agents \cup {None}]
Stored(g, state) == [state |-> state, agent |-> g]
NewRun(g) == [state |-> "active", agent |-> g]
Dropped(r) == IF r.state = "unused" THEN r ELSE [state |-> "gone", agent |-> None]

\* ----------------------------------------- the workspace and its members

NoMember == [handle |-> None, role |-> None]

\* Users and agents share one name space.
Taken(h) ==
  \/ \E p \in People : member[p].handle = h
  \/ \E g \in Agents : agent[g].state = "here" /\ agent[g].handle = h

SlugAvailable == workspace = "none"

\* The slug is looked up before the transaction.
CreateWorkspace(s, p, h) ==
  /\ Human(p) /\ SlugAvailable
  /\ Serve(s, Ask("workspace", "insert", p, h, None, {}))
  /\ UNCHANGED <<accountVars, memberVars, agentVars>>

\* The commit: the workspace, its root, its first user and the owner, or
\* nothing when the slug was taken meanwhile.
WorkspaceInserted(s) ==
  /\ At(s, {"workspace"}, "insert")
  /\ IF SlugAvailable
     THEN /\ workspace' = "live"
          /\ member' = [member EXCEPT ![request[s].who] =
                          [handle |-> request[s].handle, role |-> "owner"]]
     ELSE UNCHANGED <<workspace, member>>
  /\ Ends(s)
  /\ UNCHANGED <<accountVars, invite, agentVars>>

HandleLock(h) == {h}

\* addWorkspaceMember up to its transaction's first statement, the advisory
\* lock on the handle.  The account need not be verified.
JoinAsked(s, q, h) ==
  /\ account[q] # "none" /\ ~MemberRow(q)
  /\ Serve(s, Ask("add", "count", q, h, None, HandleLock(h)))

AddWorkspaceMember(s, p, q, h) ==
  /\ requirePermission(p)
  /\ JoinAsked(s, q, h)
  /\ UNCHANGED <<accountVars, memberVars, agentVars>>

InviteRow(i) == [invite EXCEPT ![i] = "open"]

CreateWorkspaceInvite(p, i) ==
  /\ requirePermission(p)
  /\ invite[i] = "none"
  /\ ServeAtOnce
  /\ invite' = InviteRow(i)
  /\ UNCHANGED <<accountVars, workspace, member, agentVars>>

InviteExpires(i) ==
  /\ invite[i] = "open"
  /\ ServeAtOnce
  /\ invite' = [invite EXCEPT ![i] = "expired"]
  /\ UNCHANGED <<accountVars, workspace, member, agentVars>>

\* acceptWorkspaceInvite locks the invitation first.
AcceptWorkspaceInvite(s, p, i, h) ==
  /\ Human(p) /\ invite[i] # "none"
  /\ Serve(s, Ask("accept", "invite", p, h, i, {i}))
  /\ UNCHANGED <<accountVars, memberVars, agentVars>>

\* An expired invitation is refused, a member stays what it is (only the
\* workspace it last visited is noted), and anybody else needs a handle.
InviteRead(s) ==
  /\ At(s, {"accept"}, "invite")
  /\ IF invite[request[s].item] = "open" /\ member[request[s].who].role = None
     THEN Goes(s, "count", HandleLock(request[s].handle))
     ELSE Ends(s)
  /\ UNCHANGED <<accountVars, memberVars, agentVars>>

\* ensureWorkspaceHandleAvailableTx counts under the advisory lock.
HandleCounted(s) ==
  /\ At(s, {"add", "accept", "agent"}, "count")
  /\ IF Taken(request[s].handle) THEN Ends(s) ELSE Goes(s, "insert", {})
  /\ UNCHANGED <<accountVars, memberVars, agentVars>>

\* The rows of a join, or a unique or foreign key violation that undoes it.
Joined(p, h) ==
  IF /\ workspace = "live" /\ member[p].role = None
     /\ \A q \in People : member[q].handle # h
  THEN [member EXCEPT ![p] = [handle |-> h, role |-> "member"]]
  ELSE member

MemberAdded(s) ==
  /\ At(s, {"add"}, "insert")
  /\ member' = Joined(request[s].who, request[s].handle)
  /\ Ends(s)
  /\ UNCHANGED <<accountVars, workspace, invite, agentVars>>

InviteAccepted(s) ==
  /\ At(s, {"accept"}, "insert")
  /\ member' = Joined(request[s].who, request[s].handle)
  /\ Ends(s)
  /\ UNCHANGED <<accountVars, workspace, invite, agentVars>>

DeleteWorkspace(s, p) ==
  /\ requirePermission(p)
  /\ Serve(s, Ask("close", "delete", p, None, None, {}))
  /\ UNCHANGED <<accountVars, memberVars, agentVars>>

\* The cascade takes every row of the workspace.  A transaction that holds one
\* of them delays the cascade or is its deadlock victim; letting the cascade
\* go first leaves that transaction the same outcomes: its rows are gone.
WorkspaceDeleted(s) ==
  /\ At(s, {"close"}, "delete")
  /\ IF workspace = "live"
     THEN /\ workspace' = "gone"
          /\ member' = [p \in People |-> NoMember]
          /\ invite' = [i \in Invites |-> IF invite[i] = "none" THEN "none" ELSE "expired"]
          /\ daemon' = [d \in Daemons |-> IF daemon[d] = "none" THEN "none" ELSE "deleted"]
          /\ agent' = [g \in Agents |-> Gone(agent[g])]
          /\ run' = [r \in Runs |-> Dropped(run[r])]
     ELSE UNCHANGED <<memberVars, agentVars>>
  /\ Ends(s)
  /\ UNCHANGED accountVars

\* ------------------------------------------------------------------ daemons

DaemonRow(d) == [daemon EXCEPT ![d] = "active"]

CreateDaemon(p, d) ==
  /\ requirePermission(p)
  /\ daemon[d] = "none"
  /\ ServeAtOnce
  /\ daemon' = DaemonRow(d)
  /\ UNCHANGED <<accountVars, memberVars, agent, run>>

\* updateDaemonStatus: the daemon reports the runtimes that agents may use, and
\* a later report may find none any more.
RuntimesReported(d, found) == [daemon EXCEPT ![d] = IF found THEN "ready" ELSE "active"]

UpdateDaemonStatus(d, found) ==
  /\ DaemonActive(d) /\ Unlocked(d)
  /\ ServeAtOnce
  /\ daemon' = RuntimesReported(d, found)
  /\ UNCHANGED <<accountVars, memberVars, agent, run>>

Hosted(d) == {g \in Agents : agent[g].state = "here" /\ agent[g].daemon = d}

\* deleteDaemon updates the daemon's row ...
DeleteDaemon(s, p, d) ==
  /\ requirePermission(p)
  /\ DaemonActive(d)
  /\ Serve(s, Ask("unhost", "hosted", p, None, d, {d}))
  /\ UNCHANGED <<accountVars, memberVars, agentVars>>

\* ... which another deletion may have done before, and then those of the
\* agents that are on it by now.
HostedRead(s) ==
  /\ At(s, {"unhost"}, "hosted")
  /\ LET d == request[s].item
     IN  IF DaemonActive(d) THEN Goes(s, "write", Hosted(d)) ELSE Ends(s)
  /\ UNCHANGED <<accountVars, memberVars, agentVars>>

\* The commit, unless the rows went with the workspace.
DaemonDeleted(s) ==
  /\ At(s, {"unhost"}, "write")
  /\ LET d == request[s].item
     IN  IF DaemonActive(d)
         THEN /\ daemon' = [daemon EXCEPT ![d] = "deleted"]
              /\ agent' = [g \in Agents |->
                   IF g \in request[s].holds THEN Current(agent[g], None) ELSE agent[g]]
         ELSE UNCHANGED <<daemon, agent>>
  /\ Ends(s)
  /\ UNCHANGED <<accountVars, memberVars, run>>

\* ------------------------------------------------------- agents and their runs

\* validateDaemonRuntimeKind: a daemon that has reported the runtime.
DaemonHosts(d) == DaemonActive(d) /\ daemon[d] = "ready"

\* Store.CreateAgent: the daemon is read without a lock, then the handle is
\* locked.
AgentAskedUnlocked(s, p, d, h) ==
  /\ DaemonHosts(d)
  /\ Serve(s, Ask("agent", "count", p, h, d, {}))

AgentAsked(s, p, d, h) ==
  /\ DaemonHosts(d)
  /\ Serve(s, Ask("agent", "count", p, h, d, HandleLock(h)))

CreateAgent(s, p, d, h) ==
  /\ requirePermission(p)
  /\ AgentAsked(s, p, d, h)
  /\ UNCHANGED <<accountVars, memberVars, agentVars>>

AgentInserted(s, g) ==
  /\ At(s, {"agent"}, "insert")
  /\ agent[g].state = "unused"
  /\ LET h == request[s].handle
     IN  agent' = IF /\ workspace = "live"
                     /\ \A f \in Agents : agent[f].state = "here" => agent[f].handle # h
                  THEN [agent EXCEPT ![g] = NewAgent(h, request[s].item)]
                  ELSE agent
  /\ Ends(s)
  /\ UNCHANGED <<accountVars, memberVars, daemon, run>>

\* getAgentForUpdatePostgres and getAgentRunForUpdatePostgres.
AgentLock(g) == {g}
RunLock(r) == {r}

RunActive(r) == run[r].state = "active"
RunKept(r) == run[r].state \in {"active", "over"}

\* requireAgentEndpointAccess: a human, or the daemon that hosts the agent.
AgentAccess(g) ==
  \/ \E p \in People : MemberOf(p)
  \/ \E d \in Daemons : DaemonActive(d) /\ agent[g].daemon = d

\* UpdateAgent and UpdateAgentSession lock the agent's row, read all of it,
\* change the texts and the status in it and write all of it back.
AgentEdit(g) == Ask("edit", "current", None, None, g, AgentLock(g))

UpdateAgent(s, p, g) ==
  /\ requirePermission(p)
  /\ agent[g].state = "here"
  /\ Serve(s, AgentEdit(g))
  /\ UNCHANGED <<accountVars, memberVars, agentVars>>

UpdateAgentSession(s, g) ==
  /\ agent[g].state = "here" /\ AgentAccess(g)
  /\ Serve(s, AgentEdit(g))
  /\ UNCHANGED <<accountVars, memberVars, agentVars>>

AgentRowRead(s) ==
  /\ At(s, {"edit"}, "current")
  /\ LET g == request[s].item
     IN  IF agent[g].state = "here"
         THEN /\ request' = [request EXCEPT ![s] =
                              Moved(Seeing(request[s], agent[g].run), "write", {})]
              /\ UNCHANGED left
         ELSE Ends(s)
  /\ UNCHANGED <<accountVars, memberVars, agentVars>>

\* The upsert; a row that went with its workspace has no workspace to return to.
AgentRowWritten(s) ==
  /\ At(s, {"edit"}, "write")
  /\ LET g == request[s].item
     IN  agent' = IF agent[g].state = "here"
                  THEN [agent EXCEPT ![g] = Current(agent[g], request[s].seen)] ELSE agent
  /\ Ends(s)
  /\ UNCHANGED <<accountVars, memberVars, daemon, run>>

\* DeleteAgent and StartAgentRun lock the agent's row.
DeleteAgentUnlocked(s, p, g) ==
  /\ requirePermission(p)
  /\ agent[g].state = "here"
  /\ Serve(s, Ask("retire", "current", p, None, g, {}))
  /\ UNCHANGED <<accountVars, memberVars, agentVars>>

DeleteAgent(s, p, g) ==
  /\ requirePermission(p)
  /\ agent[g].state = "here"
  /\ Serve(s, Ask("retire", "current", p, None, g, AgentLock(g)))
  /\ UNCHANGED <<accountVars, memberVars, agentVars>>

StartAgentRun(s, p, g) ==
  /\ MemberOf(p)
  /\ agent[g].state = "here"
  /\ Serve(s, Ask("start", "current", p, None, g, AgentLock(g)))
  /\ UNCHANGED <<accountVars, memberVars, agentVars>>

RunsOf(g) == {r \in Runs : RunKept(r) /\ run[r].agent = g}

\* Deleting an agent deletes its runs, and so locks their rows.
WriteStep(op) == IF op = "retire" THEN "cascade" ELSE "write"
RowsToWrite(s) ==
  IF request[s].op = "retire" THEN RunsOf(request[s].item) \ request[s].holds ELSE {}

\* The agent's row: gone, without a run, or with one whose row is locked too.
CurrentRunRead(s) ==
  /\ At(s, {"retire", "start"}, "current")
  /\ LET g == request[s].item
     IN  IF agent[g].state # "here" THEN Ends(s)
         ELSE IF agent[g].run = None THEN Goes(s, WriteStep(request[s].op), RowsToWrite(s))
         ELSE Goes(s, "running", RunLock(agent[g].run))
  /\ UNCHANGED <<accountVars, memberVars, agentVars>>

\* An active run refuses the request (isTerminalRunStatus).
CurrentRunChecked(s) ==
  /\ At(s, {"retire", "start"}, "running")
  /\ LET g == request[s].item
     IN  IF agent[g].state = "here" /\ agent[g].run # None /\ RunActive(agent[g].run)
         THEN Ends(s)
         ELSE Goes(s, WriteStep(request[s].op), RowsToWrite(s))
  /\ UNCHANGED <<accountVars, memberVars, agentVars>>

AgentDeleted(s) ==
  /\ At(s, {"retire"}, "cascade")
  /\ LET g == request[s].item
     IN  /\ agent' = [agent EXCEPT ![g] = Gone(agent[g])]
         /\ run' = [r \in Runs |-> IF r \in RunsOf(g) THEN Dropped(run[r]) ELSE run[r]]
  /\ Ends(s)
  /\ UNCHANGED <<accountVars, memberVars, daemon>>

RunStarted(s, r) ==
  /\ At(s, {"start"}, "write")
  /\ run[r].state = "unused"
  /\ LET g == request[s].item
     IN  IF agent[g].state = "here"
         THEN /\ run' = [run EXCEPT ![r] = NewRun(g)]
              /\ agent' = [agent EXCEPT ![g] = Current(agent[g], r)]
         ELSE UNCHANGED <<run, agent>>
  /\ Ends(s)
  /\ UNCHANGED <<accountVars, memberVars, daemon>>

\* requireAgentRunEndpointAccess: whoever may reach the agent of the run.
RunAccess(r) == AgentAccess(run[r].agent)

\* UpdateAgentRun and StopAgentRun lock the run and then its agent.
UpdateAgentRun(s, r, state) ==
  /\ RunKept(r) /\ RunAccess(r)
  /\ Serve(s, Reporting(Ask("report", "owner", None, None, r, RunLock(r)), state))
  /\ UNCHANGED <<accountVars, memberVars, agentVars>>

StopAgentRun(s, p, r) ==
  /\ MemberOf(p)
  /\ RunKept(r)
  /\ Serve(s, Ask("stop", "owner", p, None, r, RunLock(r)))
  /\ UNCHANGED <<accountVars, memberVars, agentVars>>

RunRead(s) ==
  /\ At(s, {"report", "stop"}, "owner")
  /\ LET r == request[s].item
     IN  IF RunKept(r) THEN Goes(s, "write", AgentLock(run[r].agent)) ELSE Ends(s)
  /\ UNCHANGED <<accountVars, memberVars, agentVars>>

\* The reported status is stored as it comes, and the run becomes the agent's
\* current one again.
RunWritten(s) ==
  /\ At(s, {"report"}, "write")
  /\ LET r == request[s].item
         g == run[r].agent
     IN  IF RunKept(r) /\ agent[g].state = "here"
         THEN /\ run' = [run EXCEPT ![r] = Stored(g, request[s].phase)]
              /\ agent' = [agent EXCEPT ![g] = Current(agent[g], r)]
         ELSE UNCHANGED <<run, agent>>
  /\ Ends(s)
  /\ UNCHANGED <<accountVars, memberVars, daemon>>

\* A stop request is for the daemon to read: it changes neither.
RunStopAsked(s) ==
  /\ At(s, {"stop"}, "write")
  /\ Ends(s)
  /\ UNCHANGED <<accountVars, memberVars, agentVars>>

\* ------------------------------------------------------------ specification

\* Before the workspace is made ...
Unfounded ==
  /\ workspace = "none"
  /\ member = [p \in People |-> NoMember]
  /\ daemon = [d \in Daemons |-> "none"]
  /\ agent = [g \in Agents |-> NoAgent]

\* ... or some time after, with an owner, a daemon that has reported its
\* runtimes, and an agent on it.
Established ==
  \E p \in Settled, h, k \in Handles, d \in Daemons, g \in Agents :
    /\ h # k
    /\ workspace = "live"
    /\ member = [q \in People |-> IF q = p THEN [handle |-> h, role |-> "owner"] ELSE NoMember]
    /\ daemon = [e \in Daemons |-> IF e = d THEN "ready" ELSE "none"]
    /\ agent = [f \in Agents |-> IF f = g THEN NewAgent(k, d) ELSE NoAgent]

Init ==
  /\ account = [p \in People |-> IF p \in Settled THEN "verified" ELSE "none"]
  /\ jwt = Settled
  /\ link = [l \in Links |-> NoLink]
  /\ Unfounded \/ Established
  /\ invite = [i \in Invites |-> "none"]
  /\ run = [r \in Runs |-> NoRun]
  /\ request = [s \in Slots |-> Idle]
  /\ left = Requests

LinkStep(s) ==
  \/ \E p \in People : Register(s, p) \/ ResendVerification(s, p) \/ ForgotPassword(s, p)
  \/ CooldownRead(s) \/ Supersede(s)
  \/ \E l \in Links : IssueLink(s, l) \/ VerifyEmail(s, l) \/ ResetPassword(s, l)
  \/ LinkRead(s) \/ EmailVerified(s) \/ PasswordReset(s)

MemberStep(s) ==
  \/ \E p \in People, h \in Handles :
       \/ CreateWorkspace(s, p, h)
       \/ \E q \in People : AddWorkspaceMember(s, p, q, h)
       \/ \E i \in Invites : AcceptWorkspaceInvite(s, p, i, h)
  \/ WorkspaceInserted(s) \/ InviteRead(s) \/ HandleCounted(s)
  \/ MemberAdded(s) \/ InviteAccepted(s)
  \/ \E p \in People : DeleteWorkspace(s, p)
  \/ WorkspaceDeleted(s)

AgentStep(s) ==
  \/ \E p \in People, d \in Daemons :
       DeleteDaemon(s, p, d) \/ \E h \in Handles : CreateAgent(s, p, d, h)
  \/ HostedRead(s) \/ DaemonDeleted(s)
  \/ \E g \in Agents :
       \/ AgentInserted(s, g) \/ UpdateAgentSession(s, g)
       \/ \E p \in People : UpdateAgent(s, p, g) \/ DeleteAgent(s, p, g) \/ StartAgentRun(s, p, g)
  \/ AgentRowRead(s) \/ AgentRowWritten(s)
  \/ CurrentRunRead(s) \/ CurrentRunChecked(s) \/ AgentDeleted(s)

RunStep(s) ==
  \/ \E r \in Runs :
       \/ RunStarted(s, r)
       \/ \E state \in {"active", "over"} : UpdateAgentRun(s, r, state)
       \/ \E p \in People : StopAgentRun(s, p, r)
  \/ RunRead(s) \/ RunWritten(s) \/ RunStopAsked(s)

AtOnce ==
  \/ \E p \in People :
       \/ Login(p)
       \/ \E i \in Invites : CreateWorkspaceInvite(p, i)
       \/ \E d \in Daemons : CreateDaemon(p, d)
  \/ \E d \in Daemons, found \in BOOLEAN : UpdateDaemonStatus(d, found)

Clock ==
  \/ \E p \in People : JWTExpires(p)
  \/ \E l \in Links : CooldownOver(l) \/ LinkExpires(l)
  \/ \E i \in Invites : InviteExpires(i)

Next ==
  \/ \E s \in Slots :
       \/ LinkStep(s) \/ MemberStep(s) \/ AgentStep(s) \/ RunStep(s)
       \/ Granted(s) \/ RolledBack(s)
  \/ AtOnce
  \/ Clock

Spec == Init /\ [][Next]_vars

\* ---------------------------------------------------------------- properties

TypeOK ==
  /\ account \in [People -> {"none", "unverified", "verified"}]
  /\ jwt \subseteq People
  /\ link \in [Links -> [state : {"unused", "live", "superseded", "spent"},
                         owner : People \cup {None}, purpose : Purposes \cup {None},
                         age : {"young", "ripe", "expired", None}, uses : Nat,
                         replaced : BOOLEAN]]
  /\ workspace \in {"none", "live", "gone"}
  /\ member \in [People -> [handle : Handles \cup {None}, role : {"owner", "member", None}]]
  /\ invite \in [Invites -> {"none", "open", "expired"}]
  /\ daemon \in [Daemons -> {"none", "active", "ready", "deleted"}]
  /\ agent \in [Agents -> AgentType]
  /\ run \in [Runs -> RunType]
  /\ request \in [Slots -> RequestType]
  /\ left \in 0..Requests

\* An e-mailed link works at most once, not before it is consumed, and never
\* if a newer link replaced it, be it before the link was opened or while the
\* opening was on its way: whatever requests for links and openings of links
\* overlap, consumeAccountEmailTokenTx sees each row under its lock.
LinkUsedOnce ==
  \A l \in Links : /\ link[l].uses <= 1
                   /\ link[l].state # "spent" => link[l].uses = 0
                   /\ link[l].replaced => link[l].uses = 0

\* In a workspace no two of its users and agents answer to the same handle,
\* although they are in two tables and only the advisory lock that
\* ensureWorkspaceHandleAvailableTx takes orders the joins and creations.
HandlesDistinct ==
  /\ \A p, q \in People : member[p].handle # None /\ p # q => member[p].handle # member[q].handle
  /\ \A g, f \in Agents : /\ agent[g].state = "here" /\ agent[f].state = "here" /\ g # f
                          => agent[g].handle # agent[f].handle
  /\ \A p \in People, g \in Agents : agent[g].state = "here" => member[p].handle # agent[g].handle

\* DeleteAgent never takes away an agent whose current run is active, even
\* one that StartAgentRun or UpdateAgentRun made active while the deletion was
\* on its way (only the deletion of the whole workspace does).
ActiveRunKeepsAgent ==
  [][\A g \in Agents :
       /\ agent[g].state = "here" /\ agent'[g].state = "gone" /\ workspace' = "live"
       /\ agent[g].run # None
       => run[agent[g].run].state # "active"]_vars

=============================================================================
