------------------------------- MODULE Access -------------------------------
(***************************************************************************)
(* Workspaces, agents and the gate of every operation (core/admin.ts,      *)
(* core/access.ts, workspaces.controller.ts, the SDK's connect).  An agent *)
(* key becomes a principal, which a request holds for one call and an SDK  *)
(* or MCP connection for as long as it is open; authorize reads the        *)
(* workspace and the agent again, and the operation's write comes last.    *)
(* The owner is one person with several tabs.                              *)
(*                                                                         *)
(* Names, slugs, the audit trail and the scope of a record are left out.   *)
(*                                                                         *)
(* Definitions called Bug... are variants of the one that follows them, as *)
(* a plausible mistake in the code would make it; nothing here uses them.  *)
(***************************************************************************)
EXTENDS ApiProcess, FiniteSets, Sequences

CONSTANTS
  Workspaces, Connections, Tabs,
  Operations,       \* what a principal may ask for, one permission each
  SubagentDefaults, \* permissions an agent has unless the owner says otherwise
  AgentsMax,        \* LIMITS.agentsPerWorkspaceMax
  MaxAgents         \* bound: agent rows ever written

ASSUME AccessAssumption == SubagentDefaults \subseteq Operations

VARIABLES
  open,      \* workspaces on file
  agents,    \* rows: workspace, number of its key, permissions, whether revoked
  keys,      \* keys ever minted
  mints,     \* mints[t]: the workspace a tab has counted agents of
  conns,     \* conns[k]: a principal, and the operation it is in the middle of
  records,   \* <<workspace, author>>
  strained   \* history variable: workspaces where two mints counted at once,
             \* or an agent without a seat was given a key

accessVars == <<open, agents, keys, mints, conns, records, strained>>

AccessInit ==
  /\ open = Workspaces /\ agents = <<>> /\ keys = 0
  /\ mints = [t \in Tabs |-> None] /\ conns = [k \in Connections |-> None]
  /\ records = {} /\ strained = {}

AgentIds == 1..Len(agents)
Agents(w) == {a \in AgentIds : agents[a].workspace = w /\ agents[a].onFile}

(***************************************************************************)
(* createAgent counts the agents that can connect, and inserts one more;   *)
(* the writer of the owner's own records takes no seat.                    *)
(***************************************************************************)
Seated(w) == {a \in Agents(w) : ~agents[a].revoked /\ agents[a].key > 0}
BugHasRoom(w) == Cardinality(Seated(w)) <= AgentsMax
HasRoom(w) == Cardinality(Seated(w)) < AgentsMax

CountAgents(t, w) ==
  /\ mints[t] = None /\ w \in open /\ HasRoom(w) /\ Left("mint") /\ Spend("mint")
  /\ mints' = [mints EXCEPT ![t] = w]
  /\ strained' = IF \E u \in Tabs : mints[u] = w THEN strained \cup {w} ELSE strained
  /\ UNCHANGED <<open, agents, keys, conns, records, now>>

NewAgent(w, key, permissions) ==
  [workspace |-> w, key |-> key, console |-> key = 0, permissions |-> permissions,
   revoked |-> FALSE, onFile |-> TRUE]

\* A workspace that is gone by now refuses the row.
BugMintAgent(t, permissions) ==
  /\ mints[t] # None /\ Len(agents) < MaxAgents
  /\ mints' = [mints EXCEPT ![t] = None]
  /\ agents' = Append(agents, NewAgent(mints[t], keys + 1, permissions))
  /\ keys' = keys + 1
  /\ UNCHANGED <<open, conns, records, strained, now, budget>>
MintAgent(t, permissions) ==
  /\ mints[t] # None /\ Len(agents) < MaxAgents
  /\ mints' = [mints EXCEPT ![t] = None]
  /\ IF mints[t] \in open
     THEN /\ agents' = Append(agents, NewAgent(mints[t], keys + 1, permissions))
          /\ keys' = keys + 1
     ELSE UNCHANGED <<agents, keys>>
  /\ UNCHANGED <<open, conns, records, strained, now, budget>>

\* resolveWriterAgentId: found, or made, in the transaction of the write.
Console(w) == {a \in Agents(w) : agents[a].console}
OwnerWrites(w) ==
  /\ w \in open /\ Left("own") /\ Spend("own")
  /\ \/ \E a \in Console(w) : records' = records \cup {<<w, a>>} /\ UNCHANGED agents
     \/ /\ Console(w) = {} /\ Len(agents) < MaxAgents
        /\ agents' = Append(agents, NewAgent(w, 0, Operations))
        /\ records' = records \cup {<<w, Len(agents) + 1>>}
  /\ UNCHANGED <<open, keys, mints, conns, strained, now>>

SetPermissions(a, permissions) ==
  /\ agents[a].onFile /\ agents[a].permissions # permissions
  /\ Left("grant") /\ Spend("grant")
  /\ agents' = [agents EXCEPT ![a].permissions = permissions]
  /\ UNCHANGED <<open, keys, mints, conns, records, strained, now>>

\* The row stays, so what the agent wrote keeps its author.
BugRevokeAgent(a) ==
  /\ agents[a].onFile /\ ~agents[a].revoked /\ Left("revoke") /\ Spend("revoke")
  /\ agents' = [agents EXCEPT ![a].onFile = FALSE]
  /\ UNCHANGED <<open, keys, mints, conns, records, strained, now>>
RevokeAgent(a) ==
  /\ agents[a].onFile /\ ~agents[a].revoked /\ Left("revoke") /\ Spend("revoke")
  /\ agents' = [agents EXCEPT ![a].revoked = TRUE]
  /\ UNCHANGED <<open, keys, mints, conns, records, strained, now>>

\* A fresh key, for any row there is; the agent is revoked no more.
RotateAgentKey(a) ==
  /\ agents[a].onFile /\ Left("rotate") /\ Spend("rotate")
  /\ agents' = [agents EXCEPT ![a].key = keys + 1, ![a].revoked = FALSE]
  /\ keys' = keys + 1
  /\ strained' = IF a \in Seated(agents[a].workspace) THEN strained
                 ELSE strained \cup {agents[a].workspace}
  /\ conns' = [k \in Connections |->
                 IF conns[k] # None /\ conns[k].agent = a THEN [conns[k] EXCEPT !.cut = FALSE]
                 ELSE conns[k]]
  /\ UNCHANGED <<open, mints, records, now>>

\* What hangs on the workspace's row goes with it.
DeleteWorkspace(w) ==
  /\ w \in open /\ Left("close") /\ Spend("close")
  /\ open' = open \ {w}
  /\ agents' = [a \in AgentIds |-> [agents[a] EXCEPT !.onFile = @ /\ agents[a].workspace # w]]
  /\ records' = {r \in records : r[1] # w}
  /\ UNCHANGED <<keys, mints, conns, strained, now>>

(***************************************************************************)
(* An agent's side.                                                        *)
(***************************************************************************)

\* authenticateAgent: the key names the row; what it may do is read here.
Connect(k, key) ==
  /\ conns[k] = None /\ Left("connect") /\ Spend("connect")
  /\ \E a \in AgentIds :
       /\ agents[a].onFile /\ agents[a].key = key /\ ~agents[a].revoked
       /\ conns' = [conns EXCEPT ![k] = [agent |-> a, workspace |-> agents[a].workspace,
                                         permissions |-> agents[a].permissions, key |-> key,
                                         at |-> "idle", asks |-> None, cut |-> FALSE]]
  /\ UNCHANGED <<open, agents, keys, mints, records, strained, now>>

Close(k) ==
  /\ conns[k] # None /\ conns[k].at = "idle"
  /\ conns' = [conns EXCEPT ![k] = None]
  /\ UNCHANGED <<open, agents, keys, mints, records, strained, now, budget>>

Asking(k, at) == conns[k] # None /\ conns[k].at = at
Idles(k) == conns' = [conns EXCEPT ![k].at = "idle", ![k].asks = None, ![k].cut = FALSE]

\* authorize: the workspace, then the agent, then the permission it came with.
MayEnter(k, w) == w \in open /\ conns[k].workspace = w
FindWorkspace(k, w, operation) ==
  LET a == conns[k].agent
  IN /\ Asking(k, "idle") /\ MayEnter(k, w) /\ Left("ask") /\ Spend("ask")
     /\ conns' = [conns EXCEPT ![k].at = "entered", ![k].asks = <<w, operation>>,
                               ![k].cut = agents[a].revoked]
     /\ UNCHANGED <<open, agents, keys, mints, records, strained, now>>

BugStands(k) == agents[conns[k].agent].onFile
Stands(k) == agents[conns[k].agent].onFile /\ ~agents[conns[k].agent].revoked
Permitted(k) == conns[k].asks[2] \in conns[k].permissions
CheckAgent(k) ==
  /\ Asking(k, "entered")
  /\ IF Stands(k) /\ Permitted(k) THEN conns' = [conns EXCEPT ![k].at = "allowed"] ELSE Idles(k)
  /\ UNCHANGED <<open, agents, keys, mints, records, strained, now, budget>>

\* The operation: an "add" leaves a record, unless its rows are gone by now.
Act(k) ==
  LET a == conns[k].agent
      w == conns[k].asks[1]
  IN /\ Asking(k, "allowed") /\ Idles(k)
     /\ records' = IF conns[k].asks[2] = "add" /\ w \in open /\ agents[a].onFile
                   THEN records \cup {<<w, a>>} ELSE records
     /\ UNCHANGED <<open, agents, keys, mints, strained, now, budget>>

\* The process dies.
AccessLost ==
  /\ mints' = [t \in Tabs |-> None] /\ conns' = [k \in Connections |-> None]
  /\ UNCHANGED <<open, agents, keys, records, strained>>

OwnerNext ==
  \/ \E t \in Tabs, w \in Workspaces : CountAgents(t, w)
  \/ \E t \in Tabs, p \in {SubagentDefaults, Operations} : MintAgent(t, p)
  \/ \E w \in Workspaces : OwnerWrites(w) \/ DeleteWorkspace(w)
  \/ \E a \in AgentIds : RevokeAgent(a) \/ RotateAgentKey(a)
  \/ \E a \in AgentIds, p \in SUBSET Operations : SetPermissions(a, p)

AgentNext == \E k \in Connections :
  \/ \E key \in 1..keys : Connect(k, key)
  \/ \E w \in Workspaces, o \in Operations : FindWorkspace(k, w, o)
  \/ Close(k) \/ CheckAgent(k) \/ Act(k)

AccessNext == OwnerNext \/ AgentNext

(***************************************************************************)
(* Properties.                                                             *)
(***************************************************************************)

\* Keys are unique, and an agent's rows hang on an open workspace.
AccessTypeOK ==
  /\ open \subseteq Workspaces
  /\ \A a \in AgentIds : /\ agents[a].key \in 0..keys /\ agents[a].permissions \subseteq Operations
                         /\ agents[a].onFile => agents[a].workspace \in open
  /\ \A a, b \in AgentIds : agents[a].key = agents[b].key => a = b \/ agents[a].key = 0
  /\ \A k \in Connections : conns[k] # None => conns[k].agent \in AgentIds

(***************************************************************************)
(* A workspace holds no more agents that can connect than the limit, where *)
(* no two mints counted at once and no key was given to a revoked agent or *)
(* to the writer of the owner's records (createAgent, rotateAgentKey).     *)
(***************************************************************************)
CeilingHolds == \A w \in open \ strained : Cardinality(Seated(w)) <= AgentsMax

(***************************************************************************)
(* Invariant 9: an operation asked for after its agent was revoked does    *)
(* not get through the gate, whatever connection it came over, unless the  *)
(* agent was given a key again meanwhile (authorize).                      *)
(***************************************************************************)
RevokedGetNowhere == \A k \in Connections : Asking(k, "allowed") => ~conns[k].cut

(***************************************************************************)
(* Invariant 1: a record's author is an agent of its workspace that is     *)
(* still on file, through revocations, new keys and deleted workspaces.    *)
(***************************************************************************)
AuthorsStay ==
  \A r \in records : r[1] \in open /\ agents[r[2]].onFile /\ agents[r[2]].workspace = r[1]

=============================================================================
