---------------------------- MODULE McpConnection ----------------------------
(* The connections of a session to its MCP servers                          *)
(* (mcp/connection-manager.ts) and the tools they give an agent             *)
(* (agent/tool/index.ts).  Every attempt to connect is a coroutine of its    *)
(* own; a later attempt, a shutdown or the loss of the transport may come    *)
(* while it waits, and it goes on from state it read before.                 *)
EXTENDS Naturals, FiniteSets

CONSTANTS
  Servers,      \* configured and not disabled
  None, Auth,   \* no tools; the synthetic tool that starts a login
  MaxAttempts   \* bound: attempts per server

ASSUME McpBounds == /\ MaxAttempts \in Nat \ {0}
                    /\ {None, Auth} \cap Nat = {} /\ None # Auth

VARIABLES
  present,  \* servers whose entry is in the map
  attempt,  \* entry.attemptId
  status,   \* entry.status
  client,   \* entry.client: a client is named by the attempt that made it
  conn,     \* what each client's transport is doing
  at,       \* where each attempt waits
  tools     \* ToolManager: whose tools are registered for the server

vars == <<present, attempt, status, client, conn, at, tools>>

Attempts == 1 .. MaxAttempts

\* dead: the transport closed by itself.
Transports == {"none", "starting", "open", "dead", "closed"}

\* closing: closeClient in reconnect; dropping: closeClient after a failure.
Places == {"none", "closing", "connecting", "dropping", "done"}

TypeOK ==
  /\ present \subseteq Servers
  /\ \A s \in Servers :
       /\ attempt[s] \in 0 .. MaxAttempts
       /\ status[s] \in {"unknown", "pending", "connected", "failed", "needs-auth"}
       /\ client[s] \in Attempts \cup {None}
       /\ tools[s] \in Attempts \cup {None, Auth}
       /\ \A k \in Attempts : conn[s][k] \in Transports /\ at[s][k] \in Places

Init ==
  /\ present = {}
  /\ attempt = [s \in Servers |-> 0]
  /\ status = [s \in Servers |-> "unknown"]
  /\ client = [s \in Servers |-> None]
  /\ conn = [s \in Servers |-> [k \in Attempts |-> "none"]]
  /\ at = [s \in Servers |-> [k \in Attempts |-> "none"]]
  /\ tools = [s \in Servers |-> None]

\* Plausible bug: an attempt overtaken by another one goes on.
StillPresent(s, k) == s \in present

\* isCurrent
IsCurrent(s, k) == s \in present /\ attempt[s] = k

Place(s, k, place) == at' = [at EXCEPT ![s][k] = place]

\* emit, as the tool manager hears it: the tools of a connected server are
\* registered, the login tool of one that needs it, and none otherwise.
Emit(s, new, k) ==
  tools' = [tools EXCEPT ![s] = IF new = "connected" THEN k
                                ELSE IF new = "needs-auth" THEN Auth ELSE None]

\* Closing a client: a transport that is already gone stays as it is.
Close(s, k) == [conn EXCEPT ![s][k] = IF @ \in {"starting", "open"} THEN "closed"
                                                                    ELSE @]

\* Plausible bug: the client is forgotten and not closed.
ForgetClient(s) == /\ client' = [client EXCEPT ![s] = None]
                   /\ UNCHANGED conn

\* closeClient(entry)
CloseClient(s) ==
  /\ client' = [client EXCEPT ![s] = None]
  /\ conn' = IF client[s] = None THEN conn ELSE Close(s, client[s])

\* connectOne up to its wait: the client is made and starts.
StartClient(s, k) ==
  /\ client' = [client EXCEPT ![s] = k]
  /\ conn' = [conn EXCEPT ![s][k] = "starting"]
  /\ Place(s, k, "connecting")

-----------------------------------------------------------------------------
\* connectAll, once per session; servers differ in nothing else.
ConnectAll ==
  /\ attempt = [s \in Servers |-> 0]
  /\ present' = Servers
  /\ attempt' = [s \in Servers |-> 1]
  /\ status' = [s \in Servers |-> "pending"]
  /\ client' = [s \in Servers |-> 1]
  /\ conn' = [s \in Servers |-> [conn[s] EXCEPT ![1] = "starting"]]
  /\ at' = [s \in Servers |-> [at[s] EXCEPT ![1] = "connecting"]]
  /\ UNCHANGED tools

\* reconnect: a new attempt number is drawn before the old client is closed.
Reconnect(s) ==
  /\ s \in present
  /\ attempt[s] < MaxAttempts
  /\ attempt' = [attempt EXCEPT ![s] = @ + 1]
  /\ CloseClient(s)
  /\ Place(s, attempt[s] + 1, "closing")
  /\ UNCHANGED <<present, status, tools>>

\* The old client is closed.
ReconnectClosed(s, k) ==
  /\ at[s][k] = "closing"
  /\ IF IsCurrent(s, k)
     THEN /\ status' = [status EXCEPT ![s] = "pending"]
          /\ Emit(s, "pending", k)
          /\ StartClient(s, k)
     ELSE Place(s, k, "done") /\ UNCHANGED <<status, tools, client, conn>>
  /\ UNCHANGED <<present, attempt>>

\* The client has connected and listed its tools; the transport is watched
\* from now on, and a close it saw in between is replayed (Dies).
Discovered(s, k) ==
  /\ at[s][k] = "connecting"
  /\ conn[s][k] = "starting"
  /\ IF IsCurrent(s, k)
     THEN /\ conn' = [conn EXCEPT ![s][k] = "open"]
          /\ status' = [status EXCEPT ![s] = "connected"]
          /\ Emit(s, "connected", k)
     ELSE conn' = Close(s, k) /\ UNCHANGED <<status, tools>>
  /\ Place(s, k, "done")
  /\ UNCHANGED <<present, attempt, client>>

\* Plausible bug: a start whose client was closed under it never returns.
StartFailsItself(s, k) ==
  /\ at[s][k] = "connecting"
  /\ IsCurrent(s, k)
  /\ \E new \in {"failed", "needs-auth"} : status' = [status EXCEPT ![s] = new]
  /\ CloseClient(s)
  /\ Place(s, k, "dropping")
  /\ UNCHANGED <<present, attempt, tools>>

\* The start fails: a refusal, a timeout, a 401, or a close by somebody else.
StartFails(s, k) ==
  /\ at[s][k] = "connecting"
  /\ IF IsCurrent(s, k)
     THEN /\ \E new \in {"failed", "needs-auth"} : status' = [status EXCEPT ![s] = new]
          /\ CloseClient(s)
          /\ Place(s, k, "dropping")
     ELSE /\ conn' = Close(s, k)
          /\ Place(s, k, "done")
          /\ UNCHANGED <<status, client>>
  /\ UNCHANGED <<present, attempt, tools>>

\* The failed client is closed; only the current attempt reports.
Dropped(s, k) ==
  /\ at[s][k] = "dropping"
  /\ Place(s, k, "done")
  /\ IF IsCurrent(s, k) THEN Emit(s, status[s], k) ELSE UNCHANGED tools
  /\ UNCHANGED <<present, attempt, status, client, conn>>

\* Plausible bug: the loss of the transport changes the status only.
DiesQuietly(s, k) ==
  /\ conn[s][k] = "open"
  /\ conn' = [conn EXCEPT ![s][k] = "dead"]
  /\ IF IsCurrent(s, k) /\ client[s] = k
     THEN /\ status' = [status EXCEPT ![s] = "failed"]
          /\ client' = [client EXCEPT ![s] = None]
     ELSE UNCHANGED <<status, client>>
  /\ UNCHANGED <<present, attempt, at, tools>>

\* The transport closes by itself: watchForUnexpectedClose.
Dies(s, k) ==
  /\ conn[s][k] = "open"
  /\ conn' = [conn EXCEPT ![s][k] = "dead"]
  /\ IF IsCurrent(s, k) /\ client[s] = k
     THEN /\ status' = [status EXCEPT ![s] = "failed"]
          /\ client' = [client EXCEPT ![s] = None]
          /\ Emit(s, "failed", k)
     ELSE UNCHANGED <<status, client, tools>>
  /\ UNCHANGED <<present, attempt, at>>

\* shutdown: the entries leave the map, then their clients are closed.
Shutdown ==
  /\ present # {}
  /\ present' = {}
  /\ client' = [s \in Servers |-> None]
  /\ conn' = [s \in Servers |->
       IF client[s] = None THEN conn[s] ELSE Close(s, client[s])[s]]
  /\ UNCHANGED <<attempt, status, at, tools>>

Resume(s, k) ==
  ReconnectClosed(s, k) \/ Discovered(s, k) \/ StartFails(s, k) \/ Dropped(s, k)

Next ==
  \/ ConnectAll \/ Shutdown
  \/ \E s \in Servers : \/ Reconnect(s)
                        \/ \E k \in Attempts : Resume(s, k) \/ Dies(s, k)

Spec == Init /\ [][Next]_vars

\* A start ends by its timeout at the latest, and closing a client ends.
FairSpec == Spec /\ \A s \in Servers, k \in Attempts : WF_vars(Resume(s, k))

-----------------------------------------------------------------------------
(* Properties.                                                             *)

Running(s) == \E k \in Attempts : at[s][k] \notin {"none", "done"}

\* No transport is left behind, whatever overtakes whatever: one that runs
\* belongs to an entry of the map, or an attempt is left that will close it.
NoTransportLeaks ==
  \A s \in Servers, k \in Attempts :
    conn[s][k] \in {"starting", "open"}
      => (s \in present /\ client[s] = k) \/ at[s][k] = "connecting"

\* When nothing is under way, the model is offered the tools of a server
\* exactly if its last attempt connected and its transport is open.
ToolsMatchServer ==
  \A s \in present : ~Running(s) =>
    /\ tools[s] \in Attempts
         => tools[s] = attempt[s] /\ client[s] = tools[s] /\ conn[s][tools[s]] = "open"
    /\ (status[s] = "connected") <=> (tools[s] \in Attempts)
    /\ (status[s] = "needs-auth") <=> (tools[s] = Auth)

\* The initial load that every turn waits for ends, and no server stays
\* pending, although attempts are overtaken.
PendingEnds ==
  \A s \in Servers : /\ at[s][1] # "none" ~> at[s][1] = "done"
                     /\ status[s] = "pending" ~> status[s] # "pending" \/ s \notin present
=============================================================================
