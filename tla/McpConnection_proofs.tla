------------------------ MODULE McpConnection_proofs ------------------------
(* What the connection manager keeps for any servers and any number of      *)
(* attempts: no transport is left running that nobody will close, and the   *)
(* tools an agent is offered are those of the servers that are connected.   *)
EXTENDS McpConnection, TLAPS

Shapes ==
  /\ present \subseteq Servers
  /\ attempt \in [Servers -> 0 .. MaxAttempts]
  /\ status \in [Servers -> {"unknown", "pending", "connected", "failed", "needs-auth"}]
  /\ client \in [Servers -> Attempts \cup {None}]
  /\ conn \in [Servers -> [Attempts -> Transports]]
  /\ at \in [Servers -> [Attempts -> Places]]
  /\ tools \in [Servers -> Attempts \cup {None, Auth}]

\* An attempt that has not been drawn has no transport and waits nowhere.
Undrawn(s, k) == k > attempt[s] => conn[s][k] = "none" /\ at[s][k] = "none"

\* A transport starts while its attempt waits for it, and is open only after.
Started(s, k) == /\ conn[s][k] = "starting" => at[s][k] = "connecting"
                 /\ conn[s][k] = "open" => at[s][k] = "done"

\* The attempt that is current owns the entry's client.
Owns(s, k) == IsCurrent(s, k) => /\ at[s][k] = "connecting" => client[s] = k
                                 /\ at[s][k] = "closing" => client[s] = None

\* An open transport is the one of the entry's client.
Held(s, k) == conn[s][k] = "open" => s \in present /\ client[s] = k

\* NoTransportLeaks alone is not inductive: a step may replace the entry's
\* client, and one must know that none was open then.
LeakInv ==
  /\ Shapes
  /\ \A s \in Servers, k \in Attempts :
       Undrawn(s, k) /\ Started(s, k) /\ Owns(s, k) /\ Held(s, k)

NoneIsNoAttempt == MaxAttempts \in Nat \ {0} /\ None \notin Attempts

LEMMA NoneApart == NoneIsNoAttempt
BY McpBounds DEF NoneIsNoAttempt, Attempts

LEMMA InitLeakInv == Init => LeakInv
BY NoneApart DEF NoneIsNoAttempt, Init, LeakInv, Shapes, Undrawn, Started, Owns, Held, IsCurrent,
                 Attempts, Transports, Places

LEMMA EmitShape ==
    ASSUME Shapes, NEW s \in Servers, NEW k \in Attempts, NEW new, Emit(s, new, k)
    PROVE  tools' \in [Servers -> Attempts \cup {None, Auth}]
BY DEF Shapes, Emit

LEMMA PlaceShape ==
    ASSUME Shapes, NEW s \in Servers, NEW k \in Attempts, NEW p \in Places, Place(s, k, p)
    PROVE  at' \in [Servers -> [Attempts -> Places]]
BY DEF Shapes, Place

LEMMA ConnShape ==
    ASSUME Shapes, NEW s \in Servers, NEW k \in Attempts
    PROVE  /\ Close(s, k) \in [Servers -> [Attempts -> Transports]]
           /\ \A c \in Transports :
                [conn EXCEPT ![s][k] = c] \in [Servers -> [Attempts -> Transports]]
BY DEF Shapes, Close, Transports

LEMMA CloseClientShape ==
    ASSUME Shapes, NEW s \in Servers, CloseClient(s)
    PROVE  /\ client' \in [Servers -> Attempts \cup {None}]
           /\ conn' \in [Servers -> [Attempts -> Transports]]
<1>1. client' \in [Servers -> Attempts \cup {None}]
  BY DEF Shapes, CloseClient
<1>2. conn' \in [Servers -> [Attempts -> Transports]]
  BY ConnShape DEF Shapes, CloseClient
<1>3. QED
  BY <1>1, <1>2

LEMMA ShapesStep ==
    ASSUME Shapes, [Next]_vars
    PROVE  Shapes'
<1> DEFINE Statuses == {"unknown", "pending", "connected", "failed", "needs-auth"}
<1>1. /\ {"connecting", "dropping", "done", "closing"} \subseteq Places
      /\ {"starting", "open", "dead"} \subseteq Transports
  BY DEF Places, Transports
<1>2. CASE ConnectAll
  BY <1>1, <1>2, NoneApart DEF NoneIsNoAttempt, ConnectAll, Shapes, Attempts
<1>3. CASE Shutdown
  BY <1>3 DEF Shutdown, Close, Shapes, Transports
<1>4. ASSUME NEW s \in Servers, Reconnect(s) PROVE Shapes'
  <2>1. attempt[s] + 1 \in Attempts /\ attempt' \in [Servers -> 0 .. MaxAttempts]
    BY <1>4, NoneApart DEF Reconnect, Shapes, Attempts, NoneIsNoAttempt
  <2>2. at' \in [Servers -> [Attempts -> Places]]
    BY <1>1, <1>4, <2>1, PlaceShape, Zenon DEF Reconnect
  <2>3. QED
    BY <1>4, <2>1, <2>2, CloseClientShape DEF Reconnect, Shapes
<1>5. ASSUME NEW s \in Servers, NEW k \in Attempts, Resume(s, k) PROVE Shapes'
  <2>1. CASE ReconnectClosed(s, k)
    <3>1. CASE IsCurrent(s, k)
      <4>1. /\ status' = [status EXCEPT ![s] = "pending"]
            /\ Emit(s, "pending", k) /\ Place(s, k, "connecting")
            /\ client' = [client EXCEPT ![s] = k]
            /\ conn' = [conn EXCEPT ![s][k] = "starting"]
            /\ UNCHANGED <<present, attempt>>
        BY <2>1, <3>1, Zenon DEF ReconnectClosed, StartClient
      <4>2. at' \in [Servers -> [Attempts -> Places]]
        BY <1>1, <4>1, PlaceShape, Zenon
      <4>3. tools' \in [Servers -> Attempts \cup {None, Auth}]
        BY <4>1, EmitShape, Zenon
      <4>4. QED
        BY <1>1, <4>1, <4>2, <4>3, ConnShape DEF Shapes
    <3>2. CASE ~IsCurrent(s, k)
      <4>1. Place(s, k, "done") /\ UNCHANGED <<present, attempt, status, tools, client, conn>>
        BY <2>1, <3>2, Zenon DEF ReconnectClosed
      <4>2. at' \in [Servers -> [Attempts -> Places]]
        BY <1>1, <4>1, PlaceShape, Zenon
      <4>3. QED
        BY <4>1, <4>2 DEF Shapes
    <3>3. QED
      BY <3>1, <3>2
  <2>2. CASE Discovered(s, k)
    <3>1. Place(s, k, "done") /\ UNCHANGED <<present, attempt, client>>
      BY <2>2, Zenon DEF Discovered
    <3>2. at' \in [Servers -> [Attempts -> Places]]
      BY <1>1, <3>1, PlaceShape, Zenon
    <3>3. CASE IsCurrent(s, k)
      <4>1. /\ conn' = [conn EXCEPT ![s][k] = "open"]
            /\ status' = [status EXCEPT ![s] = "connected"]
            /\ Emit(s, "connected", k)
        BY <2>2, <3>3, Zenon DEF Discovered
      <4>2. tools' \in [Servers -> Attempts \cup {None, Auth}]
        BY <4>1, EmitShape, Zenon
      <4>3. QED
        BY <1>1, <3>1, <3>2, <4>1, <4>2, ConnShape DEF Shapes
    <3>4. CASE ~IsCurrent(s, k)
      <4>1. conn' = Close(s, k) /\ UNCHANGED <<status, tools>>
        BY <2>2, <3>4, Zenon DEF Discovered
      <4>2. conn' \in [Servers -> [Attempts -> Transports]]
        BY <4>1, ConnShape, Zenon
      <4>3. QED
        BY <3>1, <3>2, <4>1, <4>2 DEF Shapes
    <3>5. QED
      BY <3>3, <3>4
  <2>3. CASE StartFails(s, k)
    <3>1. CASE IsCurrent(s, k)
      <4>1. /\ \E new \in {"failed", "needs-auth"} : status' = [status EXCEPT ![s] = new]
            /\ CloseClient(s) /\ Place(s, k, "dropping")
            /\ UNCHANGED <<present, attempt, tools>>
        BY <2>3, <3>1, Zenon DEF StartFails
      <4>2. at' \in [Servers -> [Attempts -> Places]]
        BY <1>1, <4>1, PlaceShape, Zenon
      <4>3. /\ client' \in [Servers -> Attempts \cup {None}]
            /\ conn' \in [Servers -> [Attempts -> Transports]]
        BY <4>1, CloseClientShape, Zenon
      <4>4. status' \in [Servers -> Statuses]
        BY <4>1 DEF Shapes
      <4>5. QED
        BY <4>1, <4>2, <4>3, <4>4 DEF Shapes
    <3>2. CASE ~IsCurrent(s, k)
      <4>1. /\ conn' = Close(s, k) /\ Place(s, k, "done")
            /\ UNCHANGED <<present, attempt, tools, status, client>>
        BY <2>3, <3>2, Zenon DEF StartFails
      <4>2. at' \in [Servers -> [Attempts -> Places]]
        BY <1>1, <4>1, PlaceShape, Zenon
      <4>3. conn' \in [Servers -> [Attempts -> Transports]]
        BY <4>1, ConnShape, Zenon
      <4>4. QED
        BY <4>1, <4>2, <4>3 DEF Shapes
    <3>3. QED
      BY <3>1, <3>2
  <2>4. CASE Dropped(s, k)
    <3>1. Place(s, k, "done") /\ UNCHANGED <<present, attempt, status, client, conn>>
      BY <2>4, Zenon DEF Dropped
    <3>2. at' \in [Servers -> [Attempts -> Places]]
      BY <1>1, <3>1, PlaceShape, Zenon
    <3>3. tools' \in [Servers -> Attempts \cup {None, Auth}]
      BY <2>4, EmitShape, Zenon DEF Dropped, Shapes
    <3>4. QED
      BY <3>1, <3>2, <3>3 DEF Shapes
  <2>5. QED
    BY <1>5, <2>1, <2>2, <2>3, <2>4 DEF Resume
<1>6. ASSUME NEW s \in Servers, NEW k \in Attempts, Dies(s, k) PROVE Shapes'
  BY <1>1, <1>6 DEF Dies, Emit, Shapes, IsCurrent, Transports
<1>7. CASE UNCHANGED vars
  BY <1>7 DEF vars, Shapes
<1>8. QED
  BY <1>2, <1>3, <1>4, <1>5, <1>6, <1>7 DEF Next

LEMMA LeakInvStep ==
    ASSUME LeakInv, [Next]_vars
    PROVE  LeakInv'
<1> DEFINE Part(s, k) == Undrawn(s, k) /\ Started(s, k) /\ Owns(s, k) /\ Held(s, k)
<1> USE NoneApart DEF NoneIsNoAttempt, LeakInv, Shapes, Undrawn, Started, Owns, Held, IsCurrent,
                      Attempts, Transports, Places
<1>1. Shapes'
  BY ShapesStep
<1>2. CASE ConnectAll
  BY <1>1, <1>2 DEF ConnectAll
<1>3. CASE Shutdown
  BY <1>1, <1>3 DEF Shutdown, Close
<1>4. ASSUME NEW s \in Servers, Reconnect(s) PROVE LeakInv'
  BY <1>1, <1>4 DEF Reconnect, CloseClient, Close, Place
<1>5. ASSUME NEW s \in Servers, NEW k \in Attempts, Resume(s, k) PROVE LeakInv'
  <2>1. CASE ReconnectClosed(s, k)
    <3>1. CASE IsCurrent(s, k)
      <4>1. /\ client' = [client EXCEPT ![s] = k]
            /\ conn' = [conn EXCEPT ![s][k] = "starting"]
            /\ at' = [at EXCEPT ![s][k] = "connecting"]
            /\ at[s][k] = "closing" /\ UNCHANGED <<present, attempt>>
        BY <2>1, <3>1, Zenon DEF ReconnectClosed, StartClient, Place
      <4>2. QED
        BY <1>1, <3>1, <4>1
    <3>2. CASE ~IsCurrent(s, k)
      <4>1. /\ at' = [at EXCEPT ![s][k] = "done"]
            /\ at[s][k] = "closing" /\ UNCHANGED <<present, attempt, client, conn>>
        BY <2>1, <3>2, Zenon DEF ReconnectClosed, StartClient, Place
      <4>2. QED
        BY <1>1, <3>2, <4>1
    <3>3. QED
      BY <3>1, <3>2
  <2>2. CASE Discovered(s, k)
    BY <1>1, <1>5, <2>2 DEF Discovered, Close, Place
  <2>3. CASE StartFails(s, k)
    <3>1. CASE IsCurrent(s, k)
      <4>1. /\ client' = [client EXCEPT ![s] = None]
            /\ conn' = IF client[s] = None THEN conn ELSE Close(s, client[s])
            /\ at' = [at EXCEPT ![s][k] = "dropping"]
            /\ at[s][k] = "connecting" /\ UNCHANGED <<present, attempt>>
        BY <2>3, <3>1, Zenon DEF StartFails, CloseClient, Place
      <4>2. QED
        BY <1>1, <3>1, <4>1 DEF Close
    <3>2. CASE ~IsCurrent(s, k)
      <4>1. /\ conn' = Close(s, k)
            /\ at' = [at EXCEPT ![s][k] = "done"]
            /\ at[s][k] = "connecting" /\ UNCHANGED <<present, attempt, client>>
        BY <2>3, <3>2, Zenon DEF StartFails, CloseClient, Place
      <4>2. QED
        BY <1>1, <3>2, <4>1 DEF Close
    <3>3. QED
      BY <3>1, <3>2
  <2>4. CASE Dropped(s, k)
    BY <1>1, <1>5, <2>4 DEF Dropped, Place
  <2>5. QED
    BY <1>5, <2>1, <2>2, <2>3, <2>4 DEF Resume
<1>6. ASSUME NEW s \in Servers, NEW k \in Attempts, Dies(s, k) PROVE LeakInv'
  BY <1>1, <1>6 DEF Dies
<1>7. CASE UNCHANGED vars
  BY <1>1, <1>7 DEF vars
<1>8. QED
  BY <1>2, <1>3, <1>4, <1>5, <1>6, <1>7 DEF Next

\* What the attempt that is current has left when it ends: its tools on its
\* own open client, the login tool, or no tools.
Ended(s) ==
  \/ /\ status[s] = "connected"
     /\ tools[s] = attempt[s] /\ client[s] = attempt[s]
     /\ conn[s][attempt[s]] = "open"
  \/ status[s] = "needs-auth" /\ tools[s] = Auth
  \/ status[s] = "failed" /\ tools[s] = None

\* An entry of the map has an attempt that is current: it is under way, or has
\* failed and will report it, or has ended.
Current(s) ==
  s \in present => /\ attempt[s] \in Attempts
                   /\ at[s][attempt[s]] # "none"
                   /\ at[s][attempt[s]] = "dropping" => status[s] \in {"failed", "needs-auth"}
                   /\ at[s][attempt[s]] = "done" => Ended(s)

\* ToolsMatchServer speaks of the moments when nothing is under way; this says
\* what each step of the current attempt, and no other step, does to it.
ServerInv == LeakInv /\ \A s \in Servers : Current(s)

LEMMA InitServerInv == Init => ServerInv
BY InitLeakInv DEF ServerInv, Current, Init

LEMMA ServerInvStep ==
    ASSUME ServerInv, [Next]_vars
    PROVE  \A s \in Servers : Current(s)'
<1> USE NoneApart DEF NoneIsNoAttempt
<1>1. CASE ConnectAll
  BY <1>1 DEF ConnectAll, ServerInv, LeakInv, Shapes, Current, Attempts
<1>2. CASE Shutdown
  BY <1>2 DEF Shutdown, Current
<1>3. ASSUME NEW r \in Servers, Reconnect(r), NEW s \in Servers PROVE Current(s)'
  BY <1>3 DEF Reconnect, CloseClient, Close, Place, ServerInv, LeakInv, Shapes, Current, Ended,
              Attempts
<1>4. ASSUME NEW r \in Servers, NEW k \in Attempts, Resume(r, k), NEW s \in Servers
      PROVE  Current(s)'
  <2>1. CASE ReconnectClosed(r, k)
    <3>1. CASE IsCurrent(r, k)
      <4>1. /\ status' = [status EXCEPT ![r] = "pending"]
            /\ tools' = [tools EXCEPT ![r] = None]
            /\ client' = [client EXCEPT ![r] = k]
            /\ conn' = [conn EXCEPT ![r][k] = "starting"]
            /\ at' = [at EXCEPT ![r][k] = "connecting"]
            /\ UNCHANGED <<present, attempt>>
        BY <2>1, <3>1 DEF ReconnectClosed, StartClient, Place, Emit
      <4>2. CASE r = s
        BY <3>1, <4>1, <4>2 DEF IsCurrent, ServerInv, LeakInv, Shapes, Current, Ended
      <4>3. CASE r # s
        BY <4>1, <4>3 DEF ServerInv, LeakInv, Shapes, Current, Ended
      <4>4. QED
        BY <4>2, <4>3
    <3>2. CASE ~IsCurrent(r, k)
      BY <2>1, <3>2 DEF ReconnectClosed, Place, IsCurrent, ServerInv, LeakInv, Shapes, Current,
                        Ended
    <3>3. QED
      BY <3>1, <3>2
  <2>2. CASE Discovered(r, k)
    <3>1. CASE IsCurrent(r, k)
      BY <2>2, <3>1 DEF Discovered, Place, Emit, IsCurrent, ServerInv, LeakInv, Shapes, Owns,
                        Current, Ended
    <3>2. CASE ~IsCurrent(r, k)
      BY <2>2, <3>2 DEF Discovered, Place, Close, IsCurrent, ServerInv, LeakInv, Shapes, Current,
                        Ended
    <3>3. QED
      BY <3>1, <3>2
  <2>3. CASE StartFails(r, k)
    <3>1. CASE IsCurrent(r, k)
      BY <2>3, <3>1 DEF StartFails, CloseClient, Close, Place, IsCurrent, ServerInv, LeakInv,
                        Shapes, Current, Ended
    <3>2. CASE ~IsCurrent(r, k)
      BY <2>3, <3>2 DEF StartFails, Place, Close, IsCurrent, ServerInv, LeakInv, Shapes, Current,
                        Ended
    <3>3. QED
      BY <3>1, <3>2
  <2>4. CASE Dropped(r, k)
    BY <2>4 DEF Dropped, Place, Emit, IsCurrent, ServerInv, LeakInv, Shapes, Current, Ended
  <2>5. QED
    BY <1>4, <2>1, <2>2, <2>3, <2>4 DEF Resume
<1>5. ASSUME NEW r \in Servers, NEW k \in Attempts, Dies(r, k), NEW s \in Servers
      PROVE  Current(s)'
  BY <1>5 DEF Dies, Emit, IsCurrent, ServerInv, LeakInv, Shapes, Held, Current, Ended
<1>6. CASE UNCHANGED vars
  BY <1>6 DEF vars, ServerInv, Current, Ended
<1>7. QED
  BY <1>1, <1>2, <1>3, <1>4, <1>5, <1>6 DEF Next

LEMMA LeakInvHolds == Spec => []LeakInv
<1>1. LeakInv /\ [Next]_vars => LeakInv'
  BY LeakInvStep
<1>2. QED
  BY <1>1, InitLeakInv, PTL DEF Spec

LEMMA ServerInvHolds == Spec => []ServerInv
<1>1. ServerInv /\ [Next]_vars => ServerInv'
  BY ServerInvStep, LeakInvStep DEF ServerInv
<1>2. QED
  BY <1>1, InitServerInv, PTL DEF Spec

-----------------------------------------------------------------------------
(* The type invariant holds for any number of servers and attempts.         *)
THEOREM TypeCorrect == Spec => []TypeOK
<1>1. LeakInv => TypeOK
  <2> SUFFICES ASSUME Shapes PROVE TypeOK
    BY DEF LeakInv
  <2>1. present \subseteq Servers
    BY DEF Shapes
  <2>2. ASSUME NEW s \in Servers
        PROVE  /\ attempt[s] \in 0 .. MaxAttempts
               /\ status[s] \in {"unknown", "pending", "connected", "failed", "needs-auth"}
               /\ client[s] \in Attempts \cup {None}
               /\ tools[s] \in Attempts \cup {None, Auth}
    BY DEF Shapes
  <2>3. ASSUME NEW s \in Servers, NEW k \in Attempts
        PROVE  conn[s][k] \in Transports /\ at[s][k] \in Places
    BY DEF Shapes
  <2>4. QED
    BY <2>1, <2>2, <2>3, Zenon DEF TypeOK
<1>2. QED
  BY <1>1, LeakInvHolds, PTL

(* No transport is left behind, whatever reconnects, shutdowns and losses   *)
(* overtake whatever attempts (connection-manager.ts, isCurrent).           *)
THEOREM NoTransportLeaksCorrect == Spec => []NoTransportLeaks
<1>1. LeakInv => NoTransportLeaks
  BY DEF LeakInv, NoTransportLeaks, Started, Held
<1>2. QED
  BY <1>1, LeakInvHolds, PTL

(* When nothing is under way, the model is offered the tools of a server     *)
(* exactly if its last attempt connected and its transport is open           *)
(* (connection-manager.ts, emit and watchForUnexpectedClose).                *)
THEOREM ToolsMatchServerCorrect == Spec => []ToolsMatchServer
<1>1. ServerInv => ToolsMatchServer
  <2> SUFFICES ASSUME ServerInv, NEW s \in Servers, s \in present, ~Running(s)
               PROVE  /\ tools[s] \in Attempts
                           => /\ tools[s] = attempt[s] /\ client[s] = tools[s]
                              /\ conn[s][tools[s]] = "open"
                      /\ (status[s] = "connected") <=> (tools[s] \in Attempts)
                      /\ (status[s] = "needs-auth") <=> (tools[s] = Auth)
    BY DEF ToolsMatchServer, ServerInv, LeakInv, Shapes
  <2>1. attempt[s] \in Attempts /\ Current(s)
    BY DEF ServerInv, Current
  <2>2. Ended(s)
    BY <2>1 DEF Running, Current
  <2>3. None \notin Attempts /\ Auth \notin Attempts /\ None # Auth
    BY McpBounds DEF Attempts
  <2>4. QED
    BY <2>1, <2>2, <2>3 DEF Ended
<1>2. QED
  BY <1>1, ServerInvHolds, PTL
=============================================================================
