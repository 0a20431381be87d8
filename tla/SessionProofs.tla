----------------------------- MODULE SessionProofs -----------------------------
(***************************************************************************)
(* Safety of the session, for every set of threads that fail to start and  *)
(* of sockets whose server refuses or leaves.  The argument: a thread that *)
(* is not over was created in the life of the rings, and cleanup_threads,  *)
(* which goes through all threads, frees them only when each is over; the  *)
(* control socket stays alive while its thread handles messages, and remux *)
(* uses it only after a message.                                           *)
(***************************************************************************)
EXTENDS Session, TLAPS

\* Where main goes through which names.
TodoOK ==
  /\ main \in {"look", "shutdown"} => todo \in Seq(Sockets)
  /\ main \in {"create", "join"} => todo \in Seq(Threads)
  /\ main \in {"create", "shutdown"} => todo # << >>

\* The threads still to be created are all different and not there yet.
Uncreated ==
  /\ main \in {"select", "dvb", "connect"} => \A t \in Threads : thread[t] = "none"
  /\ main = "create" =>
       /\ \A k \in DOMAIN todo : thread[todo[k]] = "none"
       /\ \A j, k \in DOMAIN todo : todo[j] = todo[k] => j = k

\* A thread that runs has its rings; those not to be joined any more are over.
RingsReady ==
  /\ main = "select" => rings = "none"
  /\ main \notin {"select", "returned"} => rings = "ready"
  /\ \A t \in Threads : ~ Over(t) => rings = "ready"
Joined ==
  main = "join" => \A t \in Threads : Over(t) \/ \E k \in DOMAIN todo : todo[k] = t

\* What a step of any thread preserves, whatever it does to the sockets.
Frame == TodoOK /\ Uncreated /\ RingsReady /\ Joined

Terminated ==
  /\ main \in {"look", "shutdown", "join"} => terminate
  /\ terminate => refused \/ main \in {"look", "shutdown", "join", "returned"}
Untouched == main = "select" => devices = "closed" /\ zapit = "playing"

\* The control socket lives while its thread can handle a message, and that is
\* where the thread is once a message was handled, up to the end.
ControlSocket ==
  /\ thread["control"] \in {"open", "loop", "get", "still"} => sock["control"].ptr = "live"
  /\ heard /\ ~ terminate => thread["control"] \in {"loop", "get", "still"}
  /\ thread["remux"] = "request" => heard \/ "playstate" \in stray

\* The other two connect with an object that is there.
OpenSockets ==
  /\ thread["receiver"] = "open" => sock["stream"].ptr = "live"
  /\ thread["lcd"] = "open" => sock["lcd"].ptr = "live"

\* The inductive invariant.
IInv ==
  /\ TypeOK /\ Frame /\ Terminated /\ Untouched /\ ControlSocket /\ OpenSockets
  /\ RingsOutliveThreads /\ LeavesClean /\ SocketsOutliveUsers

--------------------------------------------------------------------------------
\* A thread that is there and not over takes a step: the frame stays, and so does
\* what depends on main alone.
LEMMA StepKeepsFrame ==
  ASSUME IInv, NEW t \in Threads, NEW a, NEW b \in ThreadStates,
         a \notin {"none", "failed", "ended"}, b # "none", Step(t, a, b),
         UNCHANGED <<main, todo, environment>>,
         refused => refused', terminate => terminate',
         terminate' => terminate \/ refused'
  PROVE  /\ Frame' /\ Terminated' /\ Untouched' /\ LeavesClean'
         /\ thread' \in [Threads -> ThreadStates]
         /\ thread'[t] = b
         /\ \A u \in Threads : u # t => thread'[u] = thread[u]
<1>1. thread \in [Threads -> ThreadStates]
  BY DEF IInv, TypeOK
<1>2. thread' = [thread EXCEPT ![t] = b] /\ thread[t] = a
  BY DEF Step
<1>3. \A u \in Threads : u # t => thread'[u] = thread[u]
  BY <1>1, <1>2
<1>4. thread'[t] = b
  BY <1>1, <1>2
<1>5. \A u \in Threads : ~ (Over(u)') => ~ Over(u)
  BY <1>2, <1>3 DEF Over
<1>6. \A u \in Threads : Over(u) => Over(u)'
  BY <1>2, <1>3 DEF Over
<1>7. TodoOK'
  BY DEF IInv, Frame, TodoOK
<1>8. Uncreated'
  <2>1. main' \notin {"select", "dvb", "connect"}
    BY <1>2 DEF IInv, Frame, Uncreated
  <2>2. ASSUME main = "create"
        PROVE  /\ \A k \in DOMAIN todo : thread'[todo[k]] = "none"
               /\ \A j, k \in DOMAIN todo : todo[j] = todo[k] => j = k
    <3>1. \A k \in DOMAIN todo : todo[k] \in Threads
      BY <2>2 DEF IInv, Frame, TodoOK
    <3>2. \A k \in DOMAIN todo : thread[todo[k]] = "none"
      BY <2>2 DEF IInv, Frame, Uncreated
    <3>3. \A k \in DOMAIN todo : todo[k] # t
      BY <3>2, <1>2
    <3> QED
      BY <3>1, <3>2, <3>3, <1>3, <2>2 DEF IInv, Frame, Uncreated
  <2> QED
    BY <2>1, <2>2 DEF Uncreated
<1>9. RingsReady'
  BY <1>5 DEF IInv, Frame, RingsReady, environment
<1>10. Joined'
  BY <1>6 DEF IInv, Frame, Joined
<1>11. thread' \in [Threads -> ThreadStates]
  BY <1>1, <1>2
<1>12. Terminated' /\ Untouched'
  BY DEF IInv, Terminated, Untouched, environment
<1>13. LeavesClean'
  BY <1>6 DEF IInv, LeavesClean, environment
<1> QED
  BY <1>3, <1>4, <1>7, <1>8, <1>9, <1>10, <1>11, <1>12, <1>13 DEF Frame

\* A running thread finds the rings there, whatever else it misses.
LEMMA TouchKeepsRings ==
  ASSUME IInv, NEW t \in Threads, ~ Over(t),
         NEW kinds \in SUBSET {"ctx", "playstate", "rings", "socket"}, Touch(kinds)
  PROVE  /\ RingsOutliveThreads'
         /\ stray \subseteq stray' /\ stray' \subseteq {"ctx", "playstate", "rings", "socket"}
         /\ "socket" \notin kinds => ("socket" \in stray' => "socket" \in stray)
         /\ "playstate" \in kinds => started \/ "playstate" \in stray'
<1>1. rings = "ready"
  BY DEF IInv, Frame, RingsReady
<1>2. stray' = stray \cup {k \in kinds : Absent[k]}
  BY DEF Touch
<1>3. Absent["rings"] = FALSE
  BY <1>1 DEF Absent
<1>4. Absent["playstate"] = (~ started)
  BY DEF Absent
<1> QED
  BY <1>2, <1>3, <1>4 DEF IInv, TypeOK, RingsOutliveThreads

\* What is left to show of a thread's step, action by action.
LEMMA ThreadStep ==
  ASSUME IInv, NEW t \in Threads, NEW a, NEW b \in ThreadStates,
         a \notin {"none", "failed", "ended"}, b # "none", Step(t, a, b),
         UNCHANGED <<main, todo, environment, lcdInfo>>,
         terminate' \in BOOLEAN, refused' \in BOOLEAN,
         started' \in BOOLEAN, heard' \in BOOLEAN,
         refused => refused', terminate => terminate',
         terminate' => terminate \/ refused',
         sock' \in [Sockets -> SocketObjects],
         \A s \in Sockets : sock'[s].open => sock'[s].ptr = "live",
         stray' \subseteq {"ctx", "playstate", "rings", "socket"},
         RingsOutliveThreads', ControlSocket', OpenSockets', SocketsOutliveUsers'
  PROVE  IInv'
<1>1. /\ Frame' /\ Terminated' /\ Untouched' /\ LeavesClean'
      /\ thread' \in [Threads -> ThreadStates]
  BY StepKeepsFrame, Zenon
<1>2. TypeOK'
  BY <1>1 DEF IInv, TypeOK, environment
<1> QED
  BY <1>1, <1>2 DEF IInv

\* A step of the receiver, the player or the LCD thread leaves the control socket
\* and its users alone.
LEMMA OthersKeepControl ==
  ASSUME IInv, NEW t \in {"receiver", "player", "lcd"},
         NEW a, NEW b \in ThreadStates, Step(t, a, b),
         UNCHANGED heard, terminate => terminate',
         sock'["control"] = sock["control"], stray \subseteq stray',
         "socket" \in stray' => "socket" \in stray
  PROVE  ControlSocket' /\ SocketsOutliveUsers'
<1>1. thread'["control"] = thread["control"] /\ thread'["remux"] = thread["remux"]
  BY DEF IInv, TypeOK, Step, Threads
<1>2. ControlSocket'
  BY <1>1 DEF IInv, ControlSocket
<1>3. SocketsOutliveUsers'
  BY DEF IInv, SocketsOutliveUsers
<1> QED
  BY <1>2, <1>3

--------------------------------------------------------------------------------
\* The steps of the threads, one lemma each for what they share.
LEMMA NewObjects ==
  /\ NoSocket \in SocketObjects /\ ~ NoSocket.open
  /\ NewSocket \in SocketObjects /\ ~ NewSocket.open /\ NewSocket.ptr = "live"
  /\ [NoSocket EXCEPT !.ptr = "dangling"] \in SocketObjects
  /\ ~ [NoSocket EXCEPT !.ptr = "dangling"].open
  BY DEF NoSocket, NewSocket, SocketObjects

\* A socket replaced by an object of the right kind.
LEMMA SockType ==
  ASSUME TypeOK, NEW s \in Sockets, NEW o \in SocketObjects, o.open => o.ptr = "live",
         sock' = [sock EXCEPT ![s] = o]
  PROVE  /\ sock' \in [Sockets -> SocketObjects]
         /\ \A u \in Sockets : sock'[u].open => sock'[u].ptr = "live"
         /\ sock'[s] = o
         /\ \A u \in Sockets : u # s => sock'[u] = sock[u]
  BY DEF TypeOK

\* What Open leaves of the sockets has its type.
LEMMA OpenedType ==
  ASSUME TypeOK, NEW s \in Sockets, NEW ok \in BOOLEAN, sock[s].ptr = "live",
         sock' = Opened(s, ok)
  PROVE  /\ sock' \in [Sockets -> SocketObjects]
         /\ \A u \in Sockets : sock'[u].open => sock'[u].ptr = "live"
         /\ sock'[s].ptr = "live"
         /\ \A u \in Sockets : u # s => sock'[u] = sock[u]
<1> DEFINE o == [sock[s] EXCEPT !.open = ok, !.term = FALSE, !.shut = FALSE, !.eof = FALSE]
<1>1. sock[s] \in SocketObjects
  BY DEF TypeOK
<1>2. o \in SocketObjects /\ o.ptr = "live"
  BY <1>1 DEF SocketObjects
<1>3. sock' = [sock EXCEPT ![s] = o]
  BY DEF Opened
<1> HIDE DEF o
<1> QED
  BY <1>2, <1>3, SockType

\* The control thread and remux leave the sockets of the others alone.
LEMMA OpenSocketsKept ==
  ASSUME IInv, NEW t \in {"control", "remux", "player"},
         NEW a, NEW b \in ThreadStates, Step(t, a, b),
         \A s \in {"stream", "lcd"} : sock'[s] = sock[s]
  PROVE  OpenSockets'
<1>1. thread'["receiver"] = thread["receiver"] /\ thread'["lcd"] = thread["lcd"]
  BY DEF IInv, TypeOK, Step, Threads
<1> QED
  BY <1>1 DEF IInv, OpenSockets

\* What a step of the control thread has to respect.
LEMMA ControlStep ==
  ASSUME IInv, NEW a, NEW b \in ThreadStates,
         a \notin {"none", "failed", "ended"}, b # "none", Step("control", a, b),
         UNCHANGED <<main, todo, environment, lcdInfo, terminate, refused>>,
         started' \in BOOLEAN, heard' \in BOOLEAN, heard => heard',
         sock' \in [Sockets -> SocketObjects],
         \A s \in Sockets : sock'[s].open => sock'[s].ptr = "live",
         \A s \in {"stream", "lcd"} : sock'[s] = sock[s],
         stray \subseteq stray', stray' \subseteq {"ctx", "playstate", "rings", "socket"},
         "socket" \in stray' => "socket" \in stray, RingsOutliveThreads',
         b \in {"open", "loop", "get", "still"} => sock'["control"].ptr = "live",
         heard' /\ ~ terminate => b \in {"loop", "get", "still"}
  PROVE  IInv'
<1>1. "control" \in Threads
  BY DEF Threads
<1>2. thread'["control"] = b /\ thread'["remux"] = thread["remux"]
  BY DEF IInv, TypeOK, Step, Threads
<1>3. ControlSocket'
  BY <1>2 DEF IInv, ControlSocket
<1>4. SocketsOutliveUsers'
  BY DEF IInv, SocketsOutliveUsers
<1>5. OpenSockets'
  BY OpenSocketsKept
<1>6. terminate' \in BOOLEAN /\ refused' \in BOOLEAN
  BY Zenon DEF IInv, TypeOK
<1> QED
  BY <1>1, <1>3, <1>4, <1>5, <1>6, ThreadStep

\* What a step of the receiver, the player or the LCD thread has to respect.
LEMMA OtherStep ==
  ASSUME IInv, NEW t \in {"receiver", "player", "lcd"},
         NEW a, NEW b \in ThreadStates,
         a \notin {"none", "failed", "ended"}, b # "none", Step(t, a, b),
         UNCHANGED <<main, todo, environment, lcdInfo, heard>>,
         terminate' \in BOOLEAN, refused' \in BOOLEAN, started' \in BOOLEAN,
         refused => refused', terminate => terminate',
         terminate' => terminate \/ refused',
         sock' \in [Sockets -> SocketObjects],
         \A s \in Sockets : sock'[s].open => sock'[s].ptr = "live",
         sock'["control"] = sock["control"],
         stray \subseteq stray', stray' \subseteq {"ctx", "playstate", "rings", "socket"},
         "socket" \in stray' => "socket" \in stray, RingsOutliveThreads',
         OpenSockets'
  PROVE  IInv'
<1>1. t \in Threads
  BY DEF Threads
<1>2. ControlSocket' /\ SocketsOutliveUsers'
  BY OthersKeepControl
<1>3. heard' \in BOOLEAN
  BY Zenon DEF IInv, TypeOK
<1> QED
  BY <1>1, <1>2, <1>3, ThreadStep

\* Facts about the present state that every step needs.
LEMMA Present ==
  ASSUME IInv
  PROVE  /\ TypeOK /\ RingsOutliveThreads
         /\ terminate \in BOOLEAN /\ refused \in BOOLEAN
         /\ started \in BOOLEAN /\ heard \in BOOLEAN /\ lcdInfo \in BOOLEAN
         /\ sock \in [Sockets -> SocketObjects]
         /\ \A s \in Sockets : sock[s].open => sock[s].ptr = "live"
         /\ stray \subseteq {"ctx", "playstate", "rings", "socket"}
  BY Zenon DEF IInv, TypeOK

--------------------------------------------------------------------------------
\* The steps of the control thread.
LEMMA ControlKeepsIInv ==
  ASSUME IInv, Control PROVE IInv'
<1> USE Present DEF ThreadStates, Sockets, OwnerKeeps, ThreadKeeps
<1>0. thread["control"] \in {"open", "loop", "get", "still"} => sock["control"].ptr = "live"
  BY DEF IInv, ControlSocket
<1>1. CASE SocketCreate("control", "control", "open")
  <2>1. Step("control", "new", "open") /\ sock' = [sock EXCEPT !["control"] = NewSocket]
    BY <1>1 DEF SocketCreate
  <2>2. /\ sock' \in [Sockets -> SocketObjects]
        /\ \A u \in Sockets : sock'[u].open => sock'[u].ptr = "live"
        /\ sock'["control"].ptr = "live"
        /\ \A u \in Sockets : u # "control" => sock'[u] = sock[u]
    BY <2>1, NewObjects, SockType
  <2>3. heard => terminate
    BY <2>1 DEF IInv, ControlSocket, Step
  <2>4. UNCHANGED <<main, todo, environment, lcdInfo, terminate, refused, started, heard, stray>>
    BY <1>1 DEF SocketCreate
  <2>5. RingsOutliveThreads'
    BY <2>4 DEF RingsOutliveThreads
  <2> QED
    BY <2>1, <2>2, <2>3, <2>4, <2>5, ControlStep
<1>2. CASE ControlOpen
  <2>1. PICK ok \in {TRUE, FALSE} :
          /\ Step("control", "open", IF ok THEN "loop" ELSE "close")
          /\ sock' = Opened("control", ok)
    BY <1>2 DEF ControlOpen, Connects
  <2>2. /\ sock' \in [Sockets -> SocketObjects]
        /\ \A u \in Sockets : sock'[u].open => sock'[u].ptr = "live"
        /\ sock'["control"].ptr = "live"
        /\ \A u \in Sockets : u # "control" => sock'[u] = sock[u]
    BY <2>1, <1>0, OpenedType DEF Step
  <2>3. heard => terminate
    BY <2>1 DEF IInv, ControlSocket, Step
  <2>4. UNCHANGED <<main, todo, environment, lcdInfo, terminate, refused, started, heard, stray>>
    BY <1>2 DEF ControlOpen
  <2>5. RingsOutliveThreads'
    BY <2>4 DEF RingsOutliveThreads
  <2> QED
    BY <2>1, <2>2, <2>3, <2>4, <2>5, ControlStep
<1>3. CASE ControlLook \/ LoopEnds("control", "close")
  <2>1. PICK b \in {"get", "close"} : Step("control", "loop", b) /\ (b = "close" => terminate)
    BY <1>3 DEF ControlLook, LoopEnds
  <2>2. UNCHANGED <<main, todo, environment, lcdInfo, terminate, refused, started, heard, stray, sock>>
    BY <1>3 DEF ControlLook, LoopEnds
  <2>3. RingsOutliveThreads'
    BY <2>2 DEF RingsOutliveThreads
  <2>4. sock["control"].ptr = "live"
    BY <2>1, <1>0 DEF Step
  <2> QED
    BY <2>1, <2>2, <2>3, <2>4, ControlStep
<1>4. CASE ControlGet
  <2>1. PICK b \in {"loop", "still"} : Step("control", "get", b)
    BY <1>4 DEF ControlGet
  <2>2. UNCHANGED <<main, todo, environment, lcdInfo, terminate, refused, sock>>
    BY <1>4 DEF ControlGet
  <2>3. UNCHANGED <<started, heard>> \/ (started' = TRUE /\ heard' = TRUE)
    BY <1>4 DEF ControlGet
  <2>8. started' \in BOOLEAN /\ heard' \in BOOLEAN /\ (heard => heard')
    <3>1. started \in BOOLEAN /\ heard \in BOOLEAN
      BY Present
    <3> QED
      BY ONLY <2>3, <3>1, Zenon
  <2>4. UNCHANGED stray \/ Touch({"ctx"})
    BY <1>4 DEF ControlGet
  <2>5. ~ Over("control") /\ "control" \in Threads
    BY <2>1 DEF Step, Over, Threads
  <2>6. /\ RingsOutliveThreads' /\ stray \subseteq stray'
        /\ stray' \subseteq {"ctx", "playstate", "rings", "socket"}
        /\ "socket" \in stray' => "socket" \in stray
    <3>1. CASE UNCHANGED stray
      BY <3>1 DEF RingsOutliveThreads
    <3>2. CASE Touch({"ctx"})
      BY <3>2, <2>5, TouchKeepsRings
    <3> QED
      BY <3>1, <3>2, <2>4
  <2>7. sock["control"].ptr = "live"
    BY <2>1, <1>0 DEF Step
  <2> QED
    BY <2>1, <2>2, <2>6, <2>7, <2>8, ControlStep
<1>5. CASE ControlStill
  <2>1. PICK b \in {"loop", "still"} : Step("control", "still", b)
    <3>1. CASE UNCHANGED thread
      <4>1. thread' = [thread EXCEPT !["control"] = "still"]
        BY <3>1, <1>5 DEF ControlStill, TypeOK
      <4> QED
        BY <4>1, <1>5 DEF ControlStill, Step
    <3>2. CASE thread' = [thread EXCEPT !["control"] = "loop"]
      BY <3>2, <1>5 DEF ControlStill, Step
    <3> QED
      BY <3>1, <3>2, <1>5 DEF ControlStill
  <2>2. UNCHANGED <<main, todo, environment, lcdInfo, terminate, refused, sock, started, heard>>
    BY <1>5 DEF ControlStill
  <2>3. Touch({"ctx", "playstate", "rings"})
    BY <1>5 DEF ControlStill
  <2>4. ~ Over("control") /\ "control" \in Threads
    BY <2>1 DEF Step, Over, Threads
  <2>5. /\ RingsOutliveThreads' /\ stray \subseteq stray'
        /\ stray' \subseteq {"ctx", "playstate", "rings", "socket"}
        /\ "socket" \in stray' => "socket" \in stray
    BY <2>3, <2>4, TouchKeepsRings
  <2>6. sock["control"].ptr = "live"
    BY <2>1, <1>0 DEF Step
  <2> QED
    BY <2>1, <2>2, <2>5, <2>6, ControlStep
<1>6. CASE SocketDelete("control", "control", "close", "clear")
  <2>1. /\ Step("control", "close", "clear")
        /\ sock' = [sock EXCEPT !["control"] = [NoSocket EXCEPT !.ptr = "dangling"]]
    BY <1>6 DEF SocketDelete
  <2>2. /\ sock' \in [Sockets -> SocketObjects]
        /\ \A u \in Sockets : sock'[u].open => sock'[u].ptr = "live"
        /\ \A u \in Sockets : u # "control" => sock'[u] = sock[u]
    BY <2>1, NewObjects, SockType
  <2>3. heard => terminate
    BY <2>1 DEF IInv, ControlSocket, Step
  <2>4. UNCHANGED <<main, todo, environment, lcdInfo, terminate, refused, started, heard, stray>>
    BY <1>6 DEF SocketDelete
  <2>5. RingsOutliveThreads'
    BY <2>4 DEF RingsOutliveThreads
  <2> QED
    BY <2>1, <2>2, <2>3, <2>4, <2>5, ControlStep
<1>7. CASE SocketClear("control", "control", "clear", "ended")
  <2>1. Step("control", "clear", "ended") /\ sock' = [sock EXCEPT !["control"] = NoSocket]
    BY <1>7 DEF SocketClear
  <2>2. /\ sock' \in [Sockets -> SocketObjects]
        /\ \A u \in Sockets : sock'[u].open => sock'[u].ptr = "live"
        /\ \A u \in Sockets : u # "control" => sock'[u] = sock[u]
    BY <2>1, NewObjects, SockType
  <2>3. heard => terminate
    BY <2>1 DEF IInv, ControlSocket, Step
  <2>4. UNCHANGED <<main, todo, environment, lcdInfo, terminate, refused, started, heard, stray>>
    BY <1>7 DEF SocketClear
  <2>5. RingsOutliveThreads'
    BY <2>4 DEF RingsOutliveThreads
  <2> QED
    BY <2>1, <2>2, <2>3, <2>4, <2>5, ControlStep
<1> QED
  BY <1>1, <1>2, <1>3, <1>4, <1>5, <1>6, <1>7 DEF Control

\* The steps of the receiver.
LEMMA ReceiverKeepsIInv ==
  ASSUME IInv, Receiver PROVE IInv'
<1> USE Present DEF ThreadStates, Sockets, OwnerKeeps, ThreadKeeps
<1>0. /\ thread["receiver"] = "open" => sock["stream"].ptr = "live"
      /\ thread["lcd"] = "open" => sock["lcd"].ptr = "live"
  BY DEF IInv, OpenSockets
<1>1. ASSUME NEW a, NEW b \in ThreadStates, Step("receiver", a, b),
             \A u \in Sockets : u # "stream" => sock'[u] = sock[u],
             b = "open" => sock'["stream"].ptr = "live"
      PROVE  OpenSockets'
  <2>1. thread'["lcd"] = thread["lcd"] /\ thread'["receiver"] = b
    BY <1>1 DEF TypeOK, Step, Threads
  <2> QED
    BY <2>1, <1>0, <1>1 DEF OpenSockets
<1>2. CASE SocketCreate("receiver", "stream", "open")
  <2>1. Step("receiver", "new", "open") /\ sock' = [sock EXCEPT !["stream"] = NewSocket]
    BY <1>2 DEF SocketCreate
  <2>2. /\ sock' \in [Sockets -> SocketObjects]
        /\ \A u \in Sockets : sock'[u].open => sock'[u].ptr = "live"
        /\ sock'["stream"].ptr = "live"
        /\ \A u \in Sockets : u # "stream" => sock'[u] = sock[u]
    BY <2>1, NewObjects, SockType
  <2>3. UNCHANGED <<main, todo, environment, lcdInfo, terminate, refused, started, heard, stray>>
    BY <1>2 DEF SocketCreate
  <2>4. RingsOutliveThreads' /\ OpenSockets'
    BY <2>1, <2>2, <2>3, <1>1 DEF RingsOutliveThreads
  <2> QED
    BY <2>1, <2>2, <2>3, <2>4, OtherStep
<1>3. CASE ReceiverOpen
  <2>1. PICK ok \in {TRUE, FALSE} :
          /\ sock' = Opened("stream", ok)
          /\ terminate' = (terminate \/ ~ ok) /\ refused' = (refused \/ ~ ok)
    BY <1>3 DEF ReceiverOpen, Connects
  <2>2. Step("receiver", "open", "loop")
    BY <1>3 DEF ReceiverOpen
  <2>3. /\ sock' \in [Sockets -> SocketObjects]
        /\ \A u \in Sockets : sock'[u].open => sock'[u].ptr = "live"
        /\ \A u \in Sockets : u # "stream" => sock'[u] = sock[u]
    BY <2>1, <2>2, <1>0, OpenedType DEF Step
  <2>4. UNCHANGED <<main, todo, environment, lcdInfo, started, heard, stray>>
    BY <1>3 DEF ReceiverOpen
  <2>5. UNCHANGED <<terminate, refused>> \/ (terminate' = TRUE /\ refused' = TRUE)
    BY <2>1
  <2>6. RingsOutliveThreads' /\ OpenSockets'
    BY <2>2, <2>3, <2>4, <1>1 DEF RingsOutliveThreads
  <2>7. CASE UNCHANGED <<terminate, refused>>
    BY <2>2, <2>3, <2>4, <2>6, <2>7, OtherStep
  <2>8. CASE terminate' = TRUE /\ refused' = TRUE
    BY <2>2, <2>3, <2>4, <2>6, <2>8, OtherStep
  <2> QED
    BY <2>5, <2>7, <2>8
<1>4. CASE ReceiverLook \/ ReceiverGet
  <2>1. PICK a \in {"loop", "get"}, b \in {"get", "loop"} : Step("receiver", a, b)
    BY <1>4 DEF ReceiverLook, ReceiverGet
  <2>2. UNCHANGED <<main, todo, environment, lcdInfo, terminate, refused, started, heard, sock>>
    BY <1>4 DEF ReceiverLook, ReceiverGet
  <2>3. PICK kinds \in SUBSET {"ctx", "playstate", "rings"} : Touch(kinds)
    BY <1>4 DEF ReceiverLook, ReceiverGet
  <2>4. ~ Over("receiver") /\ "receiver" \in Threads
    BY <2>1 DEF Step, Over, Threads
  <2>5. /\ RingsOutliveThreads' /\ stray \subseteq stray'
        /\ stray' \subseteq {"ctx", "playstate", "rings", "socket"}
        /\ "socket" \in stray' => "socket" \in stray
    BY <2>3, <2>4, TouchKeepsRings
  <2>6. OpenSockets'
    BY <2>1, <2>2, <1>1
  <2> QED
    BY <2>1, <2>2, <2>5, <2>6, OtherStep
<1>5. CASE LoopEnds("receiver", "close")
  <2>1. Step("receiver", "loop", "close")
    BY <1>5 DEF LoopEnds
  <2>2. UNCHANGED <<main, todo, environment, lcdInfo, terminate, refused, started, heard, stray, sock>>
    BY <1>5 DEF LoopEnds
  <2>3. RingsOutliveThreads' /\ OpenSockets'
    BY <2>1, <2>2, <1>1 DEF RingsOutliveThreads
  <2> QED
    BY <2>1, <2>2, <2>3, OtherStep
<1>6. CASE \/ SocketDelete("receiver", "stream", "close", "clear")
           \/ SocketClear("receiver", "stream", "clear", "ended")
  <2>1. PICK a \in {"close", "clear"}, b \in {"clear", "ended"},
             o \in {NoSocket, [NoSocket EXCEPT !.ptr = "dangling"]} :
          Step("receiver", a, b) /\ sock' = [sock EXCEPT !["stream"] = o]
    BY <1>6 DEF SocketDelete, SocketClear
  <2>2. /\ sock' \in [Sockets -> SocketObjects]
        /\ \A u \in Sockets : sock'[u].open => sock'[u].ptr = "live"
        /\ \A u \in Sockets : u # "stream" => sock'[u] = sock[u]
    BY <2>1, NewObjects, SockType
  <2>3. UNCHANGED <<main, todo, environment, lcdInfo, terminate, refused, started, heard, stray>>
    BY <1>6 DEF SocketDelete, SocketClear
  <2>4. RingsOutliveThreads' /\ OpenSockets'
    BY <2>1, <2>2, <2>3, <1>1 DEF RingsOutliveThreads
  <2> QED
    BY <2>1, <2>2, <2>3, <2>4, OtherStep
<1> QED
  BY <1>2, <1>3, <1>4, <1>5, <1>6 DEF Receiver

\* The steps of the player.
LEMMA PlayerKeepsIInv ==
  ASSUME IInv, Player PROVE IInv'
<1> USE Present DEF ThreadStates, Sockets, OwnerKeeps, ThreadKeeps
<1>1. PICK a \in {"new", "loop"}, b \in {"loop", "ended"} : Step("player", a, b)
  BY DEF Player, PlayerStart, PlayerTurn, LoopEnds
<1>2. UNCHANGED <<main, todo, environment, lcdInfo, terminate, refused, heard, sock>>
  BY DEF Player, PlayerStart, PlayerTurn, LoopEnds
<1>3. PICK kinds \in SUBSET {"ctx", "rings"} : Touch(kinds)
  <2>1. CASE PlayerStart \/ PlayerTurn
    BY <2>1 DEF PlayerStart, PlayerTurn
  <2>2. CASE LoopEnds("player", "ended")
    <3>1. Touch({})
      BY <2>2 DEF LoopEnds, Touch
    <3> QED
      BY <3>1
  <2> QED
    BY <2>1, <2>2 DEF Player
<1>4. ~ Over("player") /\ "player" \in Threads
  BY <1>1 DEF Step, Over, Threads
<1>5. /\ RingsOutliveThreads' /\ stray \subseteq stray'
      /\ stray' \subseteq {"ctx", "playstate", "rings", "socket"}
      /\ "socket" \in stray' => "socket" \in stray
  BY <1>3, <1>4, TouchKeepsRings
<1>6. started' = started \/ started' = TRUE
  BY DEF Player, PlayerStart, PlayerTurn, LoopEnds
<1>7. OpenSockets'
  BY <1>1, <1>2, OpenSocketsKept
<1>8. started' \in BOOLEAN
  <2>1. started \in BOOLEAN
    BY Present
  <2> QED
    BY ONLY <1>6, <2>1, Zenon
<1> QED
  BY <1>1, <1>2, <1>5, <1>7, <1>8, OtherStep

\* The steps of the remuxer.
LEMMA RemuxKeepsIInv ==
  ASSUME IInv, Remux PROVE IInv'
<1> USE Present DEF ThreadStates, Sockets, OwnerKeeps, ThreadKeeps
<1>1. PICK a \in {"new", "loop", "request"}, b \in {"loop", "request", "ended"} :
        Step("remux", a, b)
  BY DEF Remux, RemuxStart, RemuxTurn, RemuxRequest, LoopEnds
<1>2. UNCHANGED <<main, todo, environment, lcdInfo, terminate, refused, started, heard, sock>>
  BY DEF Remux, RemuxStart, RemuxTurn, RemuxRequest, LoopEnds
<1>3. ~ Over("remux") /\ "remux" \in Threads
  BY <1>1 DEF Step, Over, Threads
<1>4. PICK kinds \in SUBSET {"ctx", "playstate", "rings", "socket"} :
        /\ Touch(kinds)
        /\ "socket" \in kinds => thread["remux"] = "request"
        /\ thread'["remux"] = "request" => (heard \/ ~ started) /\ "playstate" \in kinds
  <2>1. CASE RemuxTurn
    <3>1. thread'["remux"] = "request" => heard \/ ~ started
      BY <2>1 DEF RemuxTurn, Step, TypeOK, Threads
    <3> QED
      BY <3>1, <2>1 DEF RemuxTurn
  <2>2. CASE RemuxRequest
    <3>1. thread["remux"] = "request" /\ thread'["remux"] = "loop"
      BY <2>2 DEF RemuxRequest, Step, TypeOK, Threads
    <3> QED
      BY <3>1, <2>2 DEF RemuxRequest
  <2>3. CASE RemuxStart \/ LoopEnds("remux", "ended")
    <3>1. Touch({})
      BY <2>3 DEF RemuxStart, LoopEnds, Touch
    <3>2. thread'["remux"] # "request"
      BY <2>3 DEF RemuxStart, LoopEnds, Step, TypeOK, Threads
    <3> QED
      BY <3>1, <3>2
  <2> QED
    BY <2>1, <2>2, <2>3 DEF Remux
<1>5. /\ RingsOutliveThreads' /\ stray \subseteq stray'
      /\ stray' \subseteq {"ctx", "playstate", "rings", "socket"}
      /\ "playstate" \in kinds => started \/ "playstate" \in stray'
  BY <1>3, <1>4, TouchKeepsRings
<1>6. thread'["control"] = thread["control"]
  BY <1>1 DEF TypeOK, Step, Threads
<1>7. ControlSocket'
  <2>1. thread'["remux"] = "request" => heard' \/ "playstate" \in stray'
    BY <1>2, <1>4, <1>5
  <2> QED
    BY <2>1, <1>2, <1>6 DEF IInv, ControlSocket
<1>8. SocketsOutliveUsers'
  <2>1. ASSUME "socket" \in stray', "socket" \notin stray, ~ terminate
        PROVE  "playstate" \in stray'
    <3>1. "socket" \in kinds /\ sock["control"].ptr # "live"
      BY <2>1, <1>4 DEF Touch, Absent
    <3>2. thread["remux"] = "request"
      BY <3>1, <1>4
    <3>3. ~ heard
      BY <3>1, <2>1 DEF IInv, ControlSocket
    <3> QED
      BY <3>2, <3>3, <1>5 DEF IInv, ControlSocket
  <2> QED
    BY <2>1, <1>2, <1>5 DEF IInv, SocketsOutliveUsers
<1>9. OpenSockets'
  BY <1>1, <1>2, OpenSocketsKept
<1> QED
  BY <1>1, <1>2, <1>3, <1>5, <1>7, <1>8, <1>9, ThreadStep

\* The LCD thread, and the server that lets it receive.
LEMMA LcdKeepsIInv ==
  ASSUME IInv, Lcd \/ LcdGet(TRUE) PROVE IInv'
<1> USE Present DEF ThreadStates, Sockets, OwnerKeeps, ThreadKeeps
<1>0. /\ thread["receiver"] = "open" => sock["stream"].ptr = "live"
      /\ thread["lcd"] = "open" => sock["lcd"].ptr = "live"
  BY DEF IInv, OpenSockets
<1>1. ASSUME NEW a, NEW b \in ThreadStates, Step("lcd", a, b),
             \A u \in Sockets : u # "lcd" => sock'[u] = sock[u],
             b = "open" => sock'["lcd"].ptr = "live"
      PROVE  OpenSockets'
  <2>1. thread'["receiver"] = thread["receiver"] /\ thread'["lcd"] = b
    BY <1>1 DEF TypeOK, Step, Threads
  <2> QED
    BY <2>1, <1>0, <1>1 DEF OpenSockets
<1>2. CASE LcdStart \/ SocketDelete("lcd", "lcd", "drop", "dropped")
           \/ SocketClear("lcd", "lcd", "dropped", "loop")
           \/ SocketDelete("lcd", "lcd", "close", "clear")
           \/ SocketClear("lcd", "lcd", "clear", "ended")
  <2>1. PICK a \in {"new", "drop", "dropped", "close", "clear"},
             b \in {"loop", "dropped", "clear", "ended"},
             o \in {NoSocket, [NoSocket EXCEPT !.ptr = "dangling"]} :
          Step("lcd", a, b) /\ sock' = [sock EXCEPT !["lcd"] = o]
    BY <1>2 DEF LcdStart, SocketDelete, SocketClear
  <2>2. /\ sock' \in [Sockets -> SocketObjects]
        /\ \A u \in Sockets : sock'[u].open => sock'[u].ptr = "live"
        /\ \A u \in Sockets : u # "lcd" => sock'[u] = sock[u]
    BY <2>1, NewObjects, SockType
  <2>3. UNCHANGED <<main, todo, environment, lcdInfo, terminate, refused, started, heard, stray>>
    BY <1>2 DEF LcdStart, SocketDelete, SocketClear
  <2>4. RingsOutliveThreads' /\ OpenSockets'
    BY <2>1, <2>2, <2>3, <1>1 DEF RingsOutliveThreads
  <2> QED
    BY <2>1, <2>2, <2>3, <2>4, OtherStep
<1>3. CASE LcdTurn
  <2>1. PICK b \in {"drop", "get", "open", "loop"} :
          /\ Step("lcd", "loop", b)
          /\ sock' = [sock EXCEPT !["lcd"] = NewSocket] \/ (UNCHANGED sock /\ b # "open")
    BY <1>3 DEF LcdTurn
  <2>2. UNCHANGED <<main, todo, environment, lcdInfo, terminate, refused, started, heard>>
    BY <1>3 DEF LcdTurn
  <2>3. Touch({"rings"})
    BY <1>3 DEF LcdTurn
  <2>4. ~ Over("lcd") /\ "lcd" \in Threads
    BY <2>1 DEF Step, Over, Threads
  <2>5. /\ RingsOutliveThreads' /\ stray \subseteq stray'
        /\ stray' \subseteq {"ctx", "playstate", "rings", "socket"}
        /\ "socket" \in stray' => "socket" \in stray
    BY <2>3, <2>4, TouchKeepsRings
  <2>6. CASE sock' = [sock EXCEPT !["lcd"] = NewSocket]
    <3>1. /\ sock' \in [Sockets -> SocketObjects]
          /\ \A u \in Sockets : sock'[u].open => sock'[u].ptr = "live"
          /\ sock'["lcd"].ptr = "live"
          /\ \A u \in Sockets : u # "lcd" => sock'[u] = sock[u]
      BY <2>6, NewObjects, SockType
    <3>2. OpenSockets'
      BY <2>1, <3>1, <1>1
    <3> QED
      BY <2>1, <2>2, <2>5, <3>1, <3>2, OtherStep
  <2>7. CASE UNCHANGED sock /\ b # "open"
    <3>1. OpenSockets'
      BY <2>1, <2>7, <1>1
    <3> QED
      BY <2>1, <2>2, <2>5, <2>7, <3>1, OtherStep
  <2> QED
    BY <2>1, <2>6, <2>7
<1>4. CASE LcdOpen
  <2>1. PICK ok \in {TRUE, FALSE} : sock' = Opened("lcd", ok)
    BY <1>4 DEF LcdOpen, Connects
  <2>2. Step("lcd", "open", "loop")
    BY <1>4 DEF LcdOpen
  <2>3. /\ sock' \in [Sockets -> SocketObjects]
        /\ \A u \in Sockets : sock'[u].open => sock'[u].ptr = "live"
        /\ \A u \in Sockets : u # "lcd" => sock'[u] = sock[u]
    BY <2>1, <2>2, <1>0, OpenedType DEF Step
  <2>4. UNCHANGED <<main, todo, environment, lcdInfo, terminate, refused, started, heard, stray>>
    BY <1>4 DEF LcdOpen
  <2>5. RingsOutliveThreads' /\ OpenSockets'
    BY <2>2, <2>3, <2>4, <1>1 DEF RingsOutliveThreads
  <2> QED
    BY <2>2, <2>3, <2>4, <2>5, OtherStep
<1>5. CASE LcdGet(TRUE) \/ LcdGet(FALSE) \/ LoopEnds("lcd", "close") \/ LcdEnd
  <2>1. PICK a \in {"get", "loop", "close"}, b \in {"loop", "close", "ended"} :
          Step("lcd", a, b)
    BY <1>5 DEF LcdGet, LoopEnds, LcdEnd
  <2>2. UNCHANGED <<main, todo, environment, lcdInfo, terminate, refused, started, heard, stray, sock>>
    BY <1>5 DEF LcdGet, LoopEnds, LcdEnd
  <2>3. RingsOutliveThreads' /\ OpenSockets'
    BY <2>1, <2>2, <1>1 DEF RingsOutliveThreads
  <2> QED
    BY <2>1, <2>2, <2>3, OtherStep
<1> QED
  BY <1>2, <1>3, <1>4, <1>5 DEF Lcd

\* The server closes a connection: the object of it reaches its end.
LEMMA ServerKeepsIInv ==
  ASSUME IInv, NEW s \in Leaving, ServerCloses(s) PROVE IInv'
<1> USE Present DEF ServerCloses
<1>1. s \in Sockets
  BY ParameterAssumption
<1>2. UNCHANGED <<main, todo, terminate, thread, environment, started, heard,
                  lcdInfo, refused, stray>>
  OBVIOUS
<1>3. sock' = [sock EXCEPT ![s] = [sock[s] EXCEPT !.eof = TRUE]]
  OBVIOUS
<1>4. sock' \in [Sockets -> SocketObjects]
  <2>1. sock[s] \in SocketObjects
    BY <1>1
  <2>2. [sock[s] EXCEPT !.eof = TRUE] \in SocketObjects
    BY <2>1 DEF SocketObjects
  <2> QED
    BY <1>1, <1>3, <2>2
<1>5. \A u \in Sockets : sock'[u].open = sock[u].open /\ sock'[u].ptr = sock[u].ptr
  BY <1>1, <1>3 DEF SocketObjects
<1>6. TypeOK'
  BY <1>2, <1>4, <1>5 DEF IInv, TypeOK, environment
<1>7. ControlSocket' /\ OpenSockets'
  BY <1>2, <1>5 DEF IInv, ControlSocket, OpenSockets, Sockets
<1>8. Frame' /\ Terminated' /\ Untouched'
  BY <1>2 DEF IInv, Frame, TodoOK, Uncreated, RingsReady, Joined, Over, Terminated,
              Untouched, environment
<1>9. RingsOutliveThreads' /\ LeavesClean' /\ SocketsOutliveUsers'
  BY <1>2 DEF IInv, RingsOutliveThreads, LeavesClean, Over, SocketsOutliveUsers, environment
<1> QED
  BY <1>6, <1>7, <1>8, <1>9 DEF IInv

--------------------------------------------------------------------------------
\* The main thread.  What is left to show of a step that touches no thread and no
\* socket.
LEMMA MainStep ==
  ASSUME IInv, UNCHANGED <<thread, sock, stray>>, UNCHANGED <<started, heard, refused>>,
         main' \in {"select", "dvb", "connect", "create", "rfb", "loop", "look",
                    "shutdown", "join", "returned"},
         todo' \in Seq(Threads \cup Sockets),
         terminate' \in BOOLEAN, lcdInfo' \in BOOLEAN, terminate => terminate',
         rings' \in {"none", "ready", "freed"}, ctx' \in {"none", "set", "gone"},
         devices' \in {"open", "closed"}, zapit' \in {"playing", "standby"},
         TodoOK', Uncreated', RingsReady', Joined', Terminated', Untouched', LeavesClean'
  PROVE  IInv'
<1> USE Present
<1>1. {terminate', started', heard', lcdInfo', refused'} \subseteq BOOLEAN
  BY Zenon
<1>2. TypeOK'
  BY <1>1 DEF IInv, TypeOK
<1>3. ControlSocket' /\ OpenSockets'
  BY DEF IInv, ControlSocket, OpenSockets
<1>4. RingsOutliveThreads' /\ SocketsOutliveUsers'
  BY DEF IInv, RingsOutliveThreads, SocketsOutliveUsers
<1> QED
  BY <1>2, <1>3, <1>4 DEF IInv, Frame

\* Most steps leave the two flags alone.
LEMMA FlagsKept ==
  ASSUME IInv, terminate' = terminate, lcdInfo' = lcdInfo
  PROVE  terminate' \in BOOLEAN /\ lcdInfo' \in BOOLEAN /\ (terminate => terminate')
<1>1. terminate \in BOOLEAN /\ lcdInfo \in BOOLEAN
  BY Present
<1>2. terminate => terminate'
  BY Zenon
<1> QED
  BY ONLY <1>1, <1>2, terminate' = terminate, lcdInfo' = lcdInfo, Zenon

\* Main goes into the cleanup.
LEMMA CleanupKeepsIInv ==
  ASSUME IInv, Cleanup, main \notin {"select", "returned"},
         UNCHANGED <<thread, sock, stray>>, UNCHANGED <<started, heard, refused>>,
         UNCHANGED <<environment, lcdInfo>>
  PROVE  IInv'
<1>1. main' = "look" /\ todo' = Shutdowns /\ terminate' = TRUE
  BY DEF Cleanup
<1>2. Shutdowns \in Seq(Sockets) /\ Shutdowns \in Seq(Threads \cup Sockets)
  BY DEF Shutdowns, Sockets
<1>3. TodoOK' /\ Uncreated' /\ Joined' /\ Terminated' /\ Untouched' /\ LeavesClean'
  BY <1>1, <1>2 DEF TodoOK, Uncreated, Joined, Terminated, Untouched, LeavesClean
<1>4. RingsReady'
  BY <1>1 DEF IInv, Frame, RingsReady, Over, environment
<1>5. /\ rings' \in {"none", "ready", "freed"} /\ ctx' \in {"none", "set", "gone"}
      /\ devices' \in {"open", "closed"} /\ zapit' \in {"playing", "standby"}
  BY Present DEF TypeOK, environment
<1>6. lcdInfo' \in BOOLEAN
  BY Present, Zenon
<1> QED
  BY <1>1, <1>2, <1>3, <1>4, <1>5, <1>6, MainStep

\* The steps of main in the selection of a server.
LEMMA MainSelectKeepsIInv ==
  ASSUME IInv, MainSelect PROVE IInv'
<1> USE Present DEF MainSelect, MainKeeps
<1>1. \A t \in Threads : thread[t] = "none"
  BY DEF IInv, Frame, Uncreated
<1>2. UNCHANGED <<todo, terminate, thread, sock, devices, lcdInfo, stray>>
      /\ UNCHANGED <<started, heard, refused>>
  OBVIOUS
<1>3. devices = "closed" /\ zapit = "playing"
  BY DEF IInv, Untouched
<1>4. main' \in {"returned", "dvb"}
  OBVIOUS
<1>5. TodoOK' /\ Uncreated' /\ Joined' /\ Untouched'
  BY <1>1, <1>2, <1>4 DEF TodoOK, Uncreated, Joined, Untouched
<1>6. RingsReady'
  BY <1>1, <1>2 DEF RingsReady, Over
<1>7. Terminated'
  BY <1>2, <1>4 DEF IInv, Terminated
<1>8. LeavesClean'
  BY <1>1, <1>2, <1>3 DEF LeavesClean, Over
<1>9. /\ rings' \in {"none", "ready", "freed"} /\ ctx' \in {"none", "set", "gone"}
      /\ devices' \in {"open", "closed"} /\ zapit' \in {"playing", "standby"}
      /\ todo' \in Seq(Threads \cup Sockets)
  BY <1>2 DEF TypeOK
<1>10. terminate' \in BOOLEAN /\ lcdInfo' \in BOOLEAN /\ (terminate => terminate')
  BY <1>2, FlagsKept
<1> QED
  BY <1>2, <1>4, <1>5, <1>6, <1>7, <1>8, <1>9, <1>10, MainStep

\* The steps of main between the selection and the loop, and its end.
LEMMA MainPreparesKeepsIInv ==
  ASSUME IInv, MainOpenDevices \/ MainConnect \/ MainInitialise \/ MainQuit
  PROVE  IInv'
<1> USE Present DEF MainKeeps
<1>1. CASE Cleanup /\ UNCHANGED environment
  <2>1. main \notin {"select", "returned"} /\ UNCHANGED <<started, heard, refused>>
        /\ UNCHANGED <<thread, sock, stray>> /\ UNCHANGED <<environment, lcdInfo>>
    BY <1>1 DEF MainOpenDevices, MainConnect, MainInitialise, MainQuit
  <2> QED
    BY <1>1, <2>1, CleanupKeepsIInv
<1>2. CASE /\ <<main, main'>> \in {<<"dvb", "connect">>, <<"connect", "create">>,
                                  <<"rfb", "loop">>}
           /\ todo' = IF main' = "create" THEN Creation ELSE todo
           /\ UNCHANGED <<terminate, rings, ctx, zapit, lcdInfo>>
           /\ devices' \in {"open", "closed"}
  <2>1. UNCHANGED <<started, heard, refused>> /\ UNCHANGED <<thread, sock, stray>>
    BY DEF MainOpenDevices, MainConnect, MainInitialise, MainQuit
  <2>2. main' \in {"connect", "create", "loop"}
    BY <1>2
  <2>3. Creation \in Seq(Threads) /\ Creation # << >>
        /\ Creation \in Seq(Threads \cup Sockets)
    BY DEF Creation, Threads
  <2>4. TodoOK'
    BY <1>2, <2>2, <2>3 DEF TodoOK
  <2>5. main \in {"dvb", "connect"} => \A t \in Threads : thread[t] = "none"
    BY DEF IInv, Frame, Uncreated
  <2>6. Uncreated'
    <3>1. ASSUME main' = "create"
          PROVE  /\ \A k \in DOMAIN Creation : thread[Creation[k]] = "none"
                 /\ \A j, k \in DOMAIN Creation : Creation[j] = Creation[k] => j = k
      <4>1. \A t \in Threads : thread[t] = "none"
        BY <3>1, <1>2, <2>5
      <4> QED
        BY <4>1, <2>3 DEF Creation
    <3> QED
      BY <3>1, <1>2, <2>1, <2>2, <2>5 DEF Uncreated
  <2>7. RingsReady' /\ Joined' /\ Terminated' /\ Untouched' /\ LeavesClean'
    BY <1>2, <2>1, <2>2 DEF IInv, Frame, RingsReady, Joined, Terminated, Untouched,
                            LeavesClean, Over
  <2>8. /\ rings' \in {"none", "ready", "freed"} /\ ctx' \in {"none", "set", "gone"}
        /\ zapit' \in {"playing", "standby"} /\ todo' \in Seq(Threads \cup Sockets)
    BY <1>2, <2>3 DEF TypeOK
  <2>9. terminate' \in BOOLEAN /\ lcdInfo' \in BOOLEAN /\ (terminate => terminate')
    BY <1>2, FlagsKept
  <2> QED
    BY <1>2, <2>1, <2>2, <2>4, <2>6, <2>7, <2>8, <2>9, MainStep
<1>3. CASE MainOpenDevices
  BY <1>1, <1>2, <1>3 DEF MainOpenDevices, environment, TypeOK
<1>4. CASE MainConnect
  BY <1>1, <1>2, <1>4 DEF MainConnect, environment, TypeOK
<1>5. CASE MainInitialise
  BY <1>1, <1>2, <1>5 DEF MainInitialise, environment, TypeOK
<1>6. CASE MainQuit
  BY <1>1, <1>6 DEF MainQuit
<1> QED
  BY <1>3, <1>4, <1>5, <1>6

\* The steps of main in its loop.
LEMMA ServingKeepsIInv ==
  ASSUME IInv, ToggleLCD \/ MainLeave PROVE IInv'
<1> USE Present DEF MainKeeps
<1>1. /\ main = "loop"
      /\ UNCHANGED <<todo, terminate, thread, sock, rings, devices, zapit, stray>>
      /\ UNCHANGED <<started, heard, refused>>
  BY DEF ToggleLCD, MainLeave, environment
<1>2. \/ main' = "loop" /\ ctx' = ctx
      \/ main' = "returned" /\ ctx' = "gone" /\ terminate
  BY <1>1 DEF ToggleLCD, MainLeave, environment
<1>3. lcdInfo' \in BOOLEAN
  <2>1. lcdInfo' = lcdInfo \/ lcdInfo' = ~ lcdInfo
    BY DEF ToggleLCD, MainLeave
  <2>2. lcdInfo \in BOOLEAN
    OBVIOUS
  <2> QED
    BY ONLY <2>1, <2>2
<1>4. TodoOK' /\ Uncreated' /\ Joined' /\ Untouched'
  BY <1>1, <1>2 DEF TodoOK, Uncreated, Joined, Untouched
<1>5. RingsReady'
  BY <1>1, <1>2 DEF IInv, Frame, RingsReady, Over
<1>6. Terminated' /\ LeavesClean'
  BY <1>1, <1>2 DEF IInv, Terminated, LeavesClean
<1>7. /\ rings' \in {"none", "ready", "freed"} /\ ctx' \in {"none", "set", "gone"}
      /\ devices' \in {"open", "closed"} /\ zapit' \in {"playing", "standby"}
      /\ todo' \in Seq(Threads \cup Sockets)
  BY <1>1, <1>2 DEF TypeOK
<1>8. terminate' \in BOOLEAN /\ (terminate => terminate')
  <2>1. terminate' = terminate /\ terminate \in BOOLEAN
    BY <1>1
  <2> QED
    BY ONLY <2>1, Zenon
<1> QED
  BY <1>1, <1>2, <1>3, <1>4, <1>5, <1>6, <1>7, <1>8, MainStep

\* The cleanup passes from one thing to the next.
LEMMA CleaningKeepsIInv ==
  ASSUME IInv, CleanupLook \/ CleanupJoins \/ CleanupJoin \/ CleanupRelease
  PROVE  IInv'
<1> USE Present DEF MainKeeps
<1>1. UNCHANGED <<terminate, thread, sock, lcdInfo, stray>>
      /\ UNCHANGED <<started, heard, refused>>
  BY DEF CleanupLook, CleanupJoins, CleanupJoin, CleanupRelease
<1>2. main \in {"look", "join"} /\ terminate
  BY DEF IInv, Terminated, CleanupLook, CleanupJoins, CleanupJoin, CleanupRelease
<1>3. /\ main = "look" => todo \in Seq(Sockets)
      /\ main = "join" => todo \in Seq(Threads)
      /\ rings = "ready"
      /\ \A t \in Threads : main = "join" => Over(t) \/ \E k \in DOMAIN todo : todo[k] = t
  BY <1>2 DEF IInv, Frame, TodoOK, RingsReady, Joined
<1>4. terminate' \in BOOLEAN /\ lcdInfo' \in BOOLEAN /\ (terminate => terminate')
  BY <1>1, FlagsKept
<1>5. Terminated' /\ Untouched' /\ Uncreated'
  <2>1. main' \in {"look", "shutdown", "join", "returned"}
    BY <1>2 DEF CleanupLook, CleanupJoins, CleanupJoin, CleanupRelease
  <2>2. terminate'
    BY <1>1, <1>2, Zenon
  <2> QED
    BY <2>1, <2>2 DEF Terminated, Untouched, Uncreated
<1>6. CASE CleanupLook
  <2>1. /\ todo' \in Seq(Sockets) /\ main' \in {"look", "shutdown"}
        /\ main' = "shutdown" => todo' # << >>
    BY <1>6, <1>3 DEF CleanupLook
  <2>2. todo' \in Seq(Threads \cup Sockets) /\ TodoOK'
    BY <2>1 DEF TodoOK
  <2>3. UNCHANGED environment
    BY <1>6 DEF CleanupLook
  <2>4. RingsReady' /\ Joined' /\ LeavesClean'
    BY <2>1, <2>3, <1>1, <1>3 DEF RingsReady, Joined, LeavesClean, environment
  <2> QED
    BY <1>1, <1>4, <1>5, <2>1, <2>2, <2>3, <2>4, MainStep DEF TypeOK, environment
<1>7. CASE CleanupJoins
  <2>1. main' = "join" /\ todo' = Joins /\ UNCHANGED environment
    BY <1>7 DEF CleanupJoins
  <2>2. Joins \in Seq(Threads) /\ Joins \in Seq(Threads \cup Sockets)
    BY DEF Joins, Threads
  <2>3. TodoOK' /\ RingsReady' /\ LeavesClean'
    BY <2>1, <2>2, <1>3 DEF TodoOK, RingsReady, LeavesClean, environment
  <2>4. Joined'
    <3>1. /\ Joins[1] = "lcd" /\ Joins[2] = "player" /\ Joins[3] = "remux"
          /\ Joins[4] = "receiver" /\ Joins[5] = "control" /\ DOMAIN Joins = 1..5
      BY DEF Joins
    <3>2. \A t \in Threads : \E k \in DOMAIN Joins : Joins[k] = t
      BY <3>1 DEF Threads
    <3> QED
      BY <2>1, <3>2 DEF Joined
  <2> QED
    BY <1>1, <1>4, <1>5, <2>1, <2>2, <2>3, <2>4, MainStep DEF TypeOK, environment
<1>8. CASE CleanupJoin
  <2>1. /\ main = "join" /\ main' = "join" /\ todo # << >> /\ todo' = Tail(todo)
        /\ Over(Head(todo)) /\ UNCHANGED environment
    BY <1>8 DEF CleanupJoin
  <2>2. todo' \in Seq(Threads) /\ todo' \in Seq(Threads \cup Sockets)
    BY <2>1, <1>3
  <2>3. TodoOK' /\ RingsReady' /\ LeavesClean'
    BY <2>1, <2>2, <1>3 DEF TodoOK, RingsReady, LeavesClean, environment
  <2>4. Joined'
    <3>1. ASSUME NEW t \in Threads, ~ Over(t)
          PROVE  \E k \in DOMAIN Tail(todo) : Tail(todo)[k] = t
      <4>1. PICK k \in DOMAIN todo : todo[k] = t
        BY <3>1, <2>1, <1>3
      <4>2. k \in 1..Len(todo) /\ k # 1
        BY <4>1, <3>1, <2>1, <1>3
      <4>3. k - 1 \in DOMAIN Tail(todo) /\ Tail(todo)[k - 1] = t
        BY <4>1, <4>2, <2>1, <1>3
      <4> QED
        BY <4>3
    <3> QED
      BY <2>1, <3>1, <1>1 DEF Joined, Over
  <2> QED
    BY <1>1, <1>4, <1>5, <2>1, <2>2, <2>3, <2>4, MainStep DEF TypeOK, environment
<1>9. CASE CleanupRelease
  <2>1. \A t \in Threads : Over(t)
    BY <1>9, <1>3 DEF CleanupRelease
  <2>2. /\ main' = "returned" /\ UNCHANGED todo /\ rings' = "freed" /\ ctx' = "gone"
        /\ devices' = "closed" /\ zapit' = "playing"
    BY <1>9 DEF CleanupRelease
  <2>3. TodoOK' /\ RingsReady' /\ Joined' /\ LeavesClean'
    BY <2>1, <2>2, <1>1 DEF TodoOK, RingsReady, Joined, LeavesClean, Over
  <2> QED
    BY <1>1, <1>4, <1>5, <2>2, <2>3, MainStep DEF TypeOK
<1> QED
  BY <1>6, <1>7, <1>8, <1>9

\* The next thread is created; it was not there, and the others are still to come.
LEMMA CreateThreadKeepsIInv ==
  ASSUME IInv, CreateThread PROVE IInv'
<1> USE Present DEF CreateThread, MainKeeps
<1> DEFINE t == Head(todo)
           b == IF t \in Failing THEN "failed" ELSE "new"
<1>1. /\ todo \in Seq(Threads) /\ todo # << >> /\ rings = "ready" /\ main = "create"
      /\ \A k \in DOMAIN todo : thread[todo[k]] = "none"
      /\ \A j, k \in DOMAIN todo : todo[j] = todo[k] => j = k
  BY DEF IInv, Frame, TodoOK, Uncreated, RingsReady
<1>2. /\ t \in Threads /\ 1 \in DOMAIN todo /\ t = todo[1] /\ thread[t] = "none"
      /\ Tail(todo) \in Seq(Threads)
      /\ \A k \in DOMAIN Tail(todo) : k \in Nat \ {0} /\ k + 1 \in DOMAIN todo
                                     /\ Tail(todo)[k] = todo[k + 1]
  BY <1>1
<1>3. /\ thread' \in [Threads -> ThreadStates] /\ thread'[t] = b
      /\ \A u \in Threads : u # t => thread'[u] = thread[u]
  BY <1>2 DEF TypeOK, ThreadStates
<1>4. /\ UNCHANGED <<terminate, sock, environment, lcdInfo, stray>>
      /\ UNCHANGED <<started, heard, refused>>
      /\ todo' = Tail(todo) /\ main' = IF Tail(todo) = << >> THEN "rfb" ELSE "create"
  OBVIOUS
<1> HIDE DEF t, CreateThread
<1>5. TodoOK'
  BY <1>2, <1>4 DEF TodoOK
<1>6. Uncreated'
  <2>1. \A k \in DOMAIN Tail(todo) : Tail(todo)[k] \in Threads /\ Tail(todo)[k] # t
    BY <1>1, <1>2
  <2>2. \A k \in DOMAIN Tail(todo) : thread'[Tail(todo)[k]] = "none"
    BY <2>1, <1>1, <1>2, <1>3
  <2>3. \A j, k \in DOMAIN Tail(todo) : Tail(todo)[j] = Tail(todo)[k] => j = k
    BY <1>1, <1>2
  <2> QED
    BY <2>2, <2>3, <1>4 DEF Uncreated
<1>7. RingsReady' /\ Joined' /\ Untouched' /\ LeavesClean'
  BY <1>1, <1>4 DEF RingsReady, Joined, Untouched, LeavesClean, environment
<1>8. Terminated'
  BY <1>1, <1>4 DEF IInv, Terminated
<1>9. ControlSocket' /\ OpenSockets'
  BY <1>2, <1>3, <1>4 DEF IInv, ControlSocket, OpenSockets, Threads
<1>10. TypeOK'
  <2>1. main' \in {"rfb", "create"} /\ todo' \in Seq(Threads \cup Sockets)
    BY <1>2, <1>4
  <2> QED
    BY <2>1, <1>3, <1>4 DEF TypeOK, environment
<1>11. RingsOutliveThreads' /\ SocketsOutliveUsers'
  BY <1>4 DEF IInv, RingsOutliveThreads, SocketsOutliveUsers
<1> QED
  BY <1>5, <1>6, <1>7, <1>8, <1>9, <1>10, <1>11 DEF IInv, Frame

\* Main shuts a socket down, or what it takes for one.
LEMMA ShutdownKeepsIInv ==
  ASSUME IInv, CleanupShutdown PROVE IInv'
<1> USE Present DEF CleanupShutdown, MainKeeps
<1> DEFINE s == Head(todo)
<1>1. /\ main = "shutdown" /\ todo \in Seq(Sockets) /\ todo # << >> /\ terminate
      /\ rings = "ready"
  BY DEF IInv, Frame, TodoOK, Terminated, RingsReady
<1>2. s \in Sockets /\ Tail(todo) \in Seq(Sockets)
  BY <1>1
<1>3. /\ UNCHANGED <<terminate, thread, environment, lcdInfo>>
      /\ UNCHANGED <<started, heard, refused>>
      /\ main' = "look" /\ todo' = Tail(todo)
  OBVIOUS
<1>4. /\ sock' \in [Sockets -> SocketObjects]
      /\ \A u \in Sockets : sock'[u].open = sock[u].open /\ sock'[u].ptr = sock[u].ptr
  <2>1. CASE sock[s].ptr = "live"
    <3>1. sock' = [sock EXCEPT ![s] = [sock[s] EXCEPT !.term = TRUE, !.shut = sock[s].open]]
      BY <2>1, <1>2 DEF ShutDown
    <3>2. sock[s] \in SocketObjects
      BY <1>2
    <3>3. [sock[s] EXCEPT !.term = TRUE, !.shut = sock[s].open] \in SocketObjects
      BY <3>2 DEF SocketObjects
    <3>4. sock' \in [Sockets -> SocketObjects]
      BY <3>1, <3>3, <1>2
    <3>5. \A u \in Sockets : sock'[u].open = sock[u].open /\ sock'[u].ptr = sock[u].ptr
      BY <3>1, <1>2 DEF SocketObjects
    <3> QED
      BY <3>4, <3>5
  <2>2. CASE sock[s].ptr # "live"
    BY <2>2 DEF ShutDown
  <2> QED
    BY <2>1, <2>2
<1>5. stray \subseteq stray' /\ stray' \subseteq stray \cup {"socket"}
  BY DEF ShutDown
<1> HIDE DEF s, CleanupShutdown
<1>6. TypeOK'
  <2>1. todo' \in Seq(Threads \cup Sockets)
    BY <1>2, <1>3
  <2> QED
    BY <2>1, <1>3, <1>4, <1>5 DEF TypeOK, environment
<1>7. ControlSocket' /\ OpenSockets'
  BY <1>3, <1>4, <1>5 DEF IInv, ControlSocket, OpenSockets, Sockets
<1>8. TodoOK' /\ Uncreated' /\ RingsReady' /\ Joined' /\ Untouched' /\ LeavesClean'
  BY <1>1, <1>2, <1>3 DEF TodoOK, Uncreated, RingsReady, Joined, Untouched, LeavesClean,
                          environment
<1>9. terminate'
  BY <1>1, <1>3, Zenon
<1>10. Terminated' /\ SocketsOutliveUsers' /\ RingsOutliveThreads'
  BY <1>3, <1>5, <1>9 DEF Terminated, SocketsOutliveUsers, RingsOutliveThreads
<1> QED
  BY <1>6, <1>7, <1>8, <1>10 DEF IInv, Frame

--------------------------------------------------------------------------------
\* The inductive invariant holds at first.
LEMMA IInvInit ==
  Init => IInv
<1> SUFFICES ASSUME Init PROVE IInv
  OBVIOUS
<1> USE DEF Init
<1>1. TypeOK
  <2>1. todo \in Seq(Threads \cup Sockets) /\ thread \in [Threads -> ThreadStates]
    BY DEF ThreadStates
  <2>2. sock \in [Sockets -> SocketObjects] /\ \A s \in Sockets : ~ sock[s].open
    BY NewObjects
  <2>3. {terminate, started, heard, lcdInfo, refused} \subseteq BOOLEAN
    BY Zenon
  <2> QED
    BY <2>1, <2>2, <2>3 DEF TypeOK
<1>2. Frame
  BY DEF Frame, TodoOK, Uncreated, RingsReady, Joined, Over
<1>3. Terminated /\ Untouched /\ ControlSocket /\ OpenSockets
  BY DEF Terminated, Untouched, ControlSocket, OpenSockets, Threads
<1>4. RingsOutliveThreads /\ LeavesClean /\ SocketsOutliveUsers
  BY DEF RingsOutliveThreads, LeavesClean, SocketsOutliveUsers
<1> QED
  BY <1>1, <1>2, <1>3, <1>4 DEF IInv

\* And is kept by every step.
LEMMA IInvNext ==
  IInv /\ [Next]_vars => IInv'
<1> SUFFICES ASSUME IInv, [Next]_vars PROVE IInv'
  OBVIOUS
<1>1. CASE MainSelect
  BY <1>1, MainSelectKeepsIInv
<1>2. CASE MainOpenDevices \/ MainConnect \/ MainInitialise \/ MainQuit
  BY <1>2, MainPreparesKeepsIInv
<1>3. CASE CreateThread
  BY <1>3, CreateThreadKeepsIInv
<1>4. CASE ToggleLCD \/ MainLeave
  BY <1>4, ServingKeepsIInv
<1>5. CASE Cleaning
  BY <1>5, CleaningKeepsIInv, ShutdownKeepsIInv DEF Cleaning
<1>6. CASE Control
  BY <1>6, ControlKeepsIInv
<1>7. CASE Receiver
  BY <1>7, ReceiverKeepsIInv
<1>8. CASE Remux \/ Player
  BY <1>8, RemuxKeepsIInv, PlayerKeepsIInv
<1>9. CASE Lcd \/ LcdGet(TRUE)
  BY <1>9, LcdKeepsIInv
<1>10. CASE \E s \in Leaving : ServerCloses(s)
  BY <1>10, ServerKeepsIInv
<1>11. CASE UNCHANGED vars
  <2>1. TypeOK' /\ Frame'
    BY <1>11 DEF vars, environment, IInv, TypeOK, Frame, TodoOK, Uncreated, RingsReady,
                 Joined, Over
  <2>2. Terminated' /\ Untouched' /\ ControlSocket' /\ OpenSockets'
    BY <1>11 DEF vars, environment, IInv, Terminated, Untouched, ControlSocket, OpenSockets
  <2>3. RingsOutliveThreads' /\ LeavesClean' /\ SocketsOutliveUsers'
    BY <1>11 DEF vars, environment, IInv, RingsOutliveThreads, LeavesClean, Over,
                 SocketsOutliveUsers
  <2> QED
    BY <2>1, <2>2, <2>3 DEF IInv
<1> QED
  BY <1>1, <1>2, <1>3, <1>4, <1>5, <1>6, <1>7, <1>8, <1>9, <1>10, <1>11
     DEF Next, Main, Server

\* The inductive invariant holds throughout.
THEOREM Invariance == Spec => []IInv
<1>1. Init => IInv
  BY IInvInit
<1>2. IInv /\ [Next]_vars => IInv'
  BY IInvNext
<1> QED
  BY <1>1, <1>2, PTL DEF Spec

\* Every variable keeps to its range, and only an object has a descriptor.
THEOREM TypeCorrect == Spec => []TypeOK
<1>1. IInv => TypeOK
  BY DEF IInv
<1> QED
  BY <1>1, Invariance, PTL

\* No thread looks at a ring buffer that cleanup_threads has freed, or that is not
\* there yet (vdrviewer.cpp:934-947).
THEOREM RingsOutlive == Spec => []RingsOutliveThreads
<1>1. IInv => RingsOutliveThreads
  BY DEF IInv
<1> QED
  BY <1>1, Invariance, PTL

\* Remux does not write to a control socket that its thread has deleted, as long
\* as the session goes on and playstate has been set (vdrviewer.cpp:1032-1060,
\* 1154-1159).
THEOREM SocketsOutlive == Spec => []SocketsOutliveUsers
<1>1. IInv => SocketsOutliveUsers
  BY DEF IInv
<1> QED
  BY <1>1, Invariance, PTL

\* When plugin_exec returns the threads are over, the devices closed and Zapit is
\* back (vdrviewer.cpp:922-995), unless the receiver could not connect.
THEOREM CleanLeave == Spec => []LeavesClean
<1>1. IInv => LeavesClean
  BY DEF IInv
<1> QED
  BY <1>1, Invariance, PTL

================================================================================
