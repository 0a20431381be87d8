-------------------------------- MODULE Session --------------------------------
(***************************************************************************)
(* The life of one call of plugin_exec, vdrviewer.cpp: the main thread     *)
(* prepares the box, connects, starts the five worker threads, serves the  *)
(* user until he quits or the server goes, and takes everything down again *)
(* in cleanup_threads.  The threads share, without a lock, the flag        *)
(* terminate, the three cDataSocketTCP objects (each made and deleted by   *)
(* its own thread, shut down by main, and, for the control socket, used by *)
(* remux), the ring buffers and ctx, a local variable of plugin_exec.      *)
(*                                                                         *)
(* What the threads do with the data is in Pipeline; here a turn of a loop *)
(* is one or two steps that note which shared objects it touches.  The     *)
(* receiver and the control thread touch them after the look at terminate, *)
(* remux, player and LCD together with it.                                 *)
(***************************************************************************)
EXTENDS Naturals, Sequences

CONSTANTS
  Failing,    \* threads that pthread_create fails to start
  Refusing,   \* sockets whose connection the server may refuse
  Leaving     \* sockets whose server end may close during the session

Threads == {"control", "receiver", "remux", "player", "lcd"}
Sockets == {"stream", "control", "lcd"}

ASSUME ParameterAssumption ==
  Failing \subseteq Threads /\ Refusing \subseteq Sockets /\ Leaving \subseteq Sockets

VARIABLES
  main, todo,      \* position of plugin_exec; what its current step goes through
  terminate,
  thread,          \* position of each thread
  sock,            \* the socket objects and the pointers to them
  rings, ctx, devices, zapit,
  started,         \* ctx->playstate has been written
  heard,           \* a control message has been handled
  lcdInfo,         \* g_bLcdInfo
  refused,         \* history: the receiver could not connect
  stray            \* history: kinds of objects touched while they were not there

environment == <<rings, ctx, devices, zapit>>
vars == <<main, todo, terminate, thread, sock, environment, started, heard,
          lcdInfo, refused, stray>>

\* The orders of creation, of shutdown and of joining.
Creation == <<"control", "receiver", "remux", "player", "lcd">>
Shutdowns == <<"stream", "control", "lcd">>
\* Mutant: remux is forgotten.
JoinsWithoutRemux == <<"lcd", "player", "receiver", "control">>
Joins == <<"lcd", "player", "remux", "receiver", "control">>

\* A pointer is NULL, to an object, or to an object that was deleted.  An object
\* has a descriptor (open), m_Terminate (term), a read side that was shut down
\* (shut) and has reached the end of what its server sends (eof).
NoSocket == [ptr |-> "null", open |-> FALSE, term |-> FALSE, shut |-> FALSE, eof |-> FALSE]
NewSocket == [NoSocket EXCEPT !.ptr = "live"]

Init ==
  /\ main = "select" /\ todo = << >>
  /\ terminate = FALSE
  /\ thread = [t \in Threads |-> "none"]
  /\ sock = [s \in Sockets |-> NoSocket]
  /\ rings = "none" /\ ctx = "none" /\ devices = "closed" /\ zapit = "playing"
  /\ started = FALSE /\ heard = FALSE /\ lcdInfo = FALSE
  /\ refused = FALSE /\ stray = {}

--------------------------------------------------------------------------------
(***************************************************************************)
(* What a step touches.                                                    *)
(***************************************************************************)
Absent ==
  [ctx |-> ctx # "set", playstate |-> ~ started, rings |-> rings # "ready",
   socket |-> sock["control"].ptr # "live"]

Touch(kinds) == stray' = stray \cup {k \in kinds : Absent[k]}

Step(t, from, to) == thread[t] = from /\ thread' = [thread EXCEPT ![t] = to]

\* A step of a thread leaves everything alone but its position, stray and v.
ThreadKeeps(v) == UNCHANGED v /\ UNCHANGED <<main, todo, environment>>

\* What a thread keeps that owns a socket and only works on that.
OwnerKeeps == ThreadKeeps(<<started, heard, lcdInfo, stray>>)

--------------------------------------------------------------------------------
(***************************************************************************)
(* cDataSocketTCP, as its owner uses it.                                   *)
(***************************************************************************)
SocketCreate(t, s, next) ==
  /\ Step(t, "new", next)
  /\ sock' = [sock EXCEPT ![s] = NewSocket]
  /\ UNCHANGED <<terminate, refused>> /\ OwnerKeeps

\* Whether connect succeeds.
Connects(s) == {TRUE} \cup (IF s \in Refusing THEN {FALSE} ELSE {})

Opened(s, ok) ==
  [sock EXCEPT ![s] = [@ EXCEPT !.open = ok, !.term = FALSE, !.shut = FALSE,
                                !.eof = FALSE]]

\* Get with a timeout: at the end of the stream read returns 0 and poll is ready
\* again at once, so only m_Terminate ends the call.
AtEnd(s) == sock[s].eof \/ sock[s].shut
GetReturns(s) == sock[s].term \/ ~ AtEnd(s)

\* Mutant: the descriptor is not closed.
SocketDeleteOpen(t, s, from, to) ==
  /\ Step(t, from, to)
  /\ sock' = [sock EXCEPT ![s].ptr = "dangling"]
  /\ UNCHANGED <<terminate, refused>> /\ OwnerKeeps

\* Close and delete, then the pointer is cleared.
SocketDelete(t, s, from, to) ==
  /\ Step(t, from, to)
  /\ sock' = [sock EXCEPT ![s] = [NoSocket EXCEPT !.ptr = "dangling"]]
  /\ UNCHANGED <<terminate, refused>> /\ OwnerKeeps

SocketClear(t, s, from, to) ==
  /\ Step(t, from, to)
  /\ sock' = [sock EXCEPT ![s] = NoSocket]
  /\ UNCHANGED <<terminate, refused>> /\ OwnerKeeps

\* Every loop ends when it finds terminate set.
LoopEnds(t, to) ==
  /\ terminate
  /\ Step(t, "loop", to)
  /\ UNCHANGED <<sock, terminate, refused>> /\ OwnerKeeps

--------------------------------------------------------------------------------
(***************************************************************************)
(* mp_ClientControl.                                                       *)
(***************************************************************************)
ControlOpen ==
  /\ \E ok \in Connects("control") :
       /\ Step("control", "open", IF ok THEN "loop" ELSE "close")
       /\ sock' = Opened("control", ok)
  /\ UNCHANGED <<terminate, refused>> /\ OwnerKeeps

ControlLook ==
  /\ ~ terminate
  /\ Step("control", "loop", "get")
  /\ UNCHANGED <<sock, terminate, refused>> /\ OwnerKeeps

\* Mutant: the thread takes a short read for the end.
ControlGetLeaves ==
  /\ GetReturns("control")
  /\ \/ /\ Step("control", "get", "close")
        /\ UNCHANGED <<started, heard, stray>>
     \/ /\ ~ AtEnd("control")
        /\ \E next \in {"loop", "still"} : Step("control", "get", next)
        /\ started' = TRUE /\ heard' = TRUE
        /\ Touch({"ctx"})
  /\ ThreadKeeps(<<sock, terminate, refused, lcdInfo>>)

\* Nothing, a short read, or a message; a still picture has a loop of its own.
ControlGet ==
  /\ GetReturns("control")
  /\ \/ /\ Step("control", "get", "loop")
        /\ UNCHANGED <<started, heard, stray>>
     \/ /\ ~ AtEnd("control")
        /\ \E next \in {"loop", "still"} : Step("control", "get", next)
        /\ started' = TRUE /\ heard' = TRUE
        /\ Touch({"ctx"})
  /\ ThreadKeeps(<<sock, terminate, refused, lcdInfo>>)

\* The two stages of a still picture are gone through by the other threads; the
\* loops do not look at terminate.
ControlStill ==
  /\ \/ UNCHANGED thread
     \/ /\ \A t \in {"receiver", "remux", "player"} : thread[t] \in {"loop", "get", "request"}
        /\ thread' = [thread EXCEPT !["control"] = "loop"]
  /\ thread["control"] = "still"
  /\ Touch({"ctx", "playstate", "rings"})
  /\ ThreadKeeps(<<sock, terminate, refused, started, heard, lcdInfo>>)

Control ==
  \/ SocketCreate("control", "control", "open") \/ ControlOpen
  \/ ControlLook \/ LoopEnds("control", "close") \/ ControlGet \/ ControlStill
  \/ SocketDelete("control", "control", "close", "clear")
  \/ SocketClear("control", "control", "clear", "ended")

--------------------------------------------------------------------------------
(***************************************************************************)
(* mp_ReceiveStream.                                                       *)
(***************************************************************************)
ReceiverOpen ==
  /\ Step("receiver", "open", "loop")
  /\ \E ok \in Connects("stream") :
       /\ sock' = Opened("stream", ok)
       /\ terminate' = (terminate \/ ~ ok)
       /\ refused' = (refused \/ ~ ok)
  /\ OwnerKeeps

ReceiverLook ==
  /\ ~ terminate
  /\ Step("receiver", "loop", "get")
  /\ Touch({"ctx", "playstate", "rings"})
  /\ ThreadKeeps(<<sock, terminate, refused, started, heard, lcdInfo>>)

ReceiverGet ==
  /\ GetReturns("stream")
  /\ Step("receiver", "get", "loop")
  /\ Touch({"ctx", "rings"})
  /\ ThreadKeeps(<<sock, terminate, refused, started, heard, lcdInfo>>)

Receiver ==
  \/ SocketCreate("receiver", "stream", "open") \/ ReceiverOpen
  \/ ReceiverLook \/ LoopEnds("receiver", "close") \/ ReceiverGet
  \/ SocketDelete("receiver", "stream", "close", "clear")
  \/ SocketClear("receiver", "stream", "clear", "ended")

--------------------------------------------------------------------------------
(***************************************************************************)
(* mp_RemuxStream and mp_playStream.                                       *)
(***************************************************************************)
RemuxStart ==
  /\ Step("remux", "new", "loop")
  /\ UNCHANGED <<sock, terminate, refused>> /\ OwnerKeeps

\* A turn; in the reset stage, which a control message started or which the
\* uninitialized playstate happens to be, it goes on to SendPlayStateReq, where
\* it finds the pointer set.
RemuxTurn ==
  /\ ~ terminate
  /\ \/ Step("remux", "loop", "loop")
     \/ /\ heard \/ ~ started
        /\ sock["control"].ptr # "null"
        /\ Step("remux", "loop", "request")
  /\ Touch({"ctx", "playstate", "rings"})
  /\ ThreadKeeps(<<sock, terminate, refused, started, heard, lcdInfo>>)

RemuxRequest ==
  /\ Step("remux", "request", "loop")
  /\ Touch({"socket"})
  /\ ThreadKeeps(<<sock, terminate, refused, started, heard, lcdInfo>>)

Remux == RemuxStart \/ RemuxTurn \/ RemuxRequest \/ LoopEnds("remux", "ended")

PlayerStart ==
  /\ Step("player", "new", "loop")
  /\ started' = TRUE
  /\ Touch({"ctx"})
  /\ ThreadKeeps(<<sock, terminate, refused, heard, lcdInfo>>)

PlayerTurn ==
  /\ ~ terminate
  /\ Step("player", "loop", "loop")
  /\ Touch({"ctx", "rings"})
  /\ ThreadKeeps(<<sock, terminate, refused, started, heard, lcdInfo>>)

Player == PlayerStart \/ PlayerTurn \/ LoopEnds("player", "ended")

--------------------------------------------------------------------------------
(***************************************************************************)
(* updateLCD.                                                              *)
(***************************************************************************)
LcdStart == SocketClear("lcd", "lcd", "new", "loop")

\* A turn looks at the rings, then: closes the connection if the user wants the
\* status display, receives, connects if there is no object yet, or sleeps.
LcdTurn ==
  /\ ~ terminate
  /\ LET s == sock["lcd"] IN
     \/ /\ s.ptr # "null" /\ s.open
        /\ Step("lcd", "loop", IF lcdInfo THEN "drop" ELSE "get")
        /\ UNCHANGED sock
     \/ /\ s.ptr = "null" /\ ~ lcdInfo
        /\ Step("lcd", "loop", "open")
        /\ sock' = [sock EXCEPT !["lcd"] = NewSocket]
     \/ /\ ~ (s.ptr # "null" /\ s.open) /\ (s.ptr # "null" \/ lcdInfo)
        /\ Step("lcd", "loop", "loop")
        /\ UNCHANGED sock
  /\ Touch({"rings"})
  /\ ThreadKeeps(<<terminate, refused, started, heard, lcdInfo>>)

LcdOpen ==
  /\ \E ok \in Connects("lcd") : sock' = Opened("lcd", ok)
  /\ Step("lcd", "open", "loop")
  /\ UNCHANGED <<terminate, refused>> /\ OwnerKeeps

\* recv blocks: while the server is silent this step is just not taken.
LcdGet(silent) ==
  /\ silent = ~ AtEnd("lcd")
  /\ Step("lcd", "get", "loop")
  /\ UNCHANGED <<sock, terminate, refused>> /\ OwnerKeeps

LcdEnd ==
  /\ sock["lcd"].ptr = "null"
  /\ Step("lcd", "close", "ended")
  /\ UNCHANGED <<sock, terminate, refused>> /\ OwnerKeeps

Lcd ==
  \/ LcdStart \/ LcdTurn \/ LcdOpen \/ LcdGet(FALSE)
  \/ SocketDelete("lcd", "lcd", "drop", "dropped")
  \/ SocketClear("lcd", "lcd", "dropped", "loop")
  \/ LoopEnds("lcd", "close") \/ LcdEnd
  \/ sock["lcd"].ptr # "null" /\ SocketDelete("lcd", "lcd", "close", "clear")
  \/ SocketClear("lcd", "lcd", "clear", "ended")

--------------------------------------------------------------------------------
(***************************************************************************)
(* plugin_exec, CreateThreads, cleanup_and_exit and cleanup_threads.       *)
(***************************************************************************)
MainKeeps(v) == UNCHANGED v /\ UNCHANGED <<started, heard, refused>>

Cleanup == main' = "look" /\ todo' = Shutdowns /\ terminate' = TRUE

\* No server chosen; or Zapit to standby, ctx and rings.
MainSelect ==
  /\ main = "select"
  /\ \/ main' = "returned" /\ UNCHANGED <<rings, ctx, zapit>>
     \/ main' = "dvb" /\ rings' = "ready" /\ ctx' = "set" /\ zapit' = "standby"
  /\ MainKeeps(<<todo, terminate, thread, sock, devices, lcdInfo, stray>>)

MainOpenDevices ==
  /\ main = "dvb"
  /\ \/ main' = "connect" /\ devices' = "open" /\ UNCHANGED <<todo, terminate>>
     \/ Cleanup /\ UNCHANGED devices
  /\ MainKeeps(<<thread, sock, rings, ctx, zapit, lcdInfo, stray>>)

\* ConnectToRFBServer, until it succeeds or the user gives up.
MainConnect ==
  /\ main = "connect"
  /\ \/ main' = "create" /\ todo' = Creation /\ UNCHANGED terminate
     \/ Cleanup
  /\ MainKeeps(<<thread, sock, environment, lcdInfo, stray>>)

\* A thread that cannot be started is only logged.
CreateThread ==
  /\ main = "create" /\ todo # << >>
  /\ thread' = [thread EXCEPT ![Head(todo)] = IF Head(todo) \in Failing THEN "failed" ELSE "new"]
  /\ todo' = Tail(todo)
  /\ main' = IF Tail(todo) = << >> THEN "rfb" ELSE "create"
  /\ MainKeeps(<<terminate, sock, environment, lcdInfo, stray>>)

\* The RFB handshake, the encodings and the first update request.
MainInitialise ==
  /\ main = "rfb"
  /\ \/ main' = "loop" /\ UNCHANGED <<todo, terminate>>
     \/ Cleanup
  /\ MainKeeps(<<thread, sock, environment, lcdInfo, stray>>)

\* The user quits, or the RFB connection fails.  Main waits within the loop, so
\* terminate may have been set since it was looked at.
MainQuit ==
  /\ main = "loop"
  /\ Cleanup
  /\ MainKeeps(<<thread, sock, environment, lcdInfo, stray>>)

ToggleLCD ==
  /\ main = "loop"
  /\ lcdInfo' = ~ lcdInfo
  /\ MainKeeps(<<main, todo, terminate, thread, sock, environment, stray>>)

\* The loop finds terminate set: plugin_exec returns, and ctx with it.
MainLeave ==
  /\ main = "loop" /\ terminate
  /\ main' = "returned" /\ ctx' = "gone"
  /\ MainKeeps(<<todo, terminate, thread, sock, rings, devices, zapit, lcdInfo, stray>>)

\* One socket after the other: the pointer is tested, then Shutdown is called.
CleanupLook ==
  /\ main = "look" /\ todo # << >>
  /\ IF sock[Head(todo)].ptr = "null"
     THEN main' = "look" /\ todo' = Tail(todo)
     ELSE main' = "shutdown" /\ UNCHANGED todo
  /\ MainKeeps(<<terminate, thread, sock, environment, lcdInfo, stray>>)

\* Mutant: m_Terminate is not set.
ShutDownOnly(s) ==
  IF sock[s].ptr = "live"
  THEN sock' = [sock EXCEPT ![s].shut = sock[s].open] /\ UNCHANGED stray
  ELSE stray' = stray \cup {"socket"} /\ UNCHANGED sock

\* Shutdown sets m_Terminate, then shuts the descriptor down.
ShutDown(s) ==
  IF sock[s].ptr = "live"
  THEN /\ sock' = [sock EXCEPT ![s].term = TRUE, ![s].shut = sock[s].open]
       /\ UNCHANGED stray
  ELSE stray' = stray \cup {"socket"} /\ UNCHANGED sock

CleanupShutdown ==
  /\ main = "shutdown"
  /\ ShutDown(Head(todo))
  /\ main' = "look" /\ todo' = Tail(todo)
  /\ MainKeeps(<<terminate, thread, environment, lcdInfo>>)

CleanupJoins ==
  /\ main = "look" /\ todo = << >>
  /\ main' = "join" /\ todo' = Joins
  /\ MainKeeps(<<terminate, thread, sock, environment, lcdInfo, stray>>)

\* Mutant: the receiver is not waited for.
OverUnlessReceiver(t) == thread[t] \in {"none", "failed", "ended"} \/ t = "receiver"

\* A thread without a handle is not joined.
Over(t) == thread[t] \in {"none", "failed", "ended"}

CleanupJoin ==
  /\ main = "join" /\ todo # << >>
  /\ Over(Head(todo))
  /\ todo' = Tail(todo)
  /\ MainKeeps(<<main, terminate, thread, sock, environment, lcdInfo, stray>>)

\* Mutant: Zapit is left in standby.
CleanupReleaseSilent ==
  /\ main = "join" /\ todo = << >>
  /\ rings' = "freed" /\ devices' = "closed" /\ ctx' = "gone"
  /\ main' = "returned"
  /\ MainKeeps(<<todo, terminate, thread, sock, zapit, lcdInfo, stray>>)

\* The rings are freed, the devices closed, ctx cleared and Zapit resumed.
CleanupRelease ==
  /\ main = "join" /\ todo = << >>
  /\ rings' = "freed" /\ devices' = "closed" /\ ctx' = "gone" /\ zapit' = "playing"
  /\ main' = "returned"
  /\ MainKeeps(<<todo, terminate, thread, sock, lcdInfo, stray>>)

Cleaning ==
  CleanupLook \/ CleanupShutdown \/ CleanupJoins \/ CleanupJoin \/ CleanupRelease

Main ==
  \/ MainSelect \/ MainOpenDevices \/ MainConnect \/ CreateThread
  \/ MainInitialise \/ MainQuit \/ ToggleLCD \/ MainLeave \/ Cleaning

--------------------------------------------------------------------------------
(***************************************************************************)
(* The server: it closes a connection, and it sends to the LCD or not.     *)
(***************************************************************************)
ServerCloses(s) ==
  /\ s \in Leaving /\ sock[s].open /\ ~ sock[s].eof
  /\ sock' = [sock EXCEPT ![s].eof = TRUE]
  /\ UNCHANGED <<main, todo, terminate, thread, environment, started, heard,
                 lcdInfo, refused, stray>>

Server == (\E s \in Leaving : ServerCloses(s)) \/ LcdGet(TRUE)

Next == Main \/ Control \/ Receiver \/ Remux \/ Player \/ Lcd \/ Server

Spec == Init /\ [][Next]_vars

\* Every thread runs, and polls with timeouts; nothing is assumed of the user,
\* nor of a server: a blocking recv may wait for ever.
FairSpec ==
  /\ Spec
  /\ WF_vars(Cleaning) /\ WF_vars(CreateThread)
  /\ WF_vars(Control) /\ WF_vars(Receiver) /\ WF_vars(Lcd)
  /\ WF_vars(LoopEnds("remux", "ended")) /\ WF_vars(RemuxRequest) /\ WF_vars(RemuxStart)
  /\ WF_vars(LoopEnds("player", "ended")) /\ WF_vars(PlayerStart)

--------------------------------------------------------------------------------
(***************************************************************************)
(* Properties.                                                             *)
(***************************************************************************)
ThreadStates ==
  {"none", "failed", "new", "open", "loop", "get", "still", "request", "drop",
   "dropped", "close", "clear", "ended"}

SocketObjects ==
  [ptr : {"null", "live", "dangling"}, open : BOOLEAN, term : BOOLEAN,
   shut : BOOLEAN, eof : BOOLEAN]

TypeOK ==
  /\ main \in {"select", "dvb", "connect", "create", "rfb", "loop", "look",
               "shutdown", "join", "returned"}
  /\ todo \in Seq(Threads \cup Sockets)
  /\ thread \in [Threads -> ThreadStates]
  /\ sock \in [Sockets -> SocketObjects]
  /\ \A s \in Sockets : sock[s].open => sock[s].ptr = "live"
  /\ rings \in {"none", "ready", "freed"} /\ ctx \in {"none", "set", "gone"}
  /\ devices \in {"open", "closed"} /\ zapit \in {"playing", "standby"}
  /\ {terminate, started, heard, lcdInfo, refused} \subseteq BOOLEAN
  /\ stray \subseteq {"ctx", "playstate", "rings", "socket"}

\* cleanup_threads joins before it frees (vdrviewer.cpp:934-947): no thread ever
\* looks at a ring that is not there.
RingsOutliveThreads == "rings" \notin stray

\* As long as the session goes on, no thread uses a socket object that another
\* one has deleted; a playstate nobody has written yet can make remux do it.
SocketsOutliveUsers == "socket" \in stray => terminate \/ "playstate" \in stray

\* plugin_exec returns with the threads over, the devices closed and Zapit back
\* (vdrviewer.cpp:956-995), unless the receiver could not connect (1182).
LeavesClean ==
  main = "returned" /\ ~ refused =>
    /\ \A t \in Threads : Over(t)
    /\ devices = "closed" /\ zapit = "playing"

\* Once begun, the cleanup ends: the reads of the three connections are woken up
\* in whatever state they are.  Only a still picture can hold it up, whose loops
\* wait for threads that are gone (vdrviewer.cpp:1122-1130).
CleanupEnds == main = "look" ~> (main = "returned" \/ thread["control"] = "still")
================================================================================
