------------------------------- MODULE Gateway -------------------------------
(***************************************************************************)
(* The event stream of the API: the orchestrator's methods, which append   *)
(* events and then broadcast them one by one, WsGateway                    *)
(* (infra/ws_gateway.rs), and the task of a websocket, handle_socket       *)
(* (api/ws.rs), which forwards them.                                       *)
(*                                                                         *)
(* External are the broadcast channel of tokio - a ring of slots, each     *)
(* with the position of what it holds, and a position per receiver - its   *)
(* select! - a branch whose pattern does not match is disabled until the   *)
(* select is over - and the socket.  An event is its revision in the log,  *)
(* a position counts the events that entered the channel.  A client of the *)
(* model is one connection.                                                *)
(***************************************************************************)
EXTENDS Integers, Sequences, FiniteSets

CONSTANTS
    Handlers,   \* requests the orchestrator serves at the same time
    Clients,    \* websocket connections
    Capacity,   \* slots of the channel
    MaxInbox,   \* bound: frames of a client that wait to be read
    MaxEvents,  \* bound: events in the log
    MaxBatch    \* bound: events in an append

ASSUME CapacityAssumption == Capacity \in Nat \ {0}
ASSUME FeedBoundsAssumption == MaxInbox \in Nat /\ MaxEvents \in Nat /\ MaxBatch \in Nat

VARIABLES
    log,        \* log[r]: the first revision of the batch event r came with
    todo,       \* todo[h]: the events h has appended and not broadcast yet
    ring,       \* ring[s]: position and event of slot s
    sent,       \* the events that entered the channel, by position from 1
    task,       \* task[c]: where handle_socket is
    next,       \* next[c]: the position the receiver of c reads next
    sending,    \* sending[c]: the event that socket.send is given
    recvOff,    \* recvOff[c]: the select! c waits in has lost rx.recv()
    nextOff,    \* nextOff[c]: ... has lost socket.next()
    socket,     \* socket[c]: the connection as the client left it
    inbox,      \* inbox[c]: frames of the client not read yet
    reading,    \* reading[c]: the client takes what is sent to it
    got,        \* got[c]: the events written to the client
    hello,      \* hello[c]: the events sent when the client was greeted
    lagged      \* lagged[c]: rx.recv() has reported a lag

taskVars == <<task, next, sending, recvOff, nextOff, got, hello, lagged>>
netVars  == <<socket, inbox, reading>>
vars     == <<log, todo, ring, sent, taskVars, netVars>>

-----------------------------------------------------------------------------
(* The channel.  Positions start at 1; slot s of an empty ring holds none.  *)
End     == Len(sent) + 1
Slot(p) == p % Capacity

Receivers == {c \in Clients : task[c] \in {"hello", "select", "sending"}}

(* What rx.recv() finds at the receiver's position: its event, a newer one  *)
(* that has taken the slot, or nothing yet.                                 *)
Ready(c) == ring[Slot(next[c])].pos = next[c]
Lags(c)  == ring[Slot(next[c])].pos > next[c]
Oldest   == End - Capacity

Init ==
    /\ log = <<>>
    /\ todo = [h \in Handlers |-> <<>>]
    /\ ring = [s \in 0..(Capacity - 1) |-> [pos |-> 0, event |-> 0]]
    /\ sent = <<>>
    /\ task = [c \in Clients |-> "away"]
    /\ next = [c \in Clients |-> 0]
    /\ sending = [c \in Clients |-> 0]
    /\ recvOff = [c \in Clients |-> FALSE]
    /\ nextOff = [c \in Clients |-> FALSE]
    /\ socket = [c \in Clients |-> "open"]
    /\ inbox = [c \in Clients |-> 0]
    /\ reading = [c \in Clients |-> TRUE]
    /\ got = [c \in Clients |-> <<>>]
    /\ hello = [c \in Clients |-> 0]
    /\ lagged = [c \in Clients |-> FALSE]

-----------------------------------------------------------------------------
(* Writers.                                                                 *)
Batch(n) == [i \in 1..n |-> Len(log) + i]

(* Mutant of AppendEvents: goes on to the broadcast when append failed.     *)
AppendUnchecked(h, n) ==
    /\ todo[h] = <<>>
    /\ Len(log) + n <= MaxEvents
    /\ todo' = [todo EXCEPT ![h] = Batch(n)]
    /\ log' = log \o [i \in 1..n |-> Len(log) + 1] \/ UNCHANGED log
    /\ UNCHANGED <<ring, sent, taskVars, netVars>>

(* event_store.append(..).await?, then a loop of broadcast calls that no    *)
(* await interrupts; another handler's thread can run between two of them.  *)
AppendEvents(h, n) ==
    /\ todo[h] = <<>>
    /\ Len(log) + n <= MaxEvents
    /\ todo' = [todo EXCEPT ![h] = Batch(n)]
    /\ log' = log \o [i \in 1..n |-> Len(log) + 1]
    /\ UNCHANGED <<ring, sent, taskVars, netVars>>

(* A worker's batch, or one whose handler did not learn of the commit: in   *)
(* the log and never broadcast.                                             *)
AppendSilently(n) ==
    /\ Len(log) + n <= MaxEvents
    /\ log' = log \o [i \in 1..n |-> Len(log) + 1]
    /\ UNCHANGED <<todo, ring, sent, taskVars, netVars>>

(* Mutant of Broadcast: the events are popped from the end.                 *)
BroadcastPopped(h) ==
    /\ todo[h] # <<>>
    /\ todo' = [todo EXCEPT ![h] = SubSeq(@, 1, Len(@) - 1)]
    /\ IF Receivers = {}
         THEN UNCHANGED <<ring, sent>>
         ELSE LET e == todo[h][Len(todo[h])] IN
              /\ sent' = Append(sent, e)
              /\ ring' = [ring EXCEPT ![Slot(End)] = [pos |-> End, event |-> e]]
    /\ UNCHANGED <<log, taskVars, netVars>>

(* WsGateway::broadcast: with no receiver the event is refused and the      *)
(* error ignored.                                                           *)
Broadcast(h) ==
    /\ todo[h] # <<>>
    /\ todo' = [todo EXCEPT ![h] = Tail(@)]
    /\ IF Receivers = {}
         THEN UNCHANGED <<ring, sent>>
         ELSE /\ sent' = Append(sent, Head(todo[h]))
              /\ ring' = [ring EXCEPT ![Slot(End)] = [pos |-> End, event |-> Head(todo[h])]]
    /\ UNCHANGED <<log, taskVars, netVars>>

-----------------------------------------------------------------------------
(* The client and the network.                                              *)
Connected(c) == task[c] \in {"hello", "select", "sending"}

ClientSpeaks(c) ==
    /\ Connected(c) /\ socket[c] = "open" /\ inbox[c] < MaxInbox
    /\ inbox' = [inbox EXCEPT ![c] = @ + 1]
    /\ UNCHANGED <<log, todo, ring, sent, taskVars, socket, reading>>

(* A close frame is one more frame to read; after it the stream ends.  A    *)
(* connection that broke gives an error instead.                            *)
ClientCloses(c) ==
    /\ Connected(c) /\ socket[c] = "open"
    /\ socket' = [socket EXCEPT ![c] = "closed"]
    /\ inbox' = [inbox EXCEPT ![c] = @ + 1]
    /\ UNCHANGED <<log, todo, ring, sent, taskVars, reading>>

ConnectionBreaks(c) ==
    /\ Connected(c) /\ socket[c] = "open"
    /\ socket' = [socket EXCEPT ![c] = "broken"]
    /\ UNCHANGED <<log, todo, ring, sent, taskVars, inbox, reading>>

(* A client may stop to read, and its connection stays: TCP keeps a peer    *)
(* that answers although its window is closed.  What is sent goes on as     *)
(* long as buffers take it, see FairSpec.                                   *)
ClientStalls(c) ==
    /\ Connected(c) /\ socket[c] # "broken" /\ reading[c]
    /\ reading' = [reading EXCEPT ![c] = FALSE]
    /\ UNCHANGED <<log, todo, ring, sent, taskVars, socket, inbox>>

ClientResumes(c) ==
    /\ Connected(c) /\ socket[c] # "broken" /\ ~ reading[c]
    /\ reading' = [reading EXCEPT ![c] = TRUE]
    /\ UNCHANGED <<log, todo, ring, sent, taskVars, socket, inbox>>

-----------------------------------------------------------------------------
(* handle_socket.                                                           *)
Goto(c, l) == task' = [task EXCEPT ![c] = l]

(* The receiver is subscribed before the hello is sent.                     *)
Subscribe(c) ==
    /\ task[c] = "away"
    /\ next' = [next EXCEPT ![c] = End]
    /\ Goto(c, "hello")
    /\ UNCHANGED <<log, todo, ring, sent, sending, recvOff, nextOff, got, hello,
                   lagged, netVars>>

(* socket.send succeeds until the close has been read, and may succeed on a *)
(* broken connection; it may fail on any that is not open.                  *)
Hopeless(c) == socket[c] = "closed" /\ inbox[c] = 0

SendHello(c) ==
    /\ task[c] = "hello"
    /\ ~ Hopeless(c)
    /\ hello' = [hello EXCEPT ![c] = Len(sent)]
    /\ Goto(c, "select")
    /\ UNCHANGED <<log, todo, ring, sent, next, sending, recvOff, nextOff, got,
                   lagged, netVars>>

(* Mutants of SendEvent: the task subscribes anew for every turn of its     *)
(* loop; and of SendFails: the error is ignored.                            *)
SendThenSubscribe(c) ==
    /\ task[c] = "sending"
    /\ ~ Hopeless(c)
    /\ got' = [got EXCEPT ![c] = Append(@, sending[c])]
    /\ sending' = [sending EXCEPT ![c] = 0]
    /\ next' = [next EXCEPT ![c] = End]
    /\ Goto(c, "select")
    /\ UNCHANGED <<log, todo, ring, sent, recvOff, nextOff, hello, lagged, netVars>>
SendErrorIgnored(c) ==
    /\ task[c] \in {"hello", "sending"}
    /\ socket[c] # "open"
    /\ Goto(c, IF task[c] = "hello" THEN "gone" ELSE "select")
    /\ UNCHANGED <<log, todo, ring, sent, next, sending, recvOff, nextOff, got,
                   hello, lagged, netVars>>

SendEvent(c) ==
    /\ task[c] = "sending"
    /\ ~ Hopeless(c)
    /\ got' = [got EXCEPT ![c] = Append(@, sending[c])]
    /\ sending' = [sending EXCEPT ![c] = 0]
    /\ Goto(c, "select")
    /\ UNCHANGED <<log, todo, ring, sent, next, recvOff, nextOff, hello, lagged, netVars>>

SendFails(c) ==
    /\ task[c] \in {"hello", "sending"}
    /\ socket[c] # "open"
    /\ Goto(c, "gone")
    /\ UNCHANGED <<log, todo, ring, sent, next, sending, recvOff, nextOff, got,
                   hello, lagged, netVars>>

(* The end of a turn of the loop: a new select! has both branches.          *)
BothBranches(c) ==
    /\ recvOff' = [recvOff EXCEPT ![c] = FALSE]
    /\ nextOff' = [nextOff EXCEPT ![c] = FALSE]

(* Mutant of ReadFrame: goes on waiting in the same select!.                *)
ReadFrameOnly(c) ==
    /\ task[c] = "select" /\ ~ nextOff[c] /\ inbox[c] > 0
    /\ inbox' = [inbox EXCEPT ![c] = @ - 1]
    /\ UNCHANGED <<log, todo, ring, sent, taskVars, socket, reading>>

(* Some(Ok(_)) = socket.next(): whatever the client says is dropped.        *)
ReadFrame(c) ==
    /\ task[c] = "select" /\ ~ nextOff[c] /\ inbox[c] > 0
    /\ inbox' = [inbox EXCEPT ![c] = @ - 1]
    /\ BothBranches(c)
    /\ UNCHANGED <<log, todo, ring, sent, task, next, sending, got, hello, lagged,
                   socket, reading>>

(* Some(Err(_)): the task ends.                                             *)
ReadError(c) ==
    /\ task[c] = "select" /\ ~ nextOff[c] /\ inbox[c] = 0
    /\ socket[c] = "broken"
    /\ Goto(c, "gone")
    /\ UNCHANGED <<log, todo, ring, sent, next, sending, recvOff, nextOff, got,
                   hello, lagged, netVars>>

(* None: the branch is disabled; a select! without branches panics.         *)
StreamEnded(c) ==
    /\ task[c] = "select" /\ ~ nextOff[c] /\ Hopeless(c)
    /\ nextOff' = [nextOff EXCEPT ![c] = TRUE]
    /\ Goto(c, IF recvOff[c] THEN "gone" ELSE "select")
    /\ UNCHANGED <<log, todo, ring, sent, next, sending, recvOff, got, hello, lagged, netVars>>

(* Mutants of RecvEvent: the last event is kept until there is another; and *)
(* of RecvLagged: the receiver goes back instead of forward.                *)
RecvHoldsLast(c) ==
    /\ task[c] = "select" /\ ~ recvOff[c] /\ Ready(c) /\ next[c] + 1 < End
    /\ sending' = [sending EXCEPT ![c] = ring[Slot(next[c])].event]
    /\ next' = [next EXCEPT ![c] = @ + 1]
    /\ BothBranches(c)
    /\ Goto(c, "sending")
    /\ UNCHANGED <<log, todo, ring, sent, got, hello, lagged, netVars>>
RecvRewinds(c) ==
    /\ task[c] = "select" /\ ~ recvOff[c] /\ Lags(c)
    /\ next' = [next EXCEPT ![c] = @ - Capacity]
    /\ recvOff' = [recvOff EXCEPT ![c] = TRUE]
    /\ lagged' = [lagged EXCEPT ![c] = TRUE]
    /\ Goto(c, IF nextOff[c] THEN "gone" ELSE "select")
    /\ UNCHANGED <<log, todo, ring, sent, sending, nextOff, got, hello, netVars>>

(* Ok(event) = rx.recv().                                                   *)
RecvEvent(c) ==
    /\ task[c] = "select" /\ ~ recvOff[c] /\ Ready(c)
    /\ sending' = [sending EXCEPT ![c] = ring[Slot(next[c])].event]
    /\ next' = [next EXCEPT ![c] = @ + 1]
    /\ BothBranches(c)
    /\ Goto(c, "sending")
    /\ UNCHANGED <<log, todo, ring, sent, got, hello, lagged, netVars>>

(* Err(Lagged(_)): the receiver moves to the oldest event there is, and the *)
(* branch is disabled although events are waiting.                          *)
RecvLagged(c) ==
    /\ task[c] = "select" /\ ~ recvOff[c] /\ Lags(c)
    /\ next' = [next EXCEPT ![c] = Oldest]
    /\ recvOff' = [recvOff EXCEPT ![c] = TRUE]
    /\ lagged' = [lagged EXCEPT ![c] = TRUE]
    /\ Goto(c, IF nextOff[c] THEN "gone" ELSE "select")
    /\ UNCHANGED <<log, todo, ring, sent, sending, nextOff, got, hello, netVars>>

SendStep(c) == SendHello(c) \/ SendEvent(c) \/ SendFails(c)
SelectStep(c) ==
    \/ ReadFrame(c) \/ ReadError(c) \/ StreamEnded(c)
    \/ RecvEvent(c) \/ RecvLagged(c)
TaskStep(c) == SendStep(c) \/ SelectStep(c)

Next ==
    \/ \E h \in Handlers :
        \/ \E n \in 1..MaxBatch : AppendEvents(h, n)
        \/ Broadcast(h)
    \/ \E n \in 1..MaxBatch : AppendSilently(n)
    \/ \E c \in Clients :
        \/ ClientSpeaks(c) \/ ClientCloses(c) \/ ConnectionBreaks(c)
        \/ ClientStalls(c) \/ ClientResumes(c)
        \/ Subscribe(c)
        \/ TaskStep(c)

Spec == Init /\ [][Next]_vars

(* A send must return when the client reads, or when its connection has     *)
(* ended.  For a client that stays and does not read it need not: ws.rs     *)
(* awaits socket.send without a timeout.                                    *)
SendReturns(c) ==
    /\ reading[c] \/ Hopeless(c) \/ socket[c] = "broken"
    /\ SendStep(c)

(* A handler that appended broadcasts, and a task that waits in its select! *)
(* is polled, fairly to both branches (tokio polls them in random order).   *)
(* No client has to speak, to close or to read.                             *)
FairSpec ==
    /\ Spec
    /\ \A h \in Handlers : WF_vars(Broadcast(h))
    /\ \A c \in Clients :
        /\ WF_vars(SendReturns(c))
        /\ WF_vars(SelectStep(c))
        /\ SF_vars(RecvEvent(c) \/ RecvLagged(c))
        /\ SF_vars(ReadFrame(c))

-----------------------------------------------------------------------------
Range(f) == {f[x] : x \in DOMAIN f}

(* The variables have their types.                                          *)
TypeOK ==
    /\ log \in Seq(Nat \ {0}) /\ sent \in Seq(Nat \ {0})
    /\ todo \in [Handlers -> Seq(Nat \ {0})]
    /\ ring \in [0..(Capacity - 1) -> [pos : Nat, event : Nat]]
    /\ task \in [Clients -> {"away", "hello", "select", "sending", "gone"}]
    /\ next \in [Clients -> Nat] /\ sending \in [Clients -> Nat]
    /\ recvOff \in [Clients -> BOOLEAN] /\ nextOff \in [Clients -> BOOLEAN]
    /\ socket \in [Clients -> {"open", "closed", "broken"}]
    /\ inbox \in [Clients -> 0..(MaxInbox + 1)]
    /\ reading \in [Clients -> BOOLEAN]
    /\ got \in [Clients -> Seq(Nat \ {0})]
    /\ hello \in [Clients -> Nat] /\ lagged \in [Clients -> BOOLEAN]

(* What one request did reaches every client in the order in which it was   *)
(* stored and once (the loop of broadcast calls after append), although the *)
(* requests of several handlers mix, a client may lag, and slots are        *)
(* reused; the events of two requests may be swapped.                       *)
BatchesInOrder ==
    \A c \in Clients : \A i, j \in DOMAIN got[c] :
        i < j => /\ got[c][i] # got[c][j]
                 /\ log[got[c][i]] = log[got[c][j]] => got[c][i] < got[c][j]

(* A client that was greeted is given everything sent from then on, unless  *)
(* its receiver lagged by more than the channel holds (ws.rs subscribes     *)
(* before it says hello, and keeps one receiver).                           *)
GreetedMissNothing ==
    \A c \in Clients : task[c] \in {"select", "sending"} /\ ~ lagged[c] =>
        \A p \in (hello[c] + 1)..(next[c] - 1) :
            sent[p] \in Range(got[c]) \cup {sending[c]}

(* An event in the channel reaches a connected client, or the client lagged *)
(* and has not spoken since (ws.rs: the branch of rx.recv() is off until    *)
(* socket.next() answers), or the task waits in socket.send for a client    *)
(* that does not read, or it has ended.                                     *)
Behind(c)  == Connected(c) /\ (next[c] < End \/ task[c] = "sending")
Muted(c)   == task[c] = "select" /\ recvOff[c]
Stalled(c) == task[c] \in {"hello", "sending"} /\ ~ reading[c]
EventsReachClient ==
    \A c \in Clients : Behind(c) ~> ~ Behind(c) \/ Muted(c) \/ Stalled(c)

(* A client that lagged gets events again once it speaks.                   *)
SpeechUnmutes == \A c \in Clients : Muted(c) /\ inbox[c] > 0 ~> ~ Muted(c)

(* The task of a client whose close it has read does not outlive the        *)
(* next event: sending it fails, or the lag leaves the select! no branch.   *)
ClosedIsReaped == \A c \in Clients : Behind(c) /\ Hopeless(c) ~> task[c] = "gone"

(* The stream as a client may understand it.                                *)
Feed == INSTANCE EventFeed WITH stored <- Len(log), feed <- sent
ImplementsFeed == Feed!Spec

=============================================================================
