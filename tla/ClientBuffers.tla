---------------------------- MODULE ClientBuffers ----------------------------
(***************************************************************************)
(* What connects the server to browsers: handle_websocket, broadcast(),    *)
(* cleanup_client() and the WebSocketMessageBuffer of each client id.      *)
(*                                                                         *)
(* The container registers one buffer per client id.  The buffer that the  *)
(* handler of socket s creates is named s and sends to s for ever.  Buffers *)
(* are created with the DROP strategy, so putting into one never suspends  *)
(* and a whole broadcast is one step; cleaning up suspends in shutdown().  *)
(***************************************************************************)
EXTENDS Integers, Sequences, SequencesExt

CONSTANTS
    Sockets,        \* connections
    Clients,        \* client ids
    Messages,       \* each is broadcast once, or sent once as a snapshot
    None,           \* no client, no buffer, no message
    MaxSize,        \* maxsize of a buffer
    Sharing         \* when a browser may connect with an id already used

\* Nothing keeps two connections from one id.  "tabs": at any time, as tabs and
\* components do that use the page's default id; "reconnect": only when the old
\* connection is broken, noticed by the server or not.
ASSUME SharingAssumption == Sharing \in {"reconnect", "tabs"}
ASSUME NoneAssumption == None \notin Sockets \cup Clients \cup Messages
ASSUME SizeAssumption == MaxSize \in Nat \ {0}

VARIABLES
    conn,       \* where the handler of each socket is
    up,         \* sockets the network connects
    client,     \* the client id of each socket
    mine,       \* the buffer each handler got
    victim,     \* the buffer its cleanup shuts down
    registry,   \* container.state.client_buffers
    running,    \* buffers that accept messages
    queue,      \* queued messages of each buffer
    sending,    \* the message in send_json()
    sender,     \* buffers whose sender task is alive
    used,       \* messages sent so far
    shared,     \* history: sockets whose id another one ever used beside them
    snapshots,  \* history: the snapshot messages sent for each socket
    accepted,   \* history: what each buffer accepted
    received    \* history: what arrived over each socket

connVars == <<conn, up, client, mine, victim>>
taskVars == <<registry, running, sender>>
bufVars == <<queue, sending>>
histVars == <<used, shared, snapshots, accepted, received>>
vars == <<connVars, taskVars, bufVars, histVars>>

TypeOK ==
    /\ conn \in [Sockets -> {"new", "open", "draining", "removing", "closed"}]
    /\ up \subseteq Sockets
    /\ client \in [Sockets -> Clients \cup {None}]
    /\ mine \in [Sockets -> Sockets \cup {None}]
    /\ victim \in [Sockets -> Sockets \cup {None}]
    /\ registry \in [Clients -> Sockets \cup {None}]
    /\ running \subseteq Sockets /\ sender \subseteq Sockets
    /\ queue \in [Sockets -> Seq(Messages)]
    /\ \A b \in Sockets : Len(queue[b]) <= MaxSize
    /\ sending \in [Sockets -> Messages \cup {None}]
    /\ used \subseteq Messages /\ shared \subseteq Sockets
    /\ snapshots \in [Sockets -> SUBSET Messages]
    /\ accepted \in [Sockets -> Seq(Messages)]
    /\ received \in [Sockets -> Seq(Messages)]

Init ==
    /\ conn = [s \in Sockets |-> "new"] /\ up = {}
    /\ client = [s \in Sockets |-> None]
    /\ mine = [s \in Sockets |-> None]
    /\ victim = [s \in Sockets |-> None]
    /\ registry = [c \in Clients |-> None]
    /\ running = {} /\ sender = {}
    /\ queue = [s \in Sockets |-> <<>>]
    /\ sending = [s \in Sockets |-> None]
    /\ used = {} /\ shared = {} /\ snapshots = [s \in Sockets |-> {}]
    /\ accepted = [s \in Sockets |-> <<>>]
    /\ received = [s \in Sockets |-> <<>>]
-----------------------------------------------------------------------------
MayUse(c) ==
    Sharing = "reconnect" => \A t \in up : client[t] # c

\* The connections of a client id whose handlers are not done.
Others(c) == {t \in Sockets : client[t] = c /\ conn[t] # "closed"}

\* accept() and _get_or_create_buffer(): a registered buffer is used as it is.
Connect(s, c) ==
    /\ conn[s] = "new" /\ MayUse(c)
    /\ conn' = [conn EXCEPT ![s] = "open"]
    /\ up' = up \cup {s}
    /\ client' = [client EXCEPT ![s] = c]
    /\ IF registry[c] = None
       THEN /\ mine' = [mine EXCEPT ![s] = s]
            /\ registry' = [registry EXCEPT ![c] = s]
            /\ running' = running \cup {s}
            /\ sender' = sender \cup {s}
       ELSE /\ mine' = [mine EXCEPT ![s] = registry[c]]
            /\ UNCHANGED taskVars
    /\ shared' = IF Others(c) = {} THEN shared ELSE shared \cup Others(c) \cup {s}
    /\ UNCHANGED <<victim, bufVars, used, snapshots, accepted, received>>

\* The buffers in B that take a message; the others drop it.
Takers(B) == {b \in B \cap running : Len(queue[b]) < MaxSize}

Give(m, B) ==
    /\ m \notin used /\ used' = used \cup {m}
    /\ queue' = [b \in Sockets |->
                    IF b \in Takers(B) THEN Append(queue[b], m) ELSE queue[b]]
    /\ accepted' = [b \in Sockets |->
                    IF b \in Takers(B) THEN Append(accepted[b], m) ELSE accepted[b]]
    /\ UNCHANGED <<connVars, taskVars, sending, shared, received>>

\* broadcast(): to every registered buffer.
Broadcast(m) ==
    /\ Give(m, {registry[c] : c \in Clients} \ {None})
    /\ UNCHANGED snapshots

\* The snapshot goes to the client's registered buffer, as send_to_client()
\* would look it up (mutant).
SubscribeBroadcasts(s, m) ==
    /\ conn[s] = "open" /\ s \in up
    /\ snapshots' = [snapshots EXCEPT ![s] = @ \cup {m}]
    /\ Give(m, {registry[c] : c \in Clients} \ {None})

\* A "subscribe" message: the handler answers through the buffer it got.
Subscribe(s, m) ==
    /\ conn[s] = "open" /\ s \in up
    /\ snapshots' = [snapshots EXCEPT ![s] = @ \cup {m}]
    /\ Give(m, {mine[s]})
-----------------------------------------------------------------------------
\* A sender task that runs for the first time when its buffer has stopped
\* returns at once; until it takes a message one that began earlier looks alike.
SenderQuits(b) ==
    /\ b \in sender \ running /\ sending[b] = None /\ queue[b] = accepted[b]
    /\ sender' = sender \ {b}
    /\ UNCHANGED <<connVars, registry, running, bufVars, histVars>>

\* The sender task takes the next message and starts to send it.
StartSend(b) ==
    /\ b \in sender /\ sending[b] = None /\ queue[b] # <<>>
    /\ sending' = [sending EXCEPT ![b] = Head(queue[b])]
    /\ queue' = [queue EXCEPT ![b] = Tail(@)]
    /\ UNCHANGED <<connVars, taskVars, histVars>>

Arrives(b) == received' = [received EXCEPT ![b] = Append(@, sending[b])]

\* The sender does not survive an error (mutant).
EndSendOnce(b) ==
    /\ b \in sender /\ sending[b] # None
    /\ sending' = [sending EXCEPT ![b] = None]
    /\ IF b \in up THEN Arrives(b) ELSE UNCHANGED received
    /\ sender' = sender \ {b}
    /\ UNCHANGED <<connVars, registry, running, queue, used, shared, snapshots, accepted>>

\* A message that was sent is queued for a retry (mutant).
EndSendRetries(b) ==
    /\ b \in sender /\ sending[b] # None /\ Len(queue[b]) < MaxSize
    /\ sending' = [sending EXCEPT ![b] = None]
    /\ Arrives(b)
    /\ queue' = [queue EXCEPT ![b] = Append(@, sending[b])]
    /\ UNCHANGED <<connVars, taskVars, used, shared, snapshots, accepted>>

\* send_json() returns, or raises on a broken connection: the exception is
\* only logged.
EndSend(b) ==
    /\ b \in sender /\ sending[b] # None
    /\ sending' = [sending EXCEPT ![b] = None]
    /\ IF b \in up THEN Arrives(b) ELSE UNCHANGED received
    /\ UNCHANGED <<connVars, taskVars, queue, used, shared, snapshots, accepted>>
-----------------------------------------------------------------------------
\* The network, the browser or the server's exit ends a connection.
Break(s) ==
    /\ s \in up
    /\ up' = up \ {s}
    /\ UNCHANGED <<conn, client, mine, victim, taskVars, bufVars, histVars>>

\* The handler's receive fails and it calls cleanup_client(): the buffer
\* registered for its id, whoever created it, stops accepting messages.  A
\* buffer that has already stopped is only removed.
HandlerEnds(s) ==
    LET b == registry[client[s]] IN
    /\ conn[s] = "open" /\ s \notin up
    /\ IF b \in running
       THEN /\ conn' = [conn EXCEPT ![s] = "draining"]
            /\ victim' = [victim EXCEPT ![s] = b]
            /\ running' = running \ {b}
            /\ UNCHANGED registry
       ELSE /\ conn' = [conn EXCEPT ![s] = "closed"]
            /\ registry' = [registry EXCEPT ![client[s]] = None]
            /\ UNCHANGED <<victim, running>>
    /\ UNCHANGED <<up, client, mine, sender, bufVars, histVars>>

\* The sender task is left alone (mutant).
CancelSenderNot(s) ==
    /\ conn[s] = "draining"
    /\ conn' = [conn EXCEPT ![s] = "removing"]
    /\ UNCHANGED <<up, client, mine, victim, taskVars, bufVars, histVars>>

\* shutdown() awaits the sender task without cancelling it (mutant).
CancelSenderWaits(s) ==
    /\ conn[s] = "draining" /\ victim[s] \notin sender
    /\ conn' = [conn EXCEPT ![s] = "removing"]
    /\ UNCHANGED <<up, client, mine, victim, taskVars, bufVars, histVars>>

\* The drain loop ends, on an empty queue or after five seconds, and the sender
\* task is cancelled where it is; what it was sending may have been written.
CancelSender(s) ==
    LET b == victim[s] IN
    /\ conn[s] = "draining"
    /\ conn' = [conn EXCEPT ![s] = "removing"]
    /\ sender' = sender \ {b}
    /\ sending' = [sending EXCEPT ![b] = None]
    /\ \/ UNCHANGED received
       \/ b \in up /\ sending[b] # None /\ Arrives(b)
    /\ UNCHANGED <<up, client, mine, victim, registry, running, queue>>
    /\ UNCHANGED <<used, shared, snapshots, accepted>>

\* The stopped buffer stays registered (mutant).
RemoveBufferNot(s) ==
    /\ conn[s] = "removing"
    /\ conn' = [conn EXCEPT ![s] = "closed"]
    /\ UNCHANGED <<up, client, mine, victim, taskVars, bufVars, histVars>>

\* shutdown() has returned: whatever is now registered for the id is removed.
RemoveBuffer(s) ==
    /\ conn[s] = "removing"
    /\ conn' = [conn EXCEPT ![s] = "closed"]
    /\ registry' = [registry EXCEPT ![client[s]] = None]
    /\ UNCHANGED <<up, client, mine, victim, running, sender, bufVars, histVars>>
-----------------------------------------------------------------------------
Next ==
    \/ \E s \in Sockets, c \in Clients : Connect(s, c)
    \/ \E m \in Messages : Broadcast(m)
    \/ \E s \in Sockets, m \in Messages : Subscribe(s, m)
    \/ \E s \in Sockets :
        \/ SenderQuits(s) \/ StartSend(s) \/ EndSend(s) \/ Break(s)
        \/ HandlerEnds(s) \/ CancelSender(s) \/ RemoveBuffer(s)

Spec == Init /\ [][Next]_vars

\* The event loop runs every ready task; send_json() returns or raises, and a
\* server learns of a dead connection (keepalive).
Fairness ==
    \A s \in Sockets :
        /\ WF_vars(StartSend(s)) /\ WF_vars(EndSend(s))
        /\ WF_vars(HandlerEnds(s))
        /\ WF_vars(CancelSender(s)) /\ WF_vars(RemoveBuffer(s))

FairSpec == Spec /\ Fairness
-----------------------------------------------------------------------------
InFlight(b) == IF sending[b] = None THEN <<>> ELSE <<sending[b]>>

\* An open connection is served, whatever connections of its client were there
\* before: it has a buffer of its own, which is the one broadcast() finds,
\* accepts messages and has a sender task.  What deprives it of that is another
\* connection that used the id beside it, even while that one was cleaned up.
\* (_get_or_create_buffer against the cleanup of earlier connections.)
OpenIsServed ==
    \A s \in Sockets \ shared : conn[s] = "open" =>
        /\ mine[s] = s /\ registry[client[s]] = s
        /\ s \in running \cap sender

\* What arrived is what the buffer accepted first, in that order, whoever shut
\* the buffer down in the middle of it; and as long as the connection is up and
\* the sender task lives, the rest is in flight or queued: nothing is lost,
\* doubled or overtaken.  (send(), _sender_loop() and _send_message().)
DeliveredInOrder ==
    \A s \in Sockets :
        /\ IsPrefix(received[s], accepted[s])
        /\ s \in up \cap sender =>
              received[s] \o InFlight(s) \o queue[s] = accepted[s]

\* A snapshot is seen by nobody but the connection that asked for it, and by
\* another one only if that has the same client id and both used it at a time.
\* (The "subscribe" branch of handle_websocket.)
SnapshotIsPrivate ==
    \A s, t \in Sockets :
        snapshots[s] \cap ToSet(received[t]) # {} =>
            t = s \/ (s \in shared /\ client[t] = client[s])

\* A closed connection leaves nothing behind: no registered buffer, and unless
\* its id was shared no buffer that accepts messages and no sender task.
\* (cleanup_client and shutdown().)
ClosedLeavesNothing ==
    \A s \in Sockets : conn[s] = "closed" =>
        /\ \A c \in Clients : registry[c] # s
        /\ s \notin shared => s \notin running /\ s \notin sender

\* What a buffer accepts reaches the browser unless the connection breaks or
\* the buffer is shut down, which another connection of the client may do.
AcceptedArrives ==
    \A s \in Sockets, m \in Messages :
        m \in ToSet(accepted[s]) ~>
            (m \in ToSet(received[s]) \/ s \notin up \/ s \notin running)

\* A handler whose connection broke finishes its cleanup.
BrokenIsCleanedUp ==
    \A s \in Sockets :
        (conn[s] = "open" /\ s \notin up) ~> (conn[s] = "closed")

\* "Messages wait in the buffer and are sent when the connection is restored"
\* (openspec/specs/websocket-message-buffer): a browser that reconnected has,
\* once the server is done with its old connections, a buffer to send from.
RestoredIsServed == \A s \in up :
    /\ conn[s] = "open"
    /\ \A t \in Sockets \ {s} : client[t] = client[s] => conn[t] = "closed"
    => registry[client[s]] \in running
=============================================================================
