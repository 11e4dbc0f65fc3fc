------------------------------ MODULE Service -------------------------------
(***************************************************************************)
(* P2pService and P2pHandle of network/mod.rs: the commands a handle puts  *)
(* in a bounded channel, the event loop that takes turns between them and  *)
(* the swarm, and the events it broadcasts.  Around them the two tasks of  *)
(* a node that hold a handle: the consensus loop, which publishes, and     *)
(* run_sync_loop, which asks for the peers, subscribes, sends a request    *)
(* and waits for its answer among all events.                              *)
(*                                                                         *)
(* The peers are those of Network.  Nothing in a node calls auto_ban or    *)
(* looks at a score, so those actions are left to Network.                 *)
(*                                                                         *)
(* Simplifications.                                                        *)
(*  - A message is its kind and its size; libp2p (external) carries it or  *)
(*    does not.                                                            *)
(*  - The broadcast channel keeps the last EVENTS events.  The model keeps *)
(*    them all and lets a receiver reach only those.                       *)
(***************************************************************************)
EXTENDS Network, Sequences

CONSTANTS
  Messages,         \* what is published: a kind and an encoded size
  max_message_size, \* of the topic of each kind
  COMMANDS,         \* capacity of the command channel
  EVENTS,           \* capacity of the broadcast channel
  NoPeer,
  MaxEvents         \* bound: events broadcast

ASSUME ServiceAssumption ==
  COMMANDS \in Nat \ {0} /\ EVENTS \in Nat \ {0} /\ NoPeer \notin Peers

VARIABLES
  running,     \* the event loop's task; FALSE from the start for dummy_p2p_handle
  commands,    \* cmd_tx to cmd_rx
  published,   \* messages gossipsub took
  refused,     \* messages gossipsub returned an error for: nobody subscribed, say
  requested,   \* peers that a sync request was sent to and that have not answered
  events,      \* event_tx: every event so far
  syncing,     \* run_sync_loop: idle, peers, send or wait
  peer,        \* whom it asks
  next,        \* the event its receiver reads next
  due          \* history: the first answer since its request was handed over, or 0

network == <<connections, connected_peers, score, banned_at, height, history>>
task == <<syncing, peer, next, due>>
gossiped == <<published, refused>>
service == <<running, commands, gossiped, requested, events>>
allvars == <<network, service, task>>

\* The kinds of gossip that have a topic.
Kinds == DOMAIN max_message_size

\* Mutant of validate_size: the limit itself is too large.
validate_size_strict(m) == m.size < max_message_size[m.kind]

\* standard_topics: each kind has a topic and the topic a limit.
validate_size(m) == m.size <= max_message_size[m.kind]

ServiceInit ==
  /\ Init
  /\ running \in BOOLEAN
  /\ commands = <<>> /\ published = {} /\ refused = {} /\ requested = {} /\ events = <<>>
  /\ syncing = "idle" /\ peer = NoPeer /\ next = 0 /\ due = 0

-----------------------------------------------------------------------------
(* The handle.  A send waits for room, and fails once the loop is gone.    *)

Room == running /\ Len(commands) < COMMANDS

Send(c) == Room /\ commands' = Append(commands, c)

\* publish_tx, publish_block, publish_vote, publish_evidence.
Publish(m) ==
  /\ Send([op |-> "publish", message |-> m])
  /\ UNCHANGED <<network, running, gossiped, requested, events, task>>

\* dial: a full channel is an error to the caller.
Dial ==
  /\ Send([op |-> "dial"])
  /\ UNCHANGED <<network, running, gossiped, requested, events, task>>

Shutdown ==
  /\ Send([op |-> "shutdown"])
  /\ UNCHANGED <<network, running, gossiped, requested, events, task>>

-----------------------------------------------------------------------------
(* The sync task's use of its handle.                                      *)

\* connected_peers: without a loop, nobody.
AskPeers ==
  /\ syncing = "idle"
  /\ Send([op |-> "peers"]) /\ syncing' = "peers"
  /\ UNCHANGED <<network, running, gossiped, requested, events, peer, next, due>>

\* The answer comes back; with peers, the task subscribes before it asks one.
PeersAnswered(answer) ==
  \/ answer = {} /\ syncing' = "idle" /\ UNCHANGED <<peer, next, due>>
  \/ /\ answer # {} /\ syncing' = "send" /\ peer' \in answer
     /\ next' = Len(events) + 1 /\ due' = 0

\* send_sync_request.
SendSyncRequest ==
  /\ syncing = "send"
  /\ \/ /\ Send([op |-> "sync", peer |-> peer]) /\ syncing' = "wait" /\ due' = 0
     \/ /\ ~running /\ syncing' = "idle" /\ UNCHANGED <<commands, due>>
  /\ UNCHANGED <<network, running, gossiped, requested, events, peer, next>>

\* Mutant of Oldest: after a lag the task subscribes anew.
OldestFresh == Len(events) + 1

\* The oldest event the channel still has.
Oldest == IF Len(events) > EVENTS THEN Len(events) - EVENTS + 1 ELSE 1

\* wait_for_sync_response: a receiver too far behind goes on with the oldest event kept.
Receive ==
  /\ syncing = "wait" /\ next <= Len(events)
  /\ \/ /\ next < Oldest
        /\ next' = Oldest /\ UNCHANGED syncing
     \/ /\ next >= Oldest /\ events[next] = [event |-> "SyncResponse", source |-> peer]
        /\ next' = next + 1 /\ syncing' = "idle"
     \/ /\ next >= Oldest /\ events[next] # [event |-> "SyncResponse", source |-> peer]
        /\ next' = next + 1 /\ UNCHANGED syncing
  /\ UNCHANGED <<network, service, peer, due>>

\* SYNC_TIMEOUT: another peer is asked with the same receiver, or the attempt ends.
TimeOut ==
  /\ syncing = "wait"
  /\ \/ syncing' = "send" /\ peer' \in Peers
     \/ syncing' = "idle" /\ UNCHANGED peer
  /\ UNCHANGED <<network, service, next, due>>

-----------------------------------------------------------------------------
(* The event loop: commands.                                               *)

\* The bytes to send, unless they are too many for the topic.
prepare_gossip_message(m) == IF validate_size(m) THEN {m} ELSE {}

\* What does not fit and what gossipsub's publish refuses is dropped with a warning;
\* nobody tries again.
Gossiped(m) ==
  \/ published' = published \cup prepare_gossip_message(m) /\ UNCHANGED refused
  \/ refused' = refused \cup prepare_gossip_message(m) /\ UNCHANGED published

\* Mutant of StopLoop: what is queued stays.
StopLoopKeepQueue ==
  /\ running' = FALSE /\ requested' = {}
  /\ connections' = [p \in Peers |-> 0] /\ connected_peers' = {}
  /\ UNCHANGED <<commands, task, gossiped, events, score, banned_at, height, history>>

\* Shutdown: the loop's task ends and drops the swarm and what is queued, and with a
\* query its oneshot sender: connected_peers reads that as no peers.
StopLoop ==
  /\ running' = FALSE /\ commands' = <<>> /\ requested' = {}
  /\ connections' = [p \in Peers |-> 0] /\ connected_peers' = {}
  /\ IF syncing = "peers" THEN PeersAnswered({}) ELSE UNCHANGED task
  /\ UNCHANGED <<gossiped, events, score, banned_at, height, history>>

HandleCommand ==
  LET c == Head(commands) IN
  /\ running /\ commands # <<>>
  /\ \/ /\ c.op = "shutdown"
        /\ StopLoop
     \/ /\ c.op # "shutdown"
        /\ commands' = Tail(commands)
        /\ IF c.op = "publish" THEN Gossiped(c.message) ELSE UNCHANGED gossiped
        /\ IF c.op = "peers" THEN PeersAnswered(connected_peers) ELSE UNCHANGED task
        /\ IF c.op = "sync" THEN requested' = requested \cup {c.peer} ELSE UNCHANGED requested
        /\ UNCHANGED <<network, running, events>>

-----------------------------------------------------------------------------
(* The event loop: the swarm.                                              *)

Broadcast(kind, p) ==
  /\ Len(events) < MaxEvents
  /\ events' = Append(events, [event |-> kind, source |-> p])

\* One arm per kind of gossip: evidence is passed on unscored, the undecodable not at all.
HandleGossip(p, kind) ==
  /\ running
  /\ \/ kind \in DOMAIN EventOf /\ Gossip(p, kind)
     \/ kind = "evidence" /\ connections[p] > 0 /\ UNCHANGED network
  /\ IF kind = "undecodable" THEN UNCHANGED events ELSE Broadcast(kind, p)
  /\ UNCHANGED <<running, commands, gossiped, requested, task>>

HandleSyncResponse(p) ==
  /\ running /\ p \in requested /\ connections[p] > 0
  /\ Broadcast("SyncResponse", p)
  /\ requested' = requested \ {p}
  /\ due' = IF syncing = "wait" /\ peer = p /\ due = 0 THEN Len(events) + 1 ELSE due
  /\ UNCHANGED <<network, running, commands, gossiped, syncing, peer, next>>

\* OutboundFailure: a warning.
HandleFailure(p) ==
  /\ running /\ p \in requested
  /\ requested' = requested \ {p}
  /\ UNCHANGED <<network, running, commands, gossiped, events, task>>

HandleConnection(p) ==
  /\ running
  /\ ConnectionEstablished(p) \/ ConnectionClosed(p)
  /\ UNCHANGED <<service, task>>

-----------------------------------------------------------------------------
ServiceNext ==
  \/ \E m \in Messages : Publish(m)
  \/ Dial \/ Shutdown
  \/ AskPeers \/ SendSyncRequest \/ Receive \/ TimeOut
  \/ HandleCommand
  \/ \E p \in Peers, kind \in Kinds \cup {"undecodable"} : HandleGossip(p, kind)
  \/ \E p \in Peers : HandleSyncResponse(p) \/ HandleFailure(p) \/ HandleConnection(p)

\* select! picks among the ready branches at random: a command is not put off for ever.
ServiceSpec ==
  ServiceInit /\ [][ServiceNext]_allvars
  /\ WF_allvars(HandleCommand)

-----------------------------------------------------------------------------
(* Properties.                                                             *)

\* connected_peers returns: its query is answered by the loop or, if a shutdown got in
\* before it, by the drop of what is queued.
PeersQueryEnds == syncing = "peers" ~> syncing # "peers"

\* A message the handle has taken and whose encoding fits its topic, a block the node
\* has produced above all, is given to gossipsub, which takes it or refuses it, or the
\* loop is shut down.
PublishIsTried ==
  \A m \in Messages :
    (\E i \in DOMAIN commands : commands[i] = [op |-> "publish", message |-> m])
      ~> (m \in published \cup refused \/ m.size > max_message_size[m.kind] \/ ~running)

\* The answer to the request the task waits for is one its receiver has still to reach,
\* or later events have pushed it out of the channel: the receiver was made before the
\* request was sent, and neither a lag nor a time-out skips what is kept.
AnswerNotMissed ==
  syncing = "wait" /\ due > 0 => next <= due \/ due + EVENTS <= Len(events)
=============================================================================
