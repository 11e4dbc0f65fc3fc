---------------------------- MODULE NetworkProofs ---------------------------
(***************************************************************************)
(* Proofs about the network: the set of peers never outlives a connection  *)
(* and the clamp of adjust bounds what good behaviour buys (Network, also  *)
(* inside Service); no answer is skipped by the receiver that waits for it *)
(* (Service); the rate that passes is bounded (RateLimiter).               *)
(***************************************************************************)
EXTENDS Service, RateLimiter, SumsProofs, FiniteSetTheorems

NetworkTypeOK ==
  /\ connections \in [Peers -> Nat] /\ connected_peers \subseteq Peers
  /\ score \in [Peers -> Int] /\ banned_at \in [Peers -> Nat \cup {NoBan}]
  /\ height \in Nat
  /\ streak \in [Peers -> Nat] /\ invalid \in [Peers -> 0..MaxStreak]

\* Each undecodable message took its whole penalty off a score that was at most
\* MAX_SCORE, or the clamp at MIN_SCORE took effect.
PenaltiesTaken ==
  \A p \in Peers :
    score[p] <= MAX_SCORE - 10 * streak[p] \/ score[p] = MIN_SCORE

\* A score is never lower than the penalties explain, as far as they were counted.
ScoreEarned ==
  \A p \in Peers : invalid[p] # MaxStreak => score[p] >= -10 * invalid[p]

\* A ban, even one that has run out, was earned.
BansEarned ==
  \A p \in Peers :
    banned_at[p] # NoBan => -10 * invalid[p] < BAN_THRESHOLD \/ invalid[p] = MaxStreak

PeerInv ==
  NetworkTypeOK /\ ListedIsConnected /\ PenaltiesTaken /\ ScoreEarned /\ BansEarned

LEMMA Deltas ==
  /\ Delta["ValidBlockPropagated"] = 1 /\ Delta["ValidVotePropagated"] = 1
  /\ Delta["InvalidBlockGossiped"] = -10
  /\ EventOf["txs"] = "ValidBlockPropagated" /\ EventOf["block"] = "ValidBlockPropagated"
  /\ EventOf["vote"] = "ValidVotePropagated"
  /\ EventOf["undecodable"] = "InvalidBlockGossiped"
  /\ DOMAIN EventOf = {"txs", "block", "vote", "undecodable"}
BY DEF Delta, EventOf

LEMMA PeerInvInit == Init => PeerInv
BY ScoreAssumption DEF Init, PeerInv, NetworkTypeOK, ListedIsConnected, PenaltiesTaken, ScoreEarned, BansEarned

LEMMA PeerInvNext == PeerInv /\ [Next]_vars => PeerInv'
<1> SUFFICES ASSUME PeerInv, [Next]_vars PROVE PeerInv'
  OBVIOUS
<1> USE DEF PeerInv
<1>1. ASSUME NEW p \in Peers, ConnectionEstablished(p) PROVE PeerInv'
  BY <1>1 DEF ConnectionEstablished, history, NetworkTypeOK, ListedIsConnected, PenaltiesTaken, ScoreEarned, BansEarned
<1>2. ASSUME NEW p \in Peers, ConnectionClosed(p) PROVE PeerInv'
  BY <1>2 DEF ConnectionClosed, history, NetworkTypeOK, ListedIsConnected, PenaltiesTaken, ScoreEarned, BansEarned
<1>3. ASSUME NEW p \in Peers, NEW kind \in DOMAIN EventOf, Gossip(p, kind)
      PROVE  PeerInv'
  <2> DEFINE d == Delta[EventOf[kind]]
  <2>a. d \in {1, -10} /\ (d = -10 <=> kind = "undecodable")
    BY Deltas
  <2>b. score' = [score EXCEPT ![p] = Clamp(score[p] + d)]
    BY <1>3 DEF Gossip, apply_event, adjust
  <2> HIDE DEF d
  <2>0. /\ d \in {1, -10} /\ (d = -10 <=> kind = "undecodable")
        /\ score' = [score EXCEPT ![p] = Clamp(score[p] + d)]
    BY <2>a, <2>b
  <2>1. NetworkTypeOK' /\ ListedIsConnected'
    BY <1>3, <2>0, ScoreAssumption
    DEF Gossip, NetworkTypeOK, ListedIsConnected, Clamp, Counted
  <2>2. PenaltiesTaken'
    <3> SUFFICES ASSUME NEW q \in Peers
                 PROVE  \/ score'[q] <= MAX_SCORE - 10 * streak'[q]
                        \/ score'[q] = MIN_SCORE
      BY DEF PenaltiesTaken
    <3>0. score[q] <= MAX_SCORE - 10 * streak[q] \/ score[q] = MIN_SCORE
      BY DEF PenaltiesTaken
    <3>1. CASE q # p
      BY <1>3, <2>0, <3>0, <3>1 DEF Gossip, NetworkTypeOK
    <3>2. CASE q = p /\ kind # "undecodable"
      BY <1>3, <2>0, <3>2, ScoreAssumption DEF Gossip, NetworkTypeOK, Clamp
    <3>3. CASE q = p /\ kind = "undecodable"
      <4>1. score'[q] = Clamp(score[q] - 10)
        BY <2>0, <3>3 DEF NetworkTypeOK
      <4>2. streak'[q] \in Nat /\ streak'[q] <= streak[q] + 1
        BY <1>3, <3>3, ScoreAssumption DEF Gossip, NetworkTypeOK, Counted
      <4> QED BY <3>0, <4>1, <4>2, ScoreAssumption DEF NetworkTypeOK, Clamp
    <3> QED BY <3>1, <3>2, <3>3
  <2>3. ScoreEarned'
    <3> SUFFICES ASSUME NEW q \in Peers, invalid'[q] # MaxStreak
                 PROVE  score'[q] >= -10 * invalid'[q]
      BY DEF ScoreEarned
    <3>1. CASE q # p
      BY <1>3, <2>0, <3>1 DEF Gossip, NetworkTypeOK, ScoreEarned
    <3>2. CASE q = p /\ kind # "undecodable"
      BY <1>3, <2>0, <3>2, ScoreAssumption DEF Gossip, NetworkTypeOK, ScoreEarned, Clamp
    <3>3. CASE q = p /\ kind = "undecodable"
      <4>1. score'[q] = Clamp(score[q] - 10)
        BY <2>0, <3>3 DEF NetworkTypeOK
      <4>2. invalid'[q] = invalid[q] + 1 /\ invalid[q] # MaxStreak
        BY <1>3, <3>3, ScoreAssumption DEF Gossip, NetworkTypeOK, Counted
      <4>3. score[q] >= -10 * invalid[q] /\ score[q] \in Int /\ invalid[q] \in Nat
        BY <4>2, ScoreAssumption DEF ScoreEarned, NetworkTypeOK
      <4>4. /\ score'[q] \in Int
            /\ score'[q] >= score[q] - 10 \/ score'[q] = MAX_SCORE
        BY <4>1, <4>3, ScoreAssumption DEF Clamp
      <4> QED BY <4>2, <4>3, <4>4, ScoreAssumption
    <3> QED BY <3>1, <3>2, <3>3
  <2>4. BansEarned'
    BY <1>3, ScoreAssumption DEF Gossip, NetworkTypeOK, BansEarned, Counted
  <2> QED BY <2>1, <2>2, <2>3, <2>4
<1>4. CASE auto_ban
  <2>1. NetworkTypeOK' /\ ListedIsConnected' /\ PenaltiesTaken' /\ ScoreEarned'
    BY <1>4
    DEF auto_ban, history, NetworkTypeOK, ListedIsConnected, PenaltiesTaken, ScoreEarned
  <2>2. BansEarned'
    BY <1>4, ScoreAssumption
    DEF auto_ban, history, should_ban, NetworkTypeOK, ScoreEarned, BansEarned
  <2> QED BY <2>1, <2>2
<1>5. CASE AdvanceHeight
  BY <1>5 DEF AdvanceHeight, history, NetworkTypeOK, ListedIsConnected, PenaltiesTaken, ScoreEarned, BansEarned
<1>6. CASE UNCHANGED vars
  BY <1>6 DEF vars, NetworkTypeOK, ListedIsConnected, PenaltiesTaken, ScoreEarned, BansEarned
<1> QED BY <1>1, <1>2, <1>3, <1>4, <1>5, <1>6 DEF Next

\* Whatever the peers do and in whatever order their connections open and close,
\* connected_peers (network/mod.rs, handle_event) only names peers with an open
\* connection; a run of undecodable messages longer than MAX_SCORE can pay for
\* leaves a peer below BAN_THRESHOLD; and a peer that auto_ban banned has sent more
\* of them than the threshold allows (peer_score.rs).
THEOREM PeersSound == Spec => [](ListedIsConnected /\ TrustIsBounded /\ BannedForCause)
<1>1. PeerInv => ListedIsConnected /\ TrustIsBounded
  BY ScoreAssumption, Deltas
  DEF PeerInv, NetworkTypeOK, PenaltiesTaken, TrustIsBounded, should_ban
<1>2. PeerInv => BannedForCause
  BY Deltas, ScoreAssumption DEF PeerInv, NetworkTypeOK, BansEarned, BannedForCause, is_banned
<1> QED BY <1>1, <1>2, PeerInvInit, PeerInvNext, PTL DEF Spec

\* connected_peers names only peers with an open connection (handle_event).
THEOREM ListedIsConnectedHolds == Spec => []ListedIsConnected
BY PeersSound, PTL

\* Nobody is banned before its invalid messages exceed what the threshold allows
\* (PeerScoreRepo::adjust, auto_ban).
THEOREM BannedForCauseHolds == Spec => []BannedForCause
BY PeersSound, PTL

-----------------------------------------------------------------------------
(* The answer the sync task waits for.                                     *)

EventNames == DOMAIN EventOf \cup {"evidence", "SyncResponse"}

\* The receiver is never past the end of what was broadcast, and a due answer is an
\* event of the peer that is asked.
ReceiverOk ==
  /\ Len(events) \in Nat /\ next \in Nat /\ due \in Nat
  /\ events \in Seq([event : EventNames, source : Peers])
  /\ syncing \in {"send", "wait"} => next <= Len(events) + 1
  /\ syncing = "wait" /\ due > 0 =>
       /\ due \in 1..Len(events)
       /\ events[due] = [event |-> "SyncResponse", source |-> peer]
       /\ next <= due \/ due + EVENTS <= Len(events)

LEMMA ReceiverInit == ServiceInit => ReceiverOk
BY DEF ServiceInit, ReceiverOk

\* Steps that leave the task and the events alone.
LEMMA TaskQuiet == ASSUME ReceiverOk, UNCHANGED <<events, task>> PROVE ReceiverOk'
BY DEF ReceiverOk, task

\* The peers come back: the task subscribes behind the last event.
LEMMA AnsweredOk ==
  ASSUME ReceiverOk, NEW answer, PeersAnswered(answer), events' = events
  PROVE  ReceiverOk'
BY DEF ReceiverOk, PeersAnswered

LEMMA ReceiverTask ==
  ASSUME ReceiverOk, AskPeers \/ SendSyncRequest \/ Receive \/ TimeOut
  PROVE  ReceiverOk'
<1>1. CASE AskPeers
  BY <1>1 DEF AskPeers, ReceiverOk
<1>2. CASE SendSyncRequest
  BY <1>2 DEF SendSyncRequest, ReceiverOk
<1>3. CASE Receive
  BY <1>3, ServiceAssumption DEF Receive, ReceiverOk, Oldest, service
<1>4. CASE TimeOut
  BY <1>4 DEF TimeOut, ReceiverOk, service
<1> QED BY <1>1, <1>2, <1>3, <1>4

\* An event more: everything broadcast stays where it is.
LEMMA BroadcastOk ==
  ASSUME ReceiverOk, NEW kind \in EventNames, NEW p \in Peers, Broadcast(kind, p),
         UNCHANGED <<syncing, peer, next>>,
         \/ due' = due
         \/ kind = "SyncResponse" /\ peer = p /\ due' = Len(events) + 1
  PROVE  ReceiverOk'
<1>1. events' = Append(events, [event |-> kind, source |-> p])
      /\ events \in Seq([event : EventNames, source : Peers])
  BY DEF Broadcast, ReceiverOk
<1>2. /\ events' \in Seq([event : EventNames, source : Peers])
      /\ Len(events') = Len(events) + 1 /\ Len(events') \in Nat
      /\ \A i \in 1..Len(events) : events'[i] = events[i]
      /\ events'[Len(events) + 1] = [event |-> kind, source |-> p]
  BY <1>1
<1>3. CASE due' = due
  <2>1. due \in 1..Len(events) => events'[due] = events[due] /\ due \in 1..Len(events')
    BY <1>2 DEF ReceiverOk
  <2> QED BY <1>2, <1>3, <2>1, ServiceAssumption DEF ReceiverOk
<1>4. CASE kind = "SyncResponse" /\ peer = p /\ due' = Len(events) + 1
  BY <1>2, <1>4 DEF ReceiverOk
<1> QED BY <1>3, <1>4

LEMMA ReceiverStep == ReceiverOk /\ [ServiceNext]_allvars => ReceiverOk'
<1> SUFFICES ASSUME ReceiverOk, [ServiceNext]_allvars PROVE ReceiverOk'
  OBVIOUS
<1>1. ASSUME NEW m \in Messages, Publish(m) PROVE ReceiverOk'
  BY <1>1, TaskQuiet DEF Publish
<1>2. CASE Dial \/ Shutdown
  BY <1>2, TaskQuiet DEF Dial, Shutdown
<1>3. CASE HandleCommand
  <2>1. events' = events
    BY <1>3 DEF HandleCommand, StopLoop
  <2>2. UNCHANGED task \/ \E answer : PeersAnswered(answer)
    BY <1>3 DEF HandleCommand, StopLoop
  <2> QED BY <2>1, <2>2, TaskQuiet, AnsweredOk
<1>4. ASSUME NEW p \in Peers, NEW kind \in Kinds \cup {"undecodable"}, HandleGossip(p, kind)
      PROVE  ReceiverOk'
  <2>0. UNCHANGED task
    BY <1>4 DEF HandleGossip
  <2>1. CASE events' = events
    BY <2>0, <2>1, TaskQuiet
  <2>2. CASE events' # events
    <3>1. Broadcast(kind, p)
      BY <1>4, <2>2 DEF HandleGossip
    <3>2. kind \in EventNames
      <4>1. kind \in DOMAIN EventOf \/ kind = "evidence"
        BY <1>4 DEF HandleGossip
      <4> QED BY <4>1 DEF EventNames
    <3> QED BY <2>0, <3>1, <3>2, BroadcastOk DEF task
  <2> QED BY <2>1, <2>2
<1>5. ASSUME NEW p \in Peers, HandleSyncResponse(p) PROVE ReceiverOk'
  <2>1. /\ Broadcast("SyncResponse", p) /\ UNCHANGED <<syncing, peer, next>>
        /\ due' = due \/ (peer = p /\ due' = Len(events) + 1)
    BY <1>5 DEF HandleSyncResponse
  <2>2. "SyncResponse" \in EventNames
    BY DEF EventNames
  <2> QED BY <2>1, <2>2, BroadcastOk
<1>6. ASSUME NEW p \in Peers, HandleFailure(p) \/ HandleConnection(p) PROVE ReceiverOk'
  BY <1>6, TaskQuiet DEF HandleFailure, HandleConnection, service
<1>7. CASE UNCHANGED allvars
  BY <1>7, TaskQuiet DEF allvars, service
<1> QED BY <1>1, <1>2, <1>3, <1>4, <1>5, <1>6, <1>7, ReceiverTask DEF ServiceNext

\* For every capacity of the two channels, every number of peers and every interleaving of
\* their events with the task: the answer the task waits for is still ahead of its
\* receiver, or newer events have pushed it out of the channel (run_sync_loop,
\* wait_for_sync_response, P2pService::handle_event).
THEOREM AnswerNotMissedHolds == ServiceSpec => []AnswerNotMissed
<1>1. ServiceSpec => ServiceInit /\ [][ServiceNext]_allvars
  BY PTL DEF ServiceSpec
<1>2. ReceiverOk => AnswerNotMissed
  BY DEF ReceiverOk, AnswerNotMissed
<1> QED BY <1>1, <1>2, ReceiverInit, ReceiverStep, PTL

-----------------------------------------------------------------------------
(* The rate limiter.                                                       *)

Counters == [count : Nat, since : Nat]

\* The messages of a peer in the order they passed, against its counter: the last `count`
\* of them are those of the window, the others are older, and all but the newest
\* max_per_window of the others are older by a whole window.
Windowed(c, log) ==
  LET old == Len(log) - c.count IN
  /\ c.count <= max_per_window /\ c.count <= Len(log)
  /\ \A i \in 1..Len(log) : i > old => c.since <= log[i] /\ log[i] < c.since + window
  /\ \A i \in 1..Len(log) : i <= old => log[i] < c.since
  /\ \A i \in 1..Len(log) : i <= old - max_per_window => log[i] + window <= c.since

\* Any 2 * max_per_window + 1 messages in a row span a window.
Spread(log) ==
  \A i, j \in 1..Len(log) : i + 2 * max_per_window <= j => log[i] + window <= log[j]

Ordered(log, now) ==
  /\ log \in Seq(Nat)
  /\ \A i \in 1..Len(log) : log[i] <= now
  /\ \A i, j \in 1..Len(log) : i <= j => log[i] <= log[j]

LimiterInv ==
  /\ clock \in Nat
  /\ counters \in [Senders -> Counters \cup {NoCounter}]
  /\ DOMAIN passed = Senders
  /\ \A s \in Senders :
       /\ Ordered(passed[s], clock) /\ Spread(passed[s])
       /\ counters[s] = NoCounter => passed[s] = <<>>
       /\ counters[s] # NoCounter => counters[s].since <= clock /\ Windowed(counters[s], passed[s])
       /\ checked = s => counters[s] # NoCounter /\ counters[s].count < max_per_window

LEMMA LimiterInitOk == LimiterInit => LimiterInv
<1> SUFFICES ASSUME LimiterInit PROVE LimiterInv
  OBVIOUS
<1>1. Ordered(<<>>, 0) /\ Spread(<<>>)
  BY DEF Ordered, Spread
<1> QED BY <1>1, LimiterAssumption DEF LimiterInit, LimiterInv

\* What check and increment find: a counter that says the same of the log, whose window
\* has not run out.
LEMMA EntryOk ==
  ASSUME LimiterInv, NEW s \in Senders
  PROVE  /\ Entry(s) \in Counters
         /\ Entry(s).since <= clock /\ clock < Entry(s).since + window
         /\ Windowed(Entry(s), passed[s])
         /\ counters[s] # NoCounter => Entry(s).count <= counters[s].count
<1>a. PICK log : log = passed[s]
  OBVIOUS
<1>0. /\ clock \in Nat /\ window \in Nat \ {0} /\ max_per_window \in Nat \ {0}
      /\ Ordered(log, clock) /\ log \in Seq(Nat) /\ Len(log) \in Nat
      /\ counters[s] \in Counters \cup {NoCounter}
  BY <1>a, LimiterAssumption DEF LimiterInv, Ordered
<1>1. CASE counters[s] = NoCounter
  <2>1. Entry(s) = [count |-> 0, since |-> clock] /\ log = <<>>
    BY <1>a, <1>1 DEF Entry, LimiterInv
  <2> QED BY <1>a, <1>0, <1>1, <2>1 DEF Counters, Windowed
<1>2. CASE counters[s] # NoCounter /\ clock - counters[s].since >= window
  <2>1. Entry(s) = [count |-> 0, since |-> clock]
    BY <1>2 DEF Entry
  <2>2. PICK c \in Counters : c = counters[s]
    BY <1>0, <1>2
  <2>3. Windowed(c, log) /\ c.since + window <= clock /\ c.count \in Nat /\ c.since \in Nat
    BY <1>a, <1>0, <1>2, <2>2 DEF LimiterInv, Counters
  <2>4. \A i \in 1..Len(log) : log[i] \in Nat
    BY <1>0
  <2>5. ASSUME NEW i \in 1..Len(log) PROVE log[i] < clock
    <3>1. CASE i > Len(log) - c.count
      BY <1>0, <2>3, <2>4, <3>1 DEF Windowed
    <3>2. CASE i <= Len(log) - c.count
      BY <1>0, <2>3, <2>4, <3>2 DEF Windowed
    <3> QED BY <1>0, <2>3, <3>1, <3>2
  <2>6. ASSUME NEW i \in 1..Len(log), i <= Len(log) - max_per_window
        PROVE  log[i] + window <= clock
    <3>1. i <= Len(log) - c.count
      BY <1>0, <2>3, <2>6 DEF Windowed
    <3>2. log[i] < c.since
      BY <2>3, <3>1 DEF Windowed
    <3> QED BY <1>0, <2>3, <2>4, <3>2
  <2>7. Windowed([count |-> 0, since |-> clock], log)
    BY <1>0, <2>5, <2>6 DEF Windowed
  <2> QED BY <1>a, <1>0, <2>1, <2>2, <2>3, <2>7 DEF Counters
<1>3. CASE counters[s] # NoCounter /\ ~(clock - counters[s].since >= window)
  BY <1>0, <1>3 DEF Entry, LimiterInv, Counters
<1> QED BY <1>1, <1>2, <1>3

\* One more message in the window: it is a window away from the one 2 * max_per_window
\* before it.
LEMMA AppendOk ==
  ASSUME NEW c \in Counters, NEW log, NEW now \in Nat, Ordered(log, now), Spread(log),
         Windowed(c, log), c.count < max_per_window, c.since <= now, now < c.since + window
  PROVE  /\ Ordered(Append(log, now), now) /\ Spread(Append(log, now))
         /\ Windowed([c EXCEPT !.count = @ + 1], Append(log, now))
<1> DEFINE more == Append(log, now)
           n == Len(log)
<1>0. /\ window \in Nat \ {0} /\ max_per_window \in Nat \ {0} /\ log \in Seq(Nat) /\ n \in Nat
      /\ c.count \in Nat /\ c.since \in Nat
      /\ \A i \in 1..n : log[i] \in Nat
  BY LimiterAssumption DEF Ordered, Counters
<1>1. /\ more \in Seq(Nat) /\ Len(more) = n + 1 /\ more[n + 1] = now
      /\ \A i \in 1..n : more[i] = log[i]
  BY <1>0
<1>2. \A i \in 1..(n + 1) : i \in 1..n \/ i = n + 1
  BY <1>0
<1> HIDE DEF more, n
<1>3. Ordered(more, now)
  <2>1. \A i \in 1..n : log[i] <= now /\ \A j \in 1..n : i <= j => log[i] <= log[j]
    BY DEF Ordered, n
  <2>2. \A i \in 1..(n + 1) : more[i] <= now
    BY <1>0, <1>1, <1>2, <2>1
  <2>3. \A i, j \in 1..(n + 1) : i <= j => more[i] <= more[j]
    <3> SUFFICES ASSUME NEW i \in 1..(n + 1), NEW j \in 1..(n + 1), i <= j
                 PROVE  more[i] <= more[j]
      OBVIOUS
    <3>1. CASE j = n + 1
      BY <1>1, <2>2, <3>1
    <3>2. CASE j \in 1..n
      <4>1. i \in 1..n
        BY <1>0, <3>2
      <4> QED BY <1>1, <2>1, <3>2, <4>1
    <3> QED BY <1>2, <3>1, <3>2
  <2> QED BY <1>1, <2>2, <2>3 DEF Ordered
<1>4. Spread(more)
  <2> SUFFICES ASSUME NEW i \in 1..(n + 1), NEW j \in 1..(n + 1), i + 2 * max_per_window <= j
               PROVE  more[i] + window <= more[j]
    BY <1>1 DEF Spread
  <2>1. i \in 1..n
    BY <1>0
  <2>2. CASE j \in 1..n
    BY <1>1, <2>1, <2>2 DEF Spread, n
  <2>3. CASE j = n + 1
    <3>1. i <= n - c.count - max_per_window
      BY <1>0, <2>1, <2>3
    <3>2. log[i] + window <= c.since
      BY <2>1, <3>1 DEF Windowed, n
    <3> QED BY <1>0, <1>1, <2>1, <2>3, <3>2
  <2> QED BY <1>2, <2>2, <2>3
<1>5. PICK d : d = [c EXCEPT !.count = @ + 1]
  OBVIOUS
<1>6. d.count = c.count + 1 /\ d.since = c.since /\ (n + 1) - d.count = n - c.count
  BY <1>0, <1>5 DEF Counters
<1>7. Windowed(d, more)
  <2>1. /\ d.count <= max_per_window /\ d.count <= n + 1
        /\ \A i \in 1..n :
             /\ i > n - c.count => c.since <= log[i] /\ log[i] < c.since + window
             /\ i <= n - c.count => log[i] < c.since
             /\ i <= n - c.count - max_per_window => log[i] + window <= c.since
    BY <1>0, <1>6 DEF Windowed, n
  <2>2. ASSUME NEW i \in 1..(n + 1)
        PROVE  /\ i > n - c.count => c.since <= more[i] /\ more[i] < c.since + window
               /\ i <= n - c.count => more[i] < c.since
               /\ i <= n - c.count - max_per_window => more[i] + window <= c.since
    <3>1. CASE i \in 1..n
      BY <1>1, <2>1, <3>1
    <3>2. CASE i = n + 1
      BY <1>0, <1>1, <3>2
    <3> QED BY <1>2, <3>1, <3>2
  <2> QED BY <1>1, <1>6, <2>1, <2>2 DEF Windowed
<1> QED BY <1>3, <1>4, <1>5, <1>7 DEF more

LEMMA CheckOk == ASSUME LimiterInv, NEW s \in Senders, check(s) PROVE LimiterInv'
<1>1. PICK c \in Counters : c = Entry(s)
  BY EntryOk
<1>2. /\ counters' = [counters EXCEPT ![s] = c] /\ UNCHANGED <<clock, passed>>
      /\ checked' = IF c.count < max_per_window THEN s ELSE NoSender
  BY <1>1 DEF check
<1>3. c.since <= clock /\ Windowed(c, passed[s]) /\ c # NoCounter
  BY <1>1, EntryOk, LimiterAssumption DEF Counters
<1>4. counters' \in [Senders -> Counters \cup {NoCounter}]
  BY <1>2 DEF LimiterInv
<1>5. ASSUME NEW u \in Senders
      PROVE  /\ Ordered(passed'[u], clock') /\ Spread(passed'[u])
             /\ counters'[u] = NoCounter => passed'[u] = <<>>
             /\ counters'[u] # NoCounter =>
                  counters'[u].since <= clock' /\ Windowed(counters'[u], passed'[u])
             /\ checked' = u => counters'[u] # NoCounter /\ counters'[u].count < max_per_window
  <2>1. CASE u = s
    BY <1>2, <1>3, <2>1, LimiterAssumption DEF LimiterInv
  <2>2. CASE u # s
    BY <1>2, <2>2, LimiterAssumption DEF LimiterInv
  <2> QED BY <2>1, <2>2
<1> QED BY <1>2, <1>4, <1>5 DEF LimiterInv

LEMMA IncrementOk == ASSUME LimiterInv, NEW s \in Senders, increment(s) PROVE LimiterInv'
<1>1. PICK c \in Counters : c = Entry(s)
  BY EntryOk
<1>2. PICK d : d = [c EXCEPT !.count = @ + 1]
  OBVIOUS
<1>3. /\ checked = s /\ counters' = [counters EXCEPT ![s] = d] /\ clock' = clock
      /\ passed' = [passed EXCEPT ![s] = Append(passed[s], clock)]
      /\ checked' = NoSender
  BY <1>1, <1>2 DEF increment
<1>4. c.count < max_per_window
  <2>1. counters[s] # NoCounter /\ counters[s].count < max_per_window
        /\ counters[s] \in Counters \cup {NoCounter}
    BY <1>3 DEF LimiterInv
  <2>2. c.count <= counters[s].count
    BY <1>1, <2>1, EntryOk
  <2> QED BY <2>1, <2>2, LimiterAssumption DEF Counters
<1>5. /\ clock \in Nat /\ Ordered(passed[s], clock) /\ Spread(passed[s])
      /\ c.since <= clock /\ clock < c.since + window /\ Windowed(c, passed[s])
  BY <1>1, EntryOk DEF LimiterInv
<1>6. PICK more : more = Append(passed[s], clock)
  OBVIOUS
<1>7. Ordered(more, clock) /\ Spread(more) /\ Windowed(d, more)
  BY <1>2, <1>4, <1>5, <1>6, AppendOk
<1>8. d \in Counters /\ d.since = c.since /\ d # NoCounter
  BY <1>2, LimiterAssumption DEF Counters
<1>9. counters' \in [Senders -> Counters \cup {NoCounter}] /\ DOMAIN passed' = Senders
  BY <1>3, <1>8 DEF LimiterInv
<1>10. ASSUME NEW u \in Senders
       PROVE  /\ Ordered(passed'[u], clock') /\ Spread(passed'[u])
              /\ counters'[u] = NoCounter => passed'[u] = <<>>
              /\ counters'[u] # NoCounter =>
                   counters'[u].since <= clock' /\ Windowed(counters'[u], passed'[u])
              /\ checked' = u => counters'[u] # NoCounter /\ counters'[u].count < max_per_window
  <2>1. CASE u = s
    <3>1. passed'[u] = more /\ counters'[u] = d
      BY <1>3, <1>6, <2>1 DEF LimiterInv
    <3> QED BY <1>3, <1>5, <1>7, <1>8, <3>1, LimiterAssumption
  <2>2. CASE u # s
    <3>1. passed'[u] = passed[u] /\ counters'[u] = counters[u]
      BY <1>3, <2>2 DEF LimiterInv
    <3> QED BY <1>3, <3>1, LimiterAssumption DEF LimiterInv
  <2> QED BY <2>1, <2>2
<1> QED BY <1>3, <1>9, <1>10 DEF LimiterInv

LEMMA LimiterStep == LimiterInv /\ [LimiterNext]_limiter => LimiterInv'
<1> SUFFICES ASSUME LimiterInv, [LimiterNext]_limiter PROVE LimiterInv'
  OBVIOUS
<1>1. CASE Tick
  <2>1. clock' = clock + 1 /\ clock' \in Nat /\ UNCHANGED <<counters, checked, passed>>
    BY <1>1 DEF Tick, LimiterInv
  <2>2. ASSUME NEW u \in Senders PROVE Ordered(passed[u], clock')
    BY <2>1 DEF LimiterInv, Ordered
  <2>3. ASSUME NEW u \in Senders, counters[u] # NoCounter PROVE counters[u].since <= clock'
    BY <2>1, <2>3 DEF LimiterInv, Counters
  <2> QED BY <2>1, <2>2, <2>3 DEF LimiterInv
<1>2. CASE UNCHANGED limiter
  BY <1>2 DEF limiter, LimiterInv
<1> QED BY <1>1, <1>2, CheckOk, IncrementOk DEF LimiterNext

\* Messages that fall into one window are fewer than 2 * max_per_window + 1 in a row.
LEMMA WindowHolds ==
  ASSUME NEW log, NEW now, Ordered(log, now), Spread(log), NEW from \in Nat
  PROVE  Cardinality({i \in DOMAIN log : log[i] \in from..(from + window - 1)}) <= 2 * max_per_window
<1> DEFINE In == {i \in DOMAIN log : log[i] \in from..(from + window - 1)}
           limit == 2 * max_per_window
<1>0. /\ window \in Nat \ {0} /\ limit \in Nat /\ Len(log) \in Nat /\ DOMAIN log = 1..Len(log)
      /\ \A i \in 1..Len(log) : log[i] \in Nat
  BY LimiterAssumption DEF Ordered
<1>1. CASE In = {}
  <2>1. Cardinality(In) = 0
    BY <1>1, FS_EmptySet
  <2>2. 0 <= limit
    BY <1>0
  <2> QED BY <2>1, <2>2
<1>2. CASE In # {}
  <2>1. In \in SUBSET Nat
    BY <1>0
  <2>2. PICK x \in In : \A y \in In : x <= y
    <3> HIDE DEF In
    <3> QED BY <1>2, <2>1, LeastNatural
  <2>3. ASSUME NEW y \in In PROVE y \in x..(x + limit - 1)
    <3>1. x \in 1..Len(log) /\ y \in 1..Len(log) /\ x <= y /\ x \in Nat /\ y \in Nat
      BY <1>0, <2>2
    <3>2. log[x] >= from /\ log[y] < from + window
      BY <1>0, <2>2, <2>3
    <3>3. ~(x + limit <= y)
      <4> SUFFICES ASSUME x + limit <= y PROVE FALSE
        OBVIOUS
      <4>1. log[x] + window <= log[y]
        BY <3>1 DEF Spread
      <4> QED BY <1>0, <3>1, <3>2, <4>1
    <3> QED BY <1>0, <3>1, <3>3
  <2>4. In \subseteq x..(x + limit - 1)
    BY <2>3
  <2>5. x \in Int /\ x + limit - 1 \in Int
    BY <1>0, <2>1, <2>2
  <2>6. IsFiniteSet(x..(x + limit - 1)) /\ Cardinality(x..(x + limit - 1)) = limit
    <3> HIDE DEF limit
    <3>1. /\ IsFiniteSet(x..(x + limit - 1))
          /\ Cardinality(x..(x + limit - 1)) = IF x > x + limit - 1 THEN 0 ELSE (x + limit - 1) - x + 1
      BY <2>5, FS_Interval
    <3> QED BY <1>0, <2>5, <3>1
  <2> HIDE DEF In
  <2>7. Cardinality(In) <= Cardinality(x..(x + limit - 1))
    BY <2>4, <2>6, FS_Subset
  <2> QED BY <2>6, <2>7 DEF In
<1> QED BY <1>1, <1>2

\* A full counter counts messages of the window that has not run out.
LEMMA RefusedHasHadIts ==
  ASSUME LimiterInv, NEW s \in Senders, Entry(s).count >= max_per_window
  PROVE  PassedIn(s, clock + 1 - window, clock) >= max_per_window
<1>1. PICK c \in Counters : c = Entry(s)
  BY EntryOk
<1>2. PICK log : log = passed[s]
  OBVIOUS
<1>3. /\ clock \in Nat /\ window \in Nat \ {0} /\ max_per_window \in Nat \ {0}
      /\ c.count \in Nat /\ c.since \in Nat /\ c.count >= max_per_window
      /\ c.since <= clock /\ clock < c.since + window
      /\ Windowed(c, log) /\ Ordered(log, clock)
      /\ Len(log) \in Nat /\ DOMAIN log = 1..Len(log) /\ \A i \in 1..Len(log) : log[i] \in Nat
  BY <1>1, <1>2, EntryOk, LimiterAssumption DEF LimiterInv, Counters, Ordered
<1> DEFINE In == {i \in DOMAIN log : log[i] \in (clock + 1 - window)..clock}
           first == Len(log) - max_per_window + 1
<1>4. ASSUME NEW i \in first..Len(log) PROVE i \in In
  <2>1. i \in 1..Len(log) /\ i > Len(log) - c.count
    BY <1>3 DEF Windowed
  <2>2. c.since <= log[i] /\ log[i] <= clock /\ log[i] \in Nat
    BY <1>3, <2>1 DEF Windowed, Ordered
  <2>3. log[i] >= clock + 1 - window
    BY <1>3, <2>2
  <2> QED BY <1>3, <2>1, <2>2, <2>3
<1>5. Cardinality(first..Len(log)) = max_per_window
  <2>1. first \in Int /\ Len(log) \in Int
    BY <1>3
  <2>2. Cardinality(first..Len(log)) = IF first > Len(log) THEN 0 ELSE Len(log) - first + 1
    <3> HIDE DEF first
    <3> QED BY <2>1, FS_Interval
  <2> QED BY <1>3, <2>2
<1>6. IsFiniteSet(In)
  <2>1. In \subseteq 1..Len(log) /\ IsFiniteSet(1..Len(log))
    BY <1>3, FS_Interval
  <2> HIDE DEF In
  <2> QED BY <2>1, FS_Subset
<1>7. Cardinality(first..Len(log)) <= Cardinality(In)
  <2>1. first..Len(log) \in SUBSET In
    BY <1>4
  <2> HIDE DEF In, first
  <2> QED BY <1>6, <2>1, FS_Subset
<1>8. Cardinality(In) \in Nat
  BY <1>6, FS_CardinalityType
<1>9. PassedIn(s, clock + 1 - window, clock) = Cardinality(In)
  BY <1>2 DEF PassedIn
<1> HIDE DEF In, first
<1> QED BY <1>3, <1>5, <1>7, <1>8, <1>9

\* For every limit, window and number of peers, and even if a window runs out between
\* check() and increment(): no window of time lets more than twice the limit of a peer's
\* messages through, and a refused peer has had its whole limit within the last window
\* (RateLimiter::allow, network/topics.rs).
THEOREM RateFairHolds == LimiterSpec => []RateFair
<1>1. LimiterInv => RateFair
  <2> SUFFICES ASSUME LimiterInv, NEW s \in Senders
               PROVE  /\ \A t \in 0..clock : PassedIn(s, t, t + window - 1) <= 2 * max_per_window
                      /\ Entry(s).count >= max_per_window =>
                           PassedIn(s, clock + 1 - window, clock) >= max_per_window
    BY DEF RateFair
  <2>1. ASSUME NEW t \in 0..clock PROVE PassedIn(s, t, t + window - 1) <= 2 * max_per_window
    <3>1. t \in Nat /\ Ordered(passed[s], clock) /\ Spread(passed[s])
      BY DEF LimiterInv
    <3> QED BY <3>1, WindowHolds DEF PassedIn
  <2> QED BY <2>1, RefusedHasHadIts
<1> QED BY <1>1, LimiterInitOk, LimiterStep, PTL DEF LimiterSpec

-----------------------------------------------------------------------------
(* The peers, behind the event loop and through a shutdown.                *)

LEMMA StopKeepsPeers == ASSUME PeerInv, StopLoop PROVE PeerInv'
<1>1. /\ connections' = [p \in Peers |-> 0] /\ connected_peers' = {}
      /\ UNCHANGED <<score, banned_at, height, streak, invalid>>
  BY DEF StopLoop, history
<1> QED BY <1>1 DEF PeerInv, NetworkTypeOK, ListedIsConnected, PenaltiesTaken, ScoreEarned, BansEarned

LEMMA ServicePeers == PeerInv /\ [ServiceNext]_allvars => PeerInv'
<1> SUFFICES ASSUME PeerInv, [ServiceNext]_allvars PROVE PeerInv'
  OBVIOUS
<1>1. ASSUME UNCHANGED network PROVE PeerInv'
  BY <1>1, PeerInvNext DEF network, history, vars
<1>2. CASE HandleCommand
  <2>1. StopLoop \/ UNCHANGED network
    BY <1>2 DEF HandleCommand
  <2> QED BY <1>1, <2>1, StopKeepsPeers
<1>3. ASSUME NEW p \in Peers, NEW kind \in Kinds \cup {"undecodable"}, HandleGossip(p, kind)
      PROVE  PeerInv'
  <2>1. UNCHANGED network \/ (kind \in DOMAIN EventOf /\ Gossip(p, kind))
    BY <1>3 DEF HandleGossip
  <2>2. ASSUME kind \in DOMAIN EventOf, Gossip(p, kind) PROVE PeerInv'
    BY <2>2, PeerInvNext DEF Next
  <2> QED BY <1>1, <2>1, <2>2
<1>4. ASSUME NEW p \in Peers, HandleConnection(p) PROVE PeerInv'
  BY <1>4, PeerInvNext DEF HandleConnection, Next
<1>5. ASSUME NEW p \in Peers, HandleSyncResponse(p) \/ HandleFailure(p) PROVE PeerInv'
  BY <1>1, <1>5 DEF HandleSyncResponse, HandleFailure
<1>6. ASSUME NEW m \in Messages, Publish(m) PROVE PeerInv'
  BY <1>1, <1>6 DEF Publish
<1>7. CASE Dial \/ Shutdown \/ AskPeers \/ SendSyncRequest \/ Receive \/ TimeOut
  BY <1>1, <1>7 DEF Dial, Shutdown, AskPeers, SendSyncRequest, Receive, TimeOut
<1>8. CASE UNCHANGED allvars
  BY <1>1, <1>8 DEF allvars
<1> QED BY <1>2, <1>3, <1>4, <1>5, <1>6, <1>7, <1>8 DEF ServiceNext

\* Behind the event loop, with commands, gossip and connections in any order and a
\* shutdown at any point, the peers connected_peers answers with still have a connection
\* and no past behaviour outweighs a run of invalid messages (P2pService::run,
\* handle_event).
THEOREM ServicePeersSound == ServiceSpec => [](ListedIsConnected /\ TrustIsBounded)
<1>1. ServiceSpec => ServiceInit /\ [][ServiceNext]_allvars
  BY PTL DEF ServiceSpec
<1>2. ServiceInit => PeerInv
  BY PeerInvInit DEF ServiceInit
<1>3. PeerInv => ListedIsConnected /\ TrustIsBounded
  BY ScoreAssumption, Deltas
  DEF PeerInv, NetworkTypeOK, PenaltiesTaken, TrustIsBounded, should_ban
<1> QED BY <1>1, <1>2, <1>3, ServicePeers, PTL
=============================================================================
