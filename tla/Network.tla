------------------------------ MODULE Network -------------------------------
(***************************************************************************)
(* The peers of a node, as P2pService of network/mod.rs sees them through  *)
(* handle_event, and their scores and bans in network/peer_score.rs.       *)
(*                                                                         *)
(* libp2p (external) may hold several connections to one peer, and reports *)
(* each one that opens and each one that closes; the service keeps a set   *)
(* of peers.  An entry of PeerScoreRepo that does not exist yet reads as   *)
(* the default one that get_or_create would make.  Sync messages do not    *)
(* touch this state and are modelled in Sync.                              *)
(***************************************************************************)
EXTENDS Integers

CONSTANTS
  Peers,
  NoBan,               \* banned_at_height: None
  MIN_SCORE, MAX_SCORE, BAN_THRESHOLD, BAN_DURATION,
  MaxConnections,      \* bound: connections to one peer
  MaxStreak,           \* bound: where the count of invalid messages stops
  MaxHeight            \* bound: height of the chain

\* ScoreEvent::delta, for the events handle_event raises.
Delta == [ValidBlockPropagated |-> 1, ValidVotePropagated |-> 1,
          InvalidBlockGossiped |-> -10]

\* The event each kind of gossip raises; evidence raises none.
EventOf == [txs |-> "ValidBlockPropagated", block |-> "ValidBlockPropagated",
            vote |-> "ValidVotePropagated", undecodable |-> "InvalidBlockGossiped"]

ASSUME ScoreAssumption ==
  /\ MIN_SCORE \in Int /\ MAX_SCORE \in Int /\ BAN_THRESHOLD \in Int
  /\ MIN_SCORE < BAN_THRESHOLD /\ BAN_THRESHOLD < 0 /\ MAX_SCORE > 0
  /\ BAN_DURATION \in Nat /\ NoBan \notin Nat /\ MaxStreak \in Nat

VARIABLES
  connections,       \* libp2p's open connections to a peer
  connected_peers,   \* the service's set
  score,             \* PeerScore::score
  banned_at,         \* PeerScore::banned_at_height
  height,            \* the chain's height, as given to is_banned and auto_ban
  streak,            \* history: invalid messages of a peer since its last valid one
  invalid            \* history: all its invalid messages

history == <<streak, invalid>>
vars == <<connections, connected_peers, score, banned_at, height, streak, invalid>>

Init ==
  /\ connections = [p \in Peers |-> 0] /\ connected_peers = {}
  /\ score = [p \in Peers |-> 0] /\ banned_at = [p \in Peers |-> NoBan]
  /\ height = 0
  /\ streak = [p \in Peers |-> 0] /\ invalid = [p \in Peers |-> 0]

-----------------------------------------------------------------------------
(* Connections.                                                            *)

ConnectionEstablished(p) ==
  /\ connections[p] < MaxConnections
  /\ connections' = [connections EXCEPT ![p] = @ + 1]
  /\ connected_peers' = connected_peers \cup {p}
  /\ UNCHANGED <<score, banned_at, height, history>>

\* Mutant of ConnectionClosed: the peer stays in the set.
ConnectionClosedKept(p) ==
  /\ connections[p] > 0
  /\ connections' = [connections EXCEPT ![p] = @ - 1]
  /\ UNCHANGED <<connected_peers, score, banned_at, height, history>>

\* num_established is not looked at: the first connection to close removes the peer.
ConnectionClosed(p) ==
  /\ connections[p] > 0
  /\ connections' = [connections EXCEPT ![p] = @ - 1]
  /\ connected_peers' = connected_peers \ {p}
  /\ UNCHANGED <<score, banned_at, height, history>>

-----------------------------------------------------------------------------
(* Scores and bans.                                                        *)

Clamp(n) == IF n < MIN_SCORE THEN MIN_SCORE ELSE IF n > MAX_SCORE THEN MAX_SCORE ELSE n

\* Mutant of should_ban: a peer that is only to be used last is banned.
should_ban_negative(p) == score[p] < 0

should_ban(p) == score[p] < BAN_THRESHOLD

\* Mutant of adjust: good behaviour is credited without limit.
adjust_unclamped(s, d) == IF s + d < MIN_SCORE THEN MIN_SCORE ELSE s + d

adjust(s, d) == Clamp(s + d)

is_banned(p) == banned_at[p] # NoBan /\ height < banned_at[p] + BAN_DURATION

apply_event(p, event) ==
  score' = [score EXCEPT ![p] = adjust(@, Delta[event])]

\* The histories stop at a bound.
Counted(n) == IF n < MaxStreak THEN n + 1 ELSE n

\* A scored message from a connected peer, decodable or not.
Gossip(p, kind) ==
  /\ connections[p] > 0
  /\ apply_event(p, EventOf[kind])
  /\ \/ /\ kind = "undecodable"
        /\ streak' = [streak EXCEPT ![p] = Counted(@)]
        /\ invalid' = [invalid EXCEPT ![p] = Counted(@)]
     \/ /\ kind # "undecodable"
        /\ streak' = [streak EXCEPT ![p] = 0]
        /\ UNCHANGED invalid
  /\ UNCHANGED <<connections, connected_peers, banned_at, height>>

auto_ban ==
  /\ banned_at' = [p \in Peers |-> IF should_ban(p) /\ banned_at[p] = NoBan
                                   THEN height ELSE banned_at[p]]
  /\ UNCHANGED <<connections, connected_peers, score, height, history>>

AdvanceHeight ==
  /\ height < MaxHeight
  /\ height' = height + 1
  /\ UNCHANGED <<connections, connected_peers, score, banned_at, history>>

Next ==
  \/ \E p \in Peers : ConnectionEstablished(p) \/ ConnectionClosed(p)
  \/ \E p \in Peers, kind \in DOMAIN EventOf : Gossip(p, kind)
  \/ auto_ban \/ AdvanceHeight

Spec == Init /\ [][Next]_vars

-----------------------------------------------------------------------------
(* Properties.                                                             *)

\* A peer that sync picks from connected_peers has an open connection: no order
\* of openings and closings leaves a peer in the set that libp2p cannot reach.
ListedIsConnected == \A p \in connected_peers : connections[p] > 0

\* Past good behaviour buys a bounded number of invalid messages: whatever a
\* peer did before, once the penalties of its run of undecodable messages exceed
\* the distance from MAX_SCORE to BAN_THRESHOLD, should_ban holds of it.  This is
\* what the clamp of adjust is for.
TrustIsBounded ==
  \A p \in Peers :
    MAX_SCORE + Delta["InvalidBlockGossiped"] * streak[p] < BAN_THRESHOLD => should_ban(p)

\* Nobody is banned for less than the threshold says: whenever auto_ban runs, a
\* banned peer has sent invalid messages whose penalties reach it, with nothing
\* else held against it (unless the history stopped at its bound).
BannedForCause ==
  \A p \in Peers :
    is_banned(p) =>
      \/ Delta["InvalidBlockGossiped"] * invalid[p] <= BAN_THRESHOLD
      \/ invalid[p] = MaxStreak
=============================================================================
