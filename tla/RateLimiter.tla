----------------------------- MODULE RateLimiter ----------------------------
(***************************************************************************)
(* RateLimiter of network/topics.rs: a counter and a window per peer.      *)
(* allow() is check() and then increment(), each with a clock reading of   *)
(* its own, so a window may run out in between; both borrow the limiter    *)
(* mutably, so no other call comes in between.  Time is in ticks of a      *)
(* fraction of the window.  The service does not call the limiter yet.     *)
(***************************************************************************)
EXTENDS Integers, Sequences, FiniteSets

CONSTANTS
  Senders,
  NoSender,          \* no call of allow is under way
  NoCounter,         \* the map has no entry for a peer
  max_per_window,
  window,
  MaxClock           \* bound: time

ASSUME LimiterAssumption ==
  /\ max_per_window \in Nat \ {0} /\ window \in Nat \ {0}
  /\ NoSender \notin Senders
  /\ NoCounter \notin [count : Nat, since : Nat]

VARIABLES
  counters,          \* peer -> its count and the start of its window
  clock,             \* Instant::now
  checked,           \* the peer whose message check() let through
  passed             \* history: when each peer's messages passed

limiter == <<counters, clock, checked, passed>>

LimiterInit ==
  /\ counters = [s \in Senders |-> NoCounter]
  /\ clock = 0 /\ checked = NoSender
  /\ passed = [s \in Senders |-> <<>>]

\* Mutant of Entry: the count is reset and the window not restarted.
EntrySameWindow(s) ==
  IF counters[s] = NoCounter THEN [count |-> 0, since |-> clock]
  ELSE IF clock - counters[s].since >= window THEN [counters[s] EXCEPT !.count = 0]
  ELSE counters[s]

\* The entry both calls work on: inserted if absent, reset if its window is over.
Entry(s) ==
  IF counters[s] = NoCounter \/ clock - counters[s].since >= window
  THEN [count |-> 0, since |-> clock]
  ELSE counters[s]

check(s) ==
  /\ checked = NoSender
  /\ counters' = [counters EXCEPT ![s] = Entry(s)]
  /\ checked' = IF Entry(s).count < max_per_window THEN s ELSE NoSender
  /\ UNCHANGED <<clock, passed>>

increment(s) ==
  /\ checked = s
  /\ counters' = [counters EXCEPT ![s] = [Entry(s) EXCEPT !.count = @ + 1]]
  /\ passed' = [passed EXCEPT ![s] = Append(@, clock)]
  /\ checked' = NoSender
  /\ UNCHANGED clock

Tick ==
  /\ clock < MaxClock
  /\ clock' = clock + 1
  /\ UNCHANGED <<counters, checked, passed>>

LimiterNext == Tick \/ \E s \in Senders : check(s) \/ increment(s)

LimiterSpec == LimiterInit /\ [][LimiterNext]_limiter

-----------------------------------------------------------------------------
\* How many messages of a peer passed in the ticks `from` to `to`.
PassedIn(s, from, to) == Cardinality({i \in DOMAIN passed[s] : passed[s][i] \in from..to})

\* "the number of messages allowed in the window": wherever a window is laid, no more
\* than twice the limit of a peer's messages pass in it (two counted windows can
\* touch), even if one ran out between check() and increment(); and a peer that is
\* refused has had the whole limit within the last window.
RateFair ==
  \A s \in Senders :
    /\ \A t \in 0..clock : PassedIn(s, t, t + window - 1) <= 2 * max_per_window
    /\ Entry(s).count >= max_per_window =>
         PassedIn(s, clock + 1 - window, clock)
           >= max_per_window
=============================================================================
