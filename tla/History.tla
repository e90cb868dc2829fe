------------------------------ MODULE History ------------------------------
(***************************************************************************)
(* The bandwidth history of NetPlug.  Every pass of the synchroniser turns *)
(* the bytes since the last pass into rates, adds them up in a row of      *)
(* bandwidth_snapshots and deletes rows older than a day (syncOnce in      *)
(* internal/wireguard/syncer.go).  The chart of the month makes bytes per  *)
(* day of the rates again (BandwidthHistoryAPI in internal/app/handlers.go)*)
(*                                                                         *)
(* Passes come when the ticker fires, late when the machine or a command   *)
(* is slow, not at all while the interface is down, and at once when the   *)
(* process restarts, so a pass may come at any time.  Downloads are what   *)
(* the server sends.  Time is in seconds as SQLite keeps it; days are as   *)
(* short as the checking needs.                                            *)
(***************************************************************************)
EXTENDS Naturals, Sequences, FiniteSetsExt, Functions

CONSTANTS
  Users,
  None,        \* not on the interface
  Interval,    \* seconds between two passes, as configured
  Day,         \* seconds of a day: of the calendar's, and of what is kept
  Month,       \* days of a month
  Loads,       \* bytes a peer may carry at a stroke
  Waits,       \* seconds from one pass to the next
  MaxTime, MaxBytes, MaxPasses   \* bounds

VARIABLES
  now,     \* when the last pass was
  peers,   \* the interface: counters of the users on it
  prev,    \* vpn_users: each user's counters at the last pass that saw it
  snaps,   \* bandwidth_snapshots: the rows still there, by the pass that wrote them
  since,   \* history: bytes carried since the last pass, and whether some
           \* counter was cut off meanwhile
  log      \* history: what since was at every pass

vars == <<now, peers, prev, snaps, since, log>>

\* A user downloads what the server counts as sent.
Dirs == {"down", "up"}
Bytes == [Dirs -> Nat]
Zero == [d \in Dirs |-> 0]
Plus(a, b) == [d \in Dirs |-> a[d] + b[d]]

Quiet == [carried |-> Zero, cut |-> FALSE]

\* The configured interval is at least a second, and None is no counter.
ASSUME HistoryAssumption ==
  /\ IsFiniteSet(Users) /\ Interval \in Nat \ {0} /\ Day \in Nat
  /\ Loads \subseteq Bytes /\ Waits \subseteq Nat /\ None \notin Bytes

TypeOK ==
  /\ now \in Nat
  /\ peers \in [Users -> Bytes \cup {None}]
  /\ prev \in [Users -> Bytes]
  /\ log \in Seq([t : 0..now, carried : Bytes, whole : BOOLEAN])
  /\ snaps \in [DOMAIN snaps -> [t : 0..now, rate : Bytes]] /\ DOMAIN snaps \subseteq DOMAIN log
  /\ since \in [carried : Bytes, cut : BOOLEAN]

Init ==
  /\ now = 0 /\ snaps = <<>> /\ log = <<>>
  /\ peers = [u \in Users |-> None] /\ prev = [u \in Users |-> Zero]
  /\ since = Quiet

-----------------------------------------------------------------------------
(* The world. *)

\* All that has been carried stays below the bound.
Room(b) ==
  SumFunction([d \in Dirs |-> since.carried[d] + b[d]
                              + SumFunction([k \in DOMAIN log |-> log[k].carried[d]])])
    <= MaxBytes

Traffic(u, b) ==
  /\ peers[u] # None /\ Room(b)
  /\ peers' = [peers EXCEPT ![u] = Plus(@, b)]
  /\ since' = [since EXCEPT !.carried = Plus(@, b)]
  /\ UNCHANGED <<now, prev, snaps, log>>

\* A peer joins the interface with counters at zero, perhaps below those last
\* seen, or leaves it with them; an interface that restarts does both.
Join(u) ==
  /\ peers[u] = None
  /\ peers' = [peers EXCEPT ![u] = Zero]
  /\ since' = [since EXCEPT !.cut = @ \/ prev[u] # Zero]
  /\ UNCHANGED <<now, prev, snaps, log>>

Leave(u) ==
  /\ peers[u] # None
  /\ peers' = [peers EXCEPT ![u] = None]
  /\ since' = [since EXCEPT !.cut = TRUE]
  /\ UNCHANGED <<now, prev, snaps, log>>

\* The user's row is new while its peer is not: all that the peer has carried
\* counts again.
Recreate(u) ==
  /\ peers[u] # None /\ Room(peers[u])
  /\ prev' = [prev EXCEPT ![u] = Zero]
  /\ since' = [carried |-> Plus(since.carried, peers[u]), cut |-> TRUE]
  /\ UNCHANGED <<now, peers, snaps, log>>

-----------------------------------------------------------------------------
(* syncOnce *)

\* A plausible slip: one direction is taken to vouch for both.
RateOneLooked(u) ==
  IF peers[u]["up"] >= prev[u]["up"]
  THEN [d \in Dirs |-> (peers[u][d] - prev[u][d]) \div Interval]
  ELSE Zero

\* Bytes since the last pass over the configured interval, however long it
\* really was; nothing when either counter has gone back.
Rate(u) ==
  IF \A d \in Dirs : peers[u][d] >= prev[u][d]
  THEN [d \in Dirs |-> (peers[u][d] - prev[u][d]) \div Interval]
  ELSE Zero

\* A plausible slip: the day's first second goes as well.
KeptLess(s, time) == s.t + Day > time

\* Rows older than a day go.
Kept(s, time) == s.t + Day >= time

\* The next pass, some time after the last.  Only users connected, and enabled
\* after this pass, are added up.
Pass(live, wait) ==
  LET time == now + wait
      seen == {u \in Users : peers[u] # None}
      rate == [d \in Dirs |-> SumFunction([u \in live |-> Rate(u)[d]])]
      mine == Len(log) + 1
  IN  /\ live \subseteq seen /\ Len(log) < MaxPasses /\ time <= MaxTime
      /\ prev' = [u \in Users |-> IF u \in seen THEN peers[u] ELSE prev[u]]
      /\ snaps' = RestrictValues([k \in DOMAIN snaps \cup {mine} |->
                                   IF k = mine THEN [t |-> time, rate |-> rate] ELSE snaps[k]],
                                 LAMBDA s : Kept(s, time))
      /\ log' = Append(log, [t |-> time, carried |-> since.carried,
                             whole |-> ~since.cut /\ live = seen])
      /\ since' = Quiet
      /\ now' = time /\ UNCHANGED peers

Next ==
  \/ \E u \in Users : Join(u) \/ Leave(u) \/ Recreate(u) \/ \E b \in Loads : Traffic(u, b)
  \/ \E live \in SUBSET Users, wait \in Waits : Pass(live, wait)

Spec == Init /\ [][Next]_vars

-----------------------------------------------------------------------------
(* BandwidthHistoryAPI, by day *)

MonthStart == now - (now % (Day * Month))
DayOf(t) == (t \div Day) % Month

\* The entries, of the snapshots or of the log, that fall on a day of this month.
On(day, s) == {k \in DOMAIN s : s[k].t >= MonthStart /\ DayOf(s[k].t) = day}

\* Entries in the order of their timestamps, which is that of the passes.
Later(s, k) == {j \in DOMAIN s : j > k}
Gap(s, k) == s[Min(Later(s, k))].t - s[k].t

\* A plausible slip: however long the pause, the rate has held.
WeightUnclamped(k) == Gap(snaps, k)

\* How long a rate counts: to the next snapshot, but not through a pause.
Weight(k) == IF Gap(snaps, k) > 2 * Interval THEN Interval ELSE Gap(snaps, k)

\* The last snapshot waits for the next one.
Charted(day) == {k \in On(day, snaps) : Later(snaps, k) # {}}

Chart(day) == [d \in Dirs |-> SumFunction([k \in Charted(day) |-> snaps[k].rate[d] * Weight(k)])]

-----------------------------------------------------------------------------
(* Properties *)

CarriedIn(passes, d) == SumFunction([k \in passes |-> log[k].carried[d]])

(***************************************************************************)
(* However early or late the passes come, the chart shows for no day more  *)
(* than twice the bytes that the passes of that day found: a late pass     *)
(* packs the bytes of a long time into one interval, and what it found     *)
(* counts for at most two.                                                 *)
(***************************************************************************)
ChartedTwiceAtMost ==
  \A day \in 0..(Month - 1), d \in Dirs : Chart(day)[d] <= 2 * CarriedIn(On(day, log), d)

(***************************************************************************)
(* What passes found in the last day is charted, but for the rounding of   *)
(* each user's rate, if the next pass came neither too early nor too late, *)
(* no counter was cut off, and everybody on the interface was connected    *)
(* and enabled.                                                            *)
(***************************************************************************)
Regular(day) ==
  {k \in On(day, log) : /\ Later(log, k) # {} /\ Gap(log, k) \in Interval..(2 * Interval)
                        /\ log[k].whole /\ log[k].t + Day >= now}

RegularPassesAreCharted ==
  \A day \in 0..(Month - 1), d \in Dirs :
    Chart(day)[d] + Cardinality(Regular(day)) * Cardinality(Users) * (Interval - 1)
      >= CarriedIn(Regular(day), d)

(***************************************************************************)
(* "Bandwidth Over Time (This Month)" (partials/overview_all.tmpl:71): what the     *)
(* chart shows of a day of the month stays there while the month lasts.    *)
(***************************************************************************)
ChartKeepsItsDays ==
  [][\A day \in 0..(Month - 1), d \in Dirs :
       MonthStart' = MonthStart => (Chart(day)[d])' >= Chart(day)[d]]_vars
=============================================================================
