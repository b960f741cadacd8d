---------------------------- MODULE OutboundRate ----------------------------
(***************************************************************************)
(* The global rate limit of the outbound policy boundary                   *)
(* (telegram/gotd/outbound.go, Outbound.reserve), shared by the delivery   *)
(* runner and the scheduled-DM runner.                                     *)
(*                                                                         *)
(* A caller reads the runtime settings and the wall clock before it enters *)
(* the mutex, so both may be stale when reserve uses them; UTC() strips    *)
(* the monotonic reading, so the clock may also be set back.  Times are    *)
(* whole units.  lastGlobal.IsZero() is modelled by last = Never.          *)
(***************************************************************************)
EXTENDS Integers, FiniteSets

CONSTANTS
    Callers,      \* goroutines that send
    Settings,     \* values of runtimeconfig.RateLimits that are saved
    MaxPerMinute, \* 19 in the code
    MinInterval,  \* two seconds in the code
    Window,       \* one minute in the code
    MaxClock,     \* bound on the clock, in units
    ClockSetBack  \* whether anybody ever sets the clock back

\* runtimeconfig.RateLimits: both fields are int and unchecked.
RateLimits == [perMinute : Int, interval : Int]

ASSUME RateAssumption ==
    /\ Settings \subseteq RateLimits
    /\ Settings # {}
    /\ MaxPerMinute \in Nat \ {0}
    /\ MinInterval \in Nat \ {0}
    /\ Window \in Nat \ {0}
    /\ MaxClock \in Nat
    /\ ClockSetBack \in BOOLEAN

VARIABLES
    clock,    \* the wall clock
    settings, \* the published rate limits
    caller,   \* what each caller read and has yet to use
    last,     \* Outbound.lastGlobal
    history,  \* Outbound.history: strictly increasing, hence a set
    accepted  \* every stamp ever granted, for the properties

vars == <<clock, settings, caller, last, history, accepted>>

Never == -1
Waiting == [holds : BOOLEAN, now : 0..MaxClock, limits : Settings]

\* A caller outside its account lease holds nothing.
Outside == [holds |-> FALSE, now |-> 0, limits |-> CHOOSE l \in Settings : TRUE]

Init ==
    /\ clock = 0
    /\ settings \in Settings
    /\ caller = [c \in Callers |-> Outside]
    /\ last = Never
    /\ history = {}
    /\ accepted = {}

-----------------------------------------------------------------------------
PerMinute(l) ==
    IF l.perMinute <= 0 \/ l.perMinute > MaxPerMinute THEN MaxPerMinute
                                                      ELSE l.perMinute

Interval(l) == IF l.interval < MinInterval THEN MinInterval ELSE l.interval

\* Mutant: a stamp leaves the window one unit early.
KeptStrict(now) == {s \in history : s > now - Window + 1}

\* The stamps of the last minute.
Kept(now) == {s \in history : s > now - Window}

TooSoon(now, l) == last # Never /\ now - last < Interval(l)

Full(now, l) == Cardinality(Kept(now)) >= PerMinute(l)

\* The caller loads config.Current() and now() inside its account lease.
ReadClock(c) ==
    /\ ~caller[c].holds
    /\ caller' = [caller EXCEPT ![c] =
                    [holds |-> TRUE, now |-> clock, limits |-> settings]]
    /\ UNCHANGED <<clock, settings, last, history, accepted>>

\* Outbound.reserve under s.mu.  A refusal for the interval leaves history
\* alone, a refusal for the minute still drops the stamps that left it.
Reserve(c) ==
    /\ caller[c].holds
    /\ caller' = [caller EXCEPT ![c] = Outside]
    /\ LET now == caller[c].now
           l   == caller[c].limits
       IN  \/ /\ TooSoon(now, l)
              /\ UNCHANGED <<last, history, accepted>>
           \/ /\ ~TooSoon(now, l) /\ Full(now, l)
              /\ history' = Kept(now)
              /\ UNCHANGED <<last, accepted>>
           \/ /\ ~TooSoon(now, l) /\ ~Full(now, l)
              /\ history' = Kept(now) \cup {now}
              /\ last' = now
              /\ accepted' = accepted \cup {now}
    /\ UNCHANGED <<clock, settings>>

\* SaveAppSettings publishes new limits.
Publish(l) ==
    /\ settings # l
    /\ settings' = l
    /\ UNCHANGED <<clock, caller, last, history, accepted>>

\* Time passes, or somebody sets the clock.
SetClock(t) ==
    /\ t > clock \/ (ClockSetBack /\ t < clock)
    /\ clock' = t
    /\ UNCHANGED <<settings, caller, last, history, accepted>>

Next ==
    \/ \E c \in Callers : ReadClock(c) \/ Reserve(c)
    \/ \E l \in Settings : Publish(l)
    \/ \E t \in 0..MaxClock : SetClock(t)

Spec == Init /\ [][Next]_vars
-----------------------------------------------------------------------------
\* Every time lies within the clock's bound; every limit is a saved one.
TypeOK ==
    /\ clock \in 0..MaxClock
    /\ settings \in Settings
    /\ caller \in [Callers -> Waiting]
    /\ last \in 0..MaxClock \cup {Never}
    /\ history \subseteq 0..MaxClock
    /\ accepted \subseteq 0..MaxClock

\* The stamps of the minute that ends with stamp t.
MinuteOf(t) == {s \in accepted : t - Window < s /\ s <= t}

\* At most 19 messages in any minute (README: "enforces at most 19 messages
\* per minute"), however stale a caller's clock is and wherever the clock is
\* moved.  It needs a per-minute limit that does not change: see HistoryCovers.
MinuteBound ==
    \A t \in accepted : Cardinality(MinuteOf(t)) <= MaxPerMinute

\* At least two seconds lie between any two granted sends.
SpacingBound ==
    \A s, t \in accepted : s < t => t - s >= MinInterval

\* A minute after the last grant the limiter always grants again: no setting
\* and no history of refusals, stale clocks or clock changes jams it.
NeverJams ==
    \A now \in 0..MaxClock, l \in Settings :
        (last = Never \/ (now >= last + Window /\ now >= last + Interval(l)))
            => ~TooSoon(now, l) /\ ~Full(now, l)

\* Grants happen in the order of their stamps, and history holds granted
\* stamps only.
GrantsInOrder ==
    /\ history \subseteq accepted
    /\ last = Never => accepted = {}
    /\ last # Never => last \in accepted /\ \A s \in accepted : s <= last

\* At every moment from the last grant on, history refuses a send or knows
\* every stamp of that moment's minute.  A refusal prunes history for its own
\* clock, which may be ahead of a later caller's: the pruned history must then
\* still be full for that caller, which a per-minute limit raised in between
\* breaks.
HistoryCovers ==
    \A now \in 0..MaxClock, l \in Settings :
        now >= last => \/ Full(now, l)
                       \/ \A s \in accepted : s > now - Window => s \in history

\* Every saved setting comes to the same limit per minute.
SameLimit == \A l, m \in Settings : PerMinute(l) = PerMinute(m)

\* What Outbound.reserve keeps under any settings and any clock: grants are
\* stamped in order, two seconds apart, and history holds granted stamps only.
OrderInv == TypeOK /\ GrantsInOrder /\ SpacingBound

\* The inductive invariant behind MinuteBound; it needs SameLimit.
RateInv == OrderInv /\ HistoryCovers /\ MinuteBound
=============================================================================
