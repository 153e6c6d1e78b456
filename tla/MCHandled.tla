----------------------------- MODULE MCHandled -----------------------------
(***************************************************************************)
(* What waits in a file or on the exchange must be dealt with in the end,  *)
(* each on a small instance of its own: the signals of the inbox, the      *)
(* intentions of armed-watch.json with a tick and a dry run over one key,  *)
(* the exits of a trade that a pass has to count.  A behaviour is of one   *)
(* of them; the others rest.                                               *)
(***************************************************************************)
EXTENDS SignalInbox, TLC

CONSTANTS
  Parts,             \* the instances explored
  k1, p1, r1, r2,    \* a key, its pair, a tick and a dry run
  NoSetup            \* no intention in hand

VARIABLES part,
  (* the radar *)
  now, arms, watch, arming, pc, tickNow, snap, todo, cur, mine,
  brackets, journal, disturbed, settled,
  (* the trade and the passes *)
  life, avg, left, legs, exits, visible, day, lines, at, rows, positions, resting,
  toRead, usedG, usedP, handled, calm, raced

radarVars == <<now, arms, watch, arming, pc, tickNow, snap, todo, cur, mine,
               brackets, journal, disturbed, settled>>
passVars == <<life, avg, left, legs, exits, visible, day, lines, at, rows, positions, resting,
              toRead, usedG, usedP, handled, calm, raced>>

Radar == INSTANCE EntryRadar
           WITH Keys <- {k1}, PairOf <- k1 :> p1, Immediate <- {}, Radars <- {r1, r2},
                DryRuns <- {r2}, Faults <- {"order", "keys"}, AccountVisible <- TRUE,
                DemoActive <- FALSE, MaxPerDay <- 1, Lifetime <- 1,
                MaxTime <- 2, MaxArms <- 1, MaxBrackets <- 1

Trade == INSTANCE Reconcile
           WITH Trades <- {1}, PairOf <- <<p1>>, Level <- <<30000>>, Units <- 3, AddUp <- 0,
                Ladders <- {}, Logged <- {1}, Faults <- {"orders"}, MaxDay <- 1,
                journal <- lines, pc <- at, orders <- resting, lines <- toRead

Init == part \in Parts /\ InboxInit /\ Radar!Init /\ Trade!Init

Next ==
  /\ UNCHANGED part
  /\ \/ part = "inbox" /\ InboxNext /\ UNCHANGED <<radarVars, passVars>>
     \/ part = "radar" /\ Radar!Next /\ UNCHANGED <<inboxVars, passVars>>
     \/ part = "trade" /\ Trade!Next /\ UNCHANGED <<inboxVars, radarVars>>

\* The executor polls for ever; the scheduler starts ticks and passes for
\* ever and the clock goes on.  An inbox that rests is empty: its own
\* fairness asks nothing.
Fairness ==
  /\ InboxFair
  /\ \A r \in {r1, r2} : WF_radarVars(part = "radar" /\ Radar!TickStep(r))
  /\ WF_radarVars(part = "radar" /\ Radar!ArmStep)
  /\ WF_radarVars(part = "radar" /\ Radar!TimePasses)
  /\ WF_passVars(part = "trade" /\ Trade!PassRuns)

Spec == Init /\ [][Next]_<<part, inboxVars, radarVars, passVars>> /\ Fairness

-----------------------------------------------------------------------------

\* Every armed intention leaves the file in the end: posted, dropped or
\* expired, although a tick and a dry run write stale copies of it back and
\* placements keep failing (entry-radar.js lines 177-249).
EveryIntentionLeaves == Radar!EveryIntentionLeaves

\* Every exit of the trade is counted in the end, unless the exchange forgets
\* it first (journal.js line 844, run by every routine).
ExitsCounted ==
  \A k \in 1..3 :
    (\E x \in visible : x.no = k)
      ~> \/ \E x \in exits \ visible : x.no = k
         \/ \E x \in visible : x.no = k /\ Trade!Counted(x)
=============================================================================
