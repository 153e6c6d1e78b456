----------------------------- MODULE EntryRadar -----------------------------
(***************************************************************************)
(* The hand-off from the trading routine to the entry radar.  The routine  *)
(* ARMS intentions in armed-watch.json; ticks of the radar read the file,  *)
(* confirm each intention against closed candles, run the preflight, place *)
(* a limit bracket on Bybit, log the trade, and write the file back.       *)
(*                                                                         *)
(* Nothing locks the file: two ticks (the 15 min task and the call that    *)
(* ends a routine) and the arm command may overlap, each may be killed     *)
(* between any two of its calls, and a call to the exchange may fail, or   *)
(* be accepted and its answer lost.  A rewrite of the file empties it      *)
(* first: a kill in between leaves a torn file, which reads as no          *)
(* intention at all.                                                       *)
(*                                                                         *)
(* Abstractions.  The price levels of an intention are its revision: the   *)
(* number of the arm command that wrote them.  What the candles say is a   *)
(* free choice.  The order of the intentions in the file is any order.     *)
(* TradingView alerts only label a decision, so they are left out.         *)
(***************************************************************************)
EXTENDS Naturals, Sequences, FiniteSets

CONSTANTS
  Keys,           \* symbol|side|setup: what identifies an intention
  PairOf,         \* the symbol|side of a key
  Immediate,      \* the keys of the mean-reversion family: no candle awaited
  Radars,         \* the ticks that may run at the same time
  DryRuns,        \* those of them started with --dry-run
  Faults,         \* what may go wrong: a subset of FaultKinds
  AccountVisible, \* does the client of getOpenKeys hold the API keys?
  DemoActive,     \* DEMO_ACTIVE: the soft guards only warn
  MaxPerDay,      \* RM_MAX_TRADES_PER_DAY
  Lifetime,       \* expiry_hours of an intention
  NoSetup,        \* no intention in hand
  MaxTime, MaxArms, MaxBrackets   \* bounds of the exploration

FaultKinds == {"crash", "order", "log", "keys"}

ASSUME ConstantsAssumption ==
  /\ Keys # {} /\ DOMAIN PairOf = Keys
  /\ Immediate \subseteq Keys /\ DryRuns \subseteq Radars
  /\ Faults \subseteq FaultKinds
  /\ AccountVisible \in BOOLEAN /\ DemoActive \in BOOLEAN
  /\ MaxPerDay \in Nat /\ Lifetime \in Nat \ {0}
  /\ MaxTime \in Nat /\ MaxArms \in Nat /\ MaxBrackets \in Nat

Setup == [key : Keys, id : Nat, rev : Nat, expiry : Nat]

ASSUME NoSetupAssumption == NoSetup \notin Setup

\* A bracket on the exchange: the intention it came from, whether its
\* stop-loss and its take-profits were accepted, and the life of its entry.
Bracket == [key : Keys, id : Nat, rev : Nat, sl : BOOLEAN, tp : BOOLEAN,
            phase : {"resting", "filled", "done"}]

VARIABLES
  now,       \* the clock, in hours
  arms,      \* the number of arm commands run so far
  watch,     \* armed-watch.json, as it reads: {} while it is truncated or torn
  arming,    \* the arm command under way, at most one: what it read, and
             \* whether it has opened the file to rewrite it
  pc,        \* where each tick is
  tickNow,   \* the instant the tick took as `now`
  snap,      \* the tick's own copy of the file
  todo,      \* the intentions it decided to post and has not handled yet
  cur,       \* the one it is posting
  mine,      \* the bracket it is placing for it
  brackets,  \* every bracket ever put on the exchange
  journal,   \* the brackets logged in trades.jsonl
  disturbed, \* history: the kinds of disturbance that have occurred
  settled    \* history: the intentions a tick posted, dropped or let expire

localVars == <<pc, tickNow, snap, todo, cur, mine>>
vars == <<now, arms, watch, arming, pc, tickNow, snap, todo, cur, mine,
          brackets, journal, disturbed, settled>>

PCs == {"idle", "keys", "decide", "entry", "sl", "tp", "log", "write"}
Disturbances == {"overlap", "crash", "torn", "order", "log"}

Ids(w) == {s.id : s \in w}

-----------------------------------------------------------------------------
(* armed-watch.js: the store                                               *)

\* Mutants of ArmInto: the old entry stays; the refreshed one gets a new id.
ArmIntoTwice(w, k, n, t) == w \cup {[key |-> k, id |-> n, rev |-> n, expiry |-> t + Lifetime]}
ArmIntoNewId(w, k, n, t) ==
  {s \in w : s.key # k} \cup {[key |-> k, id |-> n, rev |-> n, expiry |-> t + Lifetime]}

\* A second arm of a key refreshes its levels and expiry and keeps its id.
ArmInto(w, k, n, t) ==
  LET old == {s \in w : s.key = k}
      id  == IF old = {} THEN n ELSE (CHOOSE s \in old : TRUE).id
  IN  (w \ old) \cup {[key |-> k, id |-> id, rev |-> n, expiry |-> t + Lifetime]}

RemoveSetup(w, id) == {s \in w : s.id # id}

\* writeFileSync has truncated the file and now writes w from its start.  If
\* somebody else wrote after the truncation, the tail of the longer text may
\* stay behind the shorter: no JSON, and readWatch answers an empty watch.
Written(w) == IF watch = {} THEN {w} ELSE {w, {}}

\* Mutant of IsExpired: still alive at its expiry.
IsExpiredLate(s, t) == t > s.expiry

IsExpired(s, t) == t >= s.expiry

PruneExpired(w, t) == {s \in w : ~IsExpired(s, t)}

-----------------------------------------------------------------------------
Init ==
  /\ now = 0 /\ arms = 0
  /\ watch = {} /\ arming = {}
  /\ pc = [r \in Radars |-> "idle"]
  /\ tickNow = [r \in Radars |-> 0]
  /\ snap = [r \in Radars |-> {}]
  /\ todo = [r \in Radars |-> {}]
  /\ cur = [r \in Radars |-> NoSetup]
  /\ mine = [r \in Radars |-> 0]
  /\ brackets = <<>> /\ journal = {}
  /\ disturbed = {} /\ settled = {}

Busy == arming # {} \/ \E r \in Radars : pc[r] # "idle"

\* History: an actor that starts while another works is an overlap.
NoteStart == disturbed' = IF Busy THEN disturbed \cup {"overlap"} ELSE disturbed

Disturb(kind) == disturbed' = disturbed \cup {kind}

-----------------------------------------------------------------------------
(* The routine: journal.js arm                                             *)

ArmRead(k) ==
  /\ arming = {} /\ arms < MaxArms /\ now + Lifetime <= MaxTime
  /\ arming' = {[key |-> k, snap |-> watch, at |-> now, n |-> arms + 1, open |-> FALSE]}
  /\ arms' = arms + 1
  /\ NoteStart
  /\ UNCHANGED <<now, watch, localVars, brackets, journal, settled>>

\* writeFileSync opens the file with "w", which empties it.
ArmTruncate ==
  \E a \in arming :
    /\ ~a.open
    /\ watch' = {}
    /\ arming' = {[a EXCEPT !.open = TRUE]}
    /\ UNCHANGED <<now, arms, localVars, brackets, journal, disturbed, settled>>

ArmWrite ==
  \E a \in arming :
    /\ a.open
    /\ watch' \in Written(ArmInto(a.snap, a.key, a.n, a.at))
    /\ arming' = {}
    /\ UNCHANGED <<now, arms, localVars, brackets, journal, disturbed, settled>>

\* What a kill disturbs: the file too, when it is being rewritten.
Kill(writing) == disturbed' = disturbed \cup {"crash"} \cup IF writing THEN {"torn"} ELSE {}

ArmCrash ==
  \E a \in arming :
    /\ "crash" \in Faults
    /\ arming' = {}
    /\ Kill(a.open)
    /\ UNCHANGED <<now, arms, watch, localVars, brackets, journal, settled>>

-----------------------------------------------------------------------------
(* A tick of the radar: runRadar                                           *)

\* Reads the file and prunes what has expired (lines 182-188).
ReadWatch(r) ==
  /\ pc[r] = "idle"
  /\ pc' = [pc EXCEPT ![r] = "keys"]
  /\ tickNow' = [tickNow EXCEPT ![r] = now]
  /\ snap' = [snap EXCEPT ![r] = PruneExpired(watch, now)]
  /\ settled' = settled \cup Ids(watch \ PruneExpired(watch, now))
  /\ NoteStart
  /\ UNCHANGED <<now, arms, watch, arming, todo, cur, mine, brackets, journal>>

\* The symbol|side of the positions and of the limit orders of the account:
\* the stop and the targets are conditional market orders, which are neither.
LiveKeys == {PairOf[brackets[b].key] : b \in {x \in DOMAIN brackets : brackets[x].phase # "done"}}

\* A client without API keys is refused, the refusal is swallowed, and the
\* account looks empty; with keys, a failing call hides what it would list.
OpenKeysSeen ==
  IF ~AccountVisible THEN {{}}
  ELSE IF "keys" \in Faults THEN SUBSET LiveKeys ELSE {LiveKeys}

\* planRadar: expired or already active is dropped, confirmed is posted, the
\* rest is kept.  The mean-reversion family is always confirmed.
Plan(r) ==
  /\ pc[r] = "keys"
  /\ \E keys \in OpenKeysSeen :
       LET fresh   == PruneExpired(snap[r], tickNow[r])
           free    == {s \in fresh : PairOf[s.key] \notin keys}
           atOnce  == {s \in free : s.key \in Immediate}
       IN  \E confirmed \in SUBSET (free \ atOnce) :
             /\ todo' = [todo EXCEPT ![r] = atOnce \cup confirmed]
             /\ snap' = [snap EXCEPT ![r] = free]
             /\ settled' = settled \cup Ids(snap[r] \ free)
  /\ pc' = [pc EXCEPT ![r] = "decide"]
  /\ UNCHANGED <<now, arms, watch, arming, tickNow, cur, mine, brackets, journal, disturbed>>

\* The daily quota guard counts the journal's trades of the day; in demo it
\* only warns.  Geometry and session may refuse at any time.
QuotaReachedLate == ~DemoActive /\ Cardinality(journal) > MaxPerDay \* mutant

QuotaReached == ~DemoActive /\ Cardinality(journal) >= MaxPerDay

PreflightKO(r) ==
  /\ pc[r] = "decide"
  /\ \E s \in todo[r] : todo' = [todo EXCEPT ![r] = @ \ {s}]
  /\ UNCHANGED <<now, arms, watch, arming, pc, tickNow, snap, cur, mine, brackets, journal,
                 disturbed, settled>>

PreflightOK(r) ==
  /\ pc[r] = "decide" /\ ~QuotaReached
  /\ \E s \in todo[r] :
       /\ todo' = [todo EXCEPT ![r] = @ \ {s}]
       /\ cur' = [cur EXCEPT ![r] = s]
  /\ pc' = [pc EXCEPT ![r] = "entry"]
  /\ UNCHANGED <<now, arms, watch, arming, tickNow, snap, mine, brackets, journal, disturbed,
                 settled>>

\* bybit_place_limit_bracket sends the entry, the stop, then the targets.
\* The order is accepted and the tick goes on to `next`.
EntryAccepted(r) ==
  brackets' = Append(brackets, [key |-> cur[r].key, id |-> cur[r].id, rev |-> cur[r].rev,
                                sl |-> FALSE, tp |-> FALSE, phase |-> "resting"])

\* Mutant of PlaceEntry: the stop order is skipped.
PlaceEntryNoStop(r) ==
  /\ pc[r] = "entry" /\ r \notin DryRuns /\ Len(brackets) < MaxBrackets
  /\ EntryAccepted(r)
  /\ mine' = [mine EXCEPT ![r] = Len(brackets) + 1]
  /\ pc' = [pc EXCEPT ![r] = "tp"]
  /\ UNCHANGED <<now, arms, watch, arming, tickNow, snap, todo, cur, journal, disturbed, settled>>

PlaceEntry(r) ==
  /\ pc[r] = "entry" /\ r \notin DryRuns /\ Len(brackets) < MaxBrackets
  /\ EntryAccepted(r)
  /\ mine' = [mine EXCEPT ![r] = Len(brackets) + 1]
  /\ pc' = [pc EXCEPT ![r] = "sl"]
  /\ UNCHANGED <<now, arms, watch, arming, tickNow, snap, todo, cur, journal, disturbed, settled>>

PlaceSL(r) ==
  /\ pc[r] = "sl"
  /\ brackets' = [brackets EXCEPT ![mine[r]].sl = TRUE]
  /\ pc' = [pc EXCEPT ![r] = "tp"]
  /\ UNCHANGED <<now, arms, watch, arming, tickNow, snap, todo, cur, mine, journal, disturbed,
                 settled>>

\* Mutants of PlaceTP: the intention stays in the file; the trade is not logged.
PlaceTPKeeps(r) ==
  /\ pc[r] = "tp"
  /\ \E accepted \in BOOLEAN : brackets' = [brackets EXCEPT ![mine[r]].tp = accepted]
  /\ pc' = [pc EXCEPT ![r] = "log"]
  /\ settled' = settled \cup {cur[r].id}
  /\ UNCHANGED <<now, arms, watch, arming, tickNow, snap, todo, cur, mine, journal, disturbed>>

PlaceTPNoLog(r) ==
  /\ pc[r] = "tp"
  /\ \E accepted \in BOOLEAN : brackets' = [brackets EXCEPT ![mine[r]].tp = accepted]
  /\ pc' = [pc EXCEPT ![r] = "decide"]
  /\ snap' = [snap EXCEPT ![r] = RemoveSetup(@, cur[r].id)]
  /\ settled' = settled \cup {cur[r].id}
  /\ cur' = [cur EXCEPT ![r] = NoSetup] /\ mine' = [mine EXCEPT ![r] = 0]
  /\ UNCHANGED <<now, arms, watch, arming, tickNow, todo, journal, disturbed>>

\* A target refused before the fill (110093) is deferred: the call succeeds.
\* The intention leaves the tick's copy of the file: it has been posted.
PlaceTP(r) ==
  /\ pc[r] = "tp"
  /\ \E accepted \in BOOLEAN : brackets' = [brackets EXCEPT ![mine[r]].tp = accepted]
  /\ pc' = [pc EXCEPT ![r] = "log"]
  /\ snap' = [snap EXCEPT ![r] = RemoveSetup(@, cur[r].id)]
  /\ settled' = settled \cup {cur[r].id}
  /\ UNCHANGED <<now, arms, watch, arming, tickNow, todo, cur, mine, journal, disturbed>>

\* The tick is done with the intention in hand.
Release(r) ==
  /\ cur' = [cur EXCEPT ![r] = NoSetup]
  /\ mine' = [mine EXCEPT ![r] = 0]

\* A dry run answers before it calls the exchange, and counts as posted.
PlaceDry(r) ==
  /\ pc[r] = "entry" /\ r \in DryRuns
  /\ pc' = [pc EXCEPT ![r] = "decide"]
  /\ snap' = [snap EXCEPT ![r] = RemoveSetup(@, cur[r].id)]
  /\ settled' = settled \cup {cur[r].id}
  /\ Release(r)
  /\ UNCHANGED <<now, arms, watch, arming, tickNow, todo, brackets, journal, disturbed>>

\* Mutant of PlaceRefused: the tick stops instead of going on.
PlaceRefusedAborts(r) ==
  /\ pc[r] = "entry"
  /\ pc' = [pc EXCEPT ![r] = "aborted"]
  /\ Release(r)
  /\ UNCHANGED <<now, arms, watch, arming, tickNow, snap, todo, brackets, journal, disturbed,
                 settled>>

\* The call throws before the exchange holds anything (no credentials, margin
\* mode, refused entry, size unknown): the intention is kept for a later tick.
PlaceRefused(r) ==
  /\ pc[r] = "entry"
  /\ pc' = [pc EXCEPT ![r] = "decide"]
  /\ Release(r)
  /\ UNCHANGED <<now, arms, watch, arming, tickNow, snap, todo, brackets, journal, disturbed,
                 settled>>

\* The call throws with the entry on the exchange: its answer was lost, or
\* the stop or a target failed.  The intention is kept all the same.
PlaceBroken(r) ==
  /\ "order" \in Faults
  /\ \/ /\ pc[r] = "entry" /\ r \notin DryRuns /\ Len(brackets) < MaxBrackets
        /\ EntryAccepted(r)
     \/ /\ pc[r] \in {"sl", "tp"}
        /\ UNCHANGED brackets
  /\ pc' = [pc EXCEPT ![r] = "decide"]
  /\ Release(r)
  /\ Disturb("order")
  /\ UNCHANGED <<now, arms, watch, arming, tickNow, snap, todo, journal, settled>>

LogTrade(r) ==
  /\ pc[r] = "log"
  /\ journal' = journal \cup {mine[r]}
  /\ pc' = [pc EXCEPT ![r] = "decide"]
  /\ Release(r)
  /\ UNCHANGED <<now, arms, watch, arming, tickNow, snap, todo, brackets, disturbed, settled>>

\* logTrade answers false: the trade counts as posted and is never logged.
LogFails(r) ==
  /\ pc[r] = "log" /\ "log" \in Faults
  /\ pc' = [pc EXCEPT ![r] = "decide"]
  /\ Release(r)
  /\ Disturb("log")
  /\ UNCHANGED <<now, arms, watch, arming, tickNow, snap, todo, brackets, journal, settled>>

\* Mutant of TruncateWatch: the file is written only if something was posted.
TruncateWatchIfPosted(r) ==
  /\ pc[r] = "decide" /\ todo[r] = {}
  /\ IF brackets = <<>>
       THEN /\ pc' = [pc EXCEPT ![r] = "idle"]
            /\ snap' = [snap EXCEPT ![r] = {}]
            /\ UNCHANGED watch
       ELSE /\ pc' = [pc EXCEPT ![r] = "write"]
            /\ watch' = {}
            /\ UNCHANGED snap
  /\ tickNow' = [tickNow EXCEPT ![r] = 0]
  /\ UNCHANGED <<now, arms, arming, todo, cur, mine, brackets, journal, disturbed, settled>>

\* The tick ends by writing its copy over the file: it opens it, which
\* empties it, and then writes.
TruncateWatch(r) ==
  /\ pc[r] = "decide" /\ todo[r] = {}
  /\ pc' = [pc EXCEPT ![r] = "write"]
  /\ watch' = {}
  /\ tickNow' = [tickNow EXCEPT ![r] = 0]
  /\ UNCHANGED <<now, arms, arming, snap, todo, cur, mine, brackets, journal, disturbed, settled>>

WriteWatch(r) ==
  /\ pc[r] = "write"
  /\ watch' \in Written(snap[r])
  /\ pc' = [pc EXCEPT ![r] = "idle"]
  /\ snap' = [snap EXCEPT ![r] = {}]
  /\ UNCHANGED <<now, arms, arming, tickNow, todo, cur, mine, brackets, journal, disturbed, settled>>

\* The scheduler kills the tick (10 min limit) or the machine stops.
Crash(r) ==
  /\ "crash" \in Faults /\ pc[r] # "idle"
  /\ pc' = [pc EXCEPT ![r] = "idle"]
  /\ snap' = [snap EXCEPT ![r] = {}]
  /\ todo' = [todo EXCEPT ![r] = {}]
  /\ tickNow' = [tickNow EXCEPT ![r] = 0]
  /\ Release(r)
  /\ Kill(pc[r] = "write")
  /\ UNCHANGED <<now, arms, watch, arming, brackets, journal, settled>>

-----------------------------------------------------------------------------
(* The environment: the market, the exchange, the clock                    *)

EntryFills(b) ==
  /\ brackets[b].phase = "resting"
  /\ brackets' = [brackets EXCEPT ![b].phase = "filled"]
  /\ UNCHANGED <<now, arms, watch, arming, localVars, journal, disturbed, settled>>

PositionEnds(b) ==
  /\ brackets[b].phase = "filled"
  /\ brackets' = [brackets EXCEPT ![b].phase = "done"]
  /\ UNCHANGED <<now, arms, watch, arming, localVars, journal, disturbed, settled>>

TimePasses ==
  /\ now < MaxTime
  /\ now' = now + 1
  /\ UNCHANGED <<arms, watch, arming, localVars, brackets, journal, disturbed, settled>>

-----------------------------------------------------------------------------
TickStep(r) ==
  \/ ReadWatch(r) \/ Plan(r) \/ PreflightOK(r) \/ PreflightKO(r)
  \/ PlaceEntry(r) \/ PlaceSL(r) \/ PlaceTP(r) \/ PlaceDry(r) \/ PlaceRefused(r)
  \/ PlaceBroken(r) \/ LogTrade(r) \/ LogFails(r) \/ TruncateWatch(r) \/ WriteWatch(r)

ArmStep == ArmTruncate \/ ArmWrite

Next ==
  \/ \E k \in Keys : ArmRead(k)
  \/ ArmStep \/ ArmCrash
  \/ \E r \in Radars : TickStep(r) \/ Crash(r)
  \/ \E b \in DOMAIN brackets : EntryFills(b) \/ PositionEnds(b)
  \/ TimePasses

Spec == Init /\ [][Next]_vars

\* The task scheduler starts ticks for ever and a command that has started
\* runs on: weak fairness of every actor and of the clock.  Nothing is
\* assumed of the market, of the routine, or of the kills.
Fairness ==
  /\ \A r \in Radars : WF_vars(TickStep(r))
  /\ WF_vars(ArmStep)
  /\ WF_vars(TimePasses)

FairSpec == Spec /\ Fairness

-----------------------------------------------------------------------------
(* Properties                                                              *)

TypeOK ==
  /\ now \in Nat /\ arms \in Nat
  /\ watch \subseteq Setup
  /\ arming \subseteq [key : Keys, snap : SUBSET Setup, at : Nat, n : Nat, open : BOOLEAN]
  /\ pc \in [Radars -> PCs]
  /\ tickNow \in [Radars -> Nat]
  /\ snap \in [Radars -> SUBSET Setup]
  /\ todo \in [Radars -> SUBSET Setup]
  /\ cur \in [Radars -> Setup \cup {NoSetup}]
  /\ mine \in [Radars -> Nat]
  /\ brackets \in Seq(Bracket)
  /\ journal \subseteq Nat
  /\ disturbed \subseteq Disturbances
  /\ settled \subseteq Nat

Undisturbed(kinds) == disturbed \cap kinds = {}

\* The no-duplicate promise of armSetup: one intention per symbol|side|setup
\* in the file, however the arm command and the ticks interleave.
OneIntentionPerKey == \A s, t \in watch : s.key = t.key => s = t

\* "No-duplicate (idempotence)" of the radar: as long as no two actors
\* overlapped, no tick was killed and no placement broke half way, an armed
\* intention has put at most one bracket on the exchange, whatever the
\* account lookup saw and whether or not the journal could be written.
IdempotentUnlessDisturbed ==
  Undisturbed({"overlap", "crash", "order"}) =>
    \A a, b \in DOMAIN brackets : brackets[a].id = brackets[b].id => a = b

\* A bracket on the exchange is known to the journal, or its own tick is
\* still busy with it; only a kill, a broken placement or a failed log
\* leaves one nobody accounts for.  Overlapping ticks do not.
JournalledUnlessDisturbed ==
  Undisturbed({"crash", "order", "log"}) =>
    \A b \in DOMAIN brackets :
      b \in journal \/ \E r \in Radars : mine[r] = b /\ pc[r] \in {"sl", "tp", "log"}

\* A bracket is without its stop-loss only while the tick that places it is
\* between the two orders; overlapping ticks never strip it.
StopUnlessDisturbed ==
  Undisturbed({"crash", "order"}) =>
    \A b \in DOMAIN brackets :
      brackets[b].sl \/ \E r \in Radars : mine[r] = b /\ pc[r] = "sl"

\* Strict mode (DEMO_ACTIVE unset): the quota of trades per day holds on the
\* exchange, although it is counted in the journal before the order is sent.
QuotaUnlessDisturbed ==
  (~DemoActive /\ disturbed = {}) => Len(brackets) <= MaxPerDay

\* An intention that was already expired when the tick started is never
\* posted by it, whatever the other actors do meanwhile.
NeverPostsExpired ==
  [][\A r \in Radars : (pc[r] = "entry" /\ brackets' # brackets /\ pc'[r] # "entry")
        => tickNow[r] < cur[r].expiry]_vars

\* The intentions in the file, or about to be: what an actor that has
\* truncated it is going to write.
Stored ==
  watch \cup (UNION {snap[r] : r \in {q \in Radars : pc[q] = "write"}})
        \cup (UNION {ArmInto(a.snap, a.key, a.n, a.at) : a \in {b \in arming : b.open}})

\* No lost update of armed-watch.json: without overlap an intention leaves
\* the file only after a tick posted it, found it active or let it expire,
\* and its levels never go back to an older revision.  A kill of a tick or of
\* the command loses nothing either, but for the one that falls between the
\* truncation of the file and its write, which tears it.
NoLostUpdate ==
  [][(disturbed' \cap {"overlap", "torn"} = {}) =>
       \A s \in Stored : \/ s.id \in settled'
                         \/ \E t \in Stored' : t.id = s.id /\ t.rev >= s.rev]_vars

\* Every intention is disposed of in the end: its file entry does not stay
\* for ever, even when the preflight keeps refusing it, the candle never
\* confirms, or a stale tick writes it back.
EveryIntentionLeaves == \A n \in 1..MaxArms : n \in Ids(Stored) ~> n \notin Ids(Stored)

-----------------------------------------------------------------------------
(* What a comment of the code claims without condition                     *)

\* entry-radar.js:12, "no-duplicate (idempotence)": never two live brackets
\* for the same symbol|side.
NoDuplicate ==
  \A a, b \in DOMAIN brackets :
    (/\ PairOf[brackets[a].key] = PairOf[brackets[b].key]
     /\ brackets[a].phase # "done" /\ brackets[b].phase # "done") => a = b

=============================================================================
