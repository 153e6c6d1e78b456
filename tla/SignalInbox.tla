---------------------------- MODULE SignalInbox -----------------------------
(***************************************************************************)
(* From a TradingView webhook to a bracket on Bybit: the webhook writes    *)
(* each signal as a file of signals/, named by the second it came and its  *)
(* market; the executor handles the files in the order of their names, a   *)
(* few per cycle, and moves each to processed/ with its outcome.           *)
(*                                                                         *)
(* The two are separate processes.  A file may be read half written, two   *)
(* signals of one second and market share a name, any call to the exchange *)
(* may fail or succeed with its answer lost, and a kill or a failing move  *)
(* leaves a handled file in the inbox.                                     *)
(*                                                                         *)
(* Abstractions.  A signal is its number, in order of arrival, its market  *)
(* and its kind.  Sizes and levels are left out: one that the guard-rails  *)
(* of the bracket refuse is of a kind of its own.                          *)
(***************************************************************************)
EXTENDS Naturals, Sequences, FiniteSets

CONSTANTS
  Markets,        \* a set of numbers: the order of the names of one second
  KindsSent,      \* the kinds of signals that arrive
  Live,           \* EXECUTOR_LIVE=1
  MaxPerCycle,    \* EXECUTOR_MAX_PER_CYCLE
  MaxSecond, MaxSignals, MaxFaults   \* bounds of the exploration

\* What processFile tells apart: an exchange without handler, a signal
\* without stop or targets, a close, an open whose levels or fractions are
\* wrong, an open.
Kinds == {"foreign", "bare", "close", "crooked", "open"}

ASSUME InboxAssumption ==
  /\ Markets \subseteq Nat /\ IsFiniteSet(Markets) /\ KindsSent \subseteq Kinds
  /\ Live \in BOOLEAN /\ MaxPerCycle \in Nat \ {0}
  /\ MaxSecond \in Nat /\ MaxSignals \in Nat /\ MaxFaults \in Nat

VARIABLES
  second,     \* the clock of the webhook
  sent,       \* the signals answered or being written, in order
  inbox,      \* the files: name -> number of the signal
  writing,    \* the names whose file is not whole yet: at most one
  processed,  \* the archived outcomes: set of <<signal, outcome>>
  phase,      \* where the executor is
  batch,      \* the names it will handle in this cycle
  held,       \* the signal it read, 0 if the file was not whole
  outcome,    \* the outcome it will archive
  orders,     \* the entries and closes sent to the exchange, in order
  stopped,    \* the signals whose stop-loss was accepted
  spoiled,    \* history: signals overwritten or read half written
  retried,    \* history: signals in hand when the executor was killed
  stuck,      \* history: signals whose file could not be moved
  faults      \* history: kills and moves that failed

webhook == <<second, sent, writing>>
account == <<orders, stopped>>
inboxVars == <<webhook, inbox, processed, phase, batch, held, outcome, account,
               spoiled, retried, stuck, faults>>

Names == (0..MaxSecond) \X Markets
Phases == {"idle", "read", "close", "entry", "poll", "stop", "targets", "archive", "unlink"}
Outcomes == {"none", "invalid", "skipped", "rejected", "dry", "closed", "error",
             "unseen", "executed"}

\* Archived with executed: true: a bracket that went to its end, and one whose
\* position was never seen; the result of the second has partial and a warning.
Executed == {"executed", "unseen"}

InboxTypeOK ==
  /\ second \in 0..MaxSecond
  /\ sent \in Seq([mkt : Markets, kind : Kinds]) /\ Len(sent) <= MaxSignals
  /\ DOMAIN inbox \subseteq Names /\ \A f \in DOMAIN inbox : inbox[f] \in DOMAIN sent
  /\ writing \subseteq DOMAIN inbox /\ \A f, g \in writing : f = g
  /\ processed \subseteq (DOMAIN sent) \X Outcomes
  /\ phase \in Phases /\ outcome \in Outcomes
  /\ batch \in Seq(Names) /\ held \in 0..Len(sent)
  /\ orders \in Seq(DOMAIN sent) /\ stopped \subseteq DOMAIN sent
  /\ spoiled \subseteq DOMAIN sent /\ retried \subseteq DOMAIN sent
  /\ stuck \subseteq DOMAIN sent /\ faults \in 0..MaxFaults

InboxInit ==
  /\ second = 0 /\ sent = <<>> /\ inbox = <<>> /\ writing = {}
  /\ processed = {} /\ phase = "idle" /\ batch = <<>> /\ held = 0 /\ outcome = "none"
  /\ orders = <<>> /\ stopped = {} /\ spoiled = {} /\ retried = {} /\ stuck = {} /\ faults = 0

Without(files, f) == [g \in DOMAIN files \ {f} |-> files[g]]

-----------------------------------------------------------------------------
(* The webhook                                                             *)

SecondPasses ==
  /\ second < MaxSecond /\ second' = second + 1
  /\ UNCHANGED <<sent, writing, inbox, processed, phase, batch, held, outcome,
                 account, spoiled, retried, stuck, faults>>

\* Mutant of OneWriter: a plain handler, which runs in a pool of threads.
AnyWriter == TRUE

\* The handler is async and never awaits while it writes.
OneWriter == writing = {}

\* write_signal opens the file, which empties the one of that name.
CreateFile(m, k) ==
  LET f == <<second, m>> IN
  /\ OneWriter /\ Len(sent) < MaxSignals
  /\ sent' = Append(sent, [mkt |-> m, kind |-> k])
  /\ inbox' = [g \in DOMAIN inbox \cup {f} |-> IF g = f THEN Len(sent) + 1 ELSE inbox[g]]
  /\ writing' = writing \cup {f}
  /\ spoiled' = IF f \in DOMAIN inbox THEN spoiled \cup {inbox[f]} ELSE spoiled
  /\ UNCHANGED <<second, processed, phase, batch, held, outcome, account, retried, stuck, faults>>

FinishFile ==
  /\ writing # {} /\ writing' = {}
  /\ UNCHANGED <<second, sent, inbox, processed, phase, batch, held, outcome,
                 account, spoiled, retried, stuck, faults>>

-----------------------------------------------------------------------------
(* The executor                                                            *)

Before(f, g) == f[1] < g[1] \/ (f[1] = g[1] /\ f[2] < g[2])

\* Mutant of InOrder: the order of the directory, which may be any.
AnyOrder(s) == TRUE

InOrder(s) == \A i, j \in DOMAIN s : i < j => Before(s[i], s[j])

\* readdir, sort, slice.
ListInbox ==
  /\ phase = "idle" /\ DOMAIN inbox # {}
  /\ LET n == IF Cardinality(DOMAIN inbox) < MaxPerCycle
              THEN Cardinality(DOMAIN inbox) ELSE MaxPerCycle
     IN  \E s \in [1..n -> DOMAIN inbox] :
           /\ InOrder(s)
           /\ \A i, j \in 1..n : i # j => s[i] # s[j]
           /\ \A f \in DOMAIN inbox \ {s[i] : i \in 1..n} : InOrder(Append(s, f))
           /\ batch' = s
  /\ phase' = "read"
  /\ UNCHANGED <<webhook, inbox, processed, held, outcome, account, spoiled, retried, stuck, faults>>

\* The guard-rails of bybit_place_bracket_scaled, before the plan of a dry run
\* and before any order: the stop and the targets are on their sides of the
\* entry, and the fractions sum to one.
GuardRailsPass(k) == k # "crooked"

\* Mutant of Route: a signal of another exchange is removed without a word.
RouteIgnores(k) ==
  CASE k = "foreign" -> <<"unlink", "skipped">>
    [] k = "close"   -> <<"close", "none">>
    [] k = "bare"    -> <<"archive", "rejected">>
    [] ~GuardRailsPass(k) -> <<"archive", "error">>
    [] OTHER         -> IF Live THEN <<"entry", "none">> ELSE <<"archive", "dry">>

\* The next step for a signal that is read whole, and its outcome so far.
Route(k) ==
  CASE k = "foreign" -> <<"archive", "skipped">>
    [] k = "close"   -> <<"close", "none">>
    [] k = "bare"    -> <<"archive", "rejected">>
    [] ~GuardRailsPass(k) -> <<"archive", "error">>
    [] OTHER         -> IF Live THEN <<"entry", "none">> ELSE <<"archive", "dry">>

ReadFile ==
  /\ phase = "read" /\ batch # <<>>
  /\ LET f == Head(batch) IN
     IF f \in writing
     THEN /\ held' = 0 /\ phase' = "archive" /\ outcome' = "invalid"
          /\ spoiled' = spoiled \cup {inbox[f]}
     ELSE /\ held' = inbox[f] /\ spoiled' = spoiled
          /\ phase' = Route(sent[inbox[f]].kind)[1]
          /\ outcome' = Route(sent[inbox[f]].kind)[2]
  /\ UNCHANGED <<webhook, inbox, processed, batch, account, retried, stuck, faults>>

Reaches(step, res) ==
  /\ phase' = step /\ outcome' = res
  /\ UNCHANGED <<webhook, inbox, processed, batch, held, spoiled, retried, stuck, faults>>

\* bybit_close_position: the answer of an accepted order may be lost.
Close ==
  /\ phase = "close"
  /\ \/ orders' = Append(orders, held) /\ Reaches("archive", "closed")
     \/ orders' = Append(orders, held) /\ Reaches("archive", "error")
     \/ orders' = orders /\ \E res \in {"closed", "error"} : Reaches("archive", res)
  /\ stopped' = stopped

\* bybit_place_bracket_scaled: the market order, the polls, the stop, the
\* targets.  A throw at any of them ends the call.
MarketEntry ==
  /\ phase = "entry"
  /\ \/ orders' = Append(orders, held) /\ Reaches("poll", "none")
     \/ orders' = Append(orders, held) /\ Reaches("archive", "error")
     \/ orders' = orders /\ Reaches("archive", "error")
  /\ stopped' = stopped

\* Mutant of AfterPolls: the call that never saw its position returns as one
\* that did, without partial.
AfterPollsQuiet == Reaches("archive", "executed")

\* Ten polls without a position return without stop or targets, and the
\* executor archives the result as executed.
AfterPolls ==
  Reaches("stop", "none") \/ Reaches("archive", "unseen") \/ Reaches("archive", "error")

PollPosition ==
  /\ phase = "poll"
  /\ AfterPolls
  /\ UNCHANGED account

AttachStop ==
  /\ phase = "stop"
  /\ \/ stopped' = stopped \cup {held} /\ Reaches("targets", "none")
     \/ stopped' = stopped \cup {held} /\ Reaches("archive", "error")
     \/ stopped' = stopped /\ Reaches("archive", "error")
  /\ orders' = orders

AttachTargets ==
  /\ phase = "targets"
  /\ \E res \in {"executed", "error"} : Reaches("archive", res)
  /\ UNCHANGED account

\* archive reads the file again, and what it finds there it marks and moves.
WriteOutcome ==
  /\ phase = "archive" /\ Head(batch) \notin writing
  /\ processed' = processed \cup {<<inbox[Head(batch)], outcome>>}
  /\ spoiled' = IF inbox[Head(batch)] # held THEN spoiled \cup {inbox[Head(batch)]} ELSE spoiled
  /\ phase' = "unlink"
  /\ UNCHANGED <<webhook, inbox, batch, held, outcome, account, retried, stuck, faults>>

\* The original is removed; a file that is not whole is renamed instead, and
\* moves without an outcome.
RemoveFile ==
  LET f == Head(batch) IN
  /\ phase = "unlink" \/ (phase = "archive" /\ f \in writing)
  /\ inbox' = Without(inbox, f)
  /\ spoiled' = IF inbox[f] # held THEN spoiled \cup {inbox[f]} ELSE spoiled
  /\ writing' = writing \ {f}
  /\ batch' = Tail(batch)
  /\ phase' = IF Len(batch) = 1 THEN "idle" ELSE "read"
  /\ held' = 0 /\ outcome' = "none"
  /\ UNCHANGED <<second, sent, processed, account, retried, stuck, faults>>

\* Neither the copy nor the rename succeeds: best effort, the file stays.
ArchiveFails ==
  /\ phase \in {"archive", "unlink"} /\ faults < MaxFaults
  /\ faults' = faults + 1
  /\ stuck' = IF held = 0 THEN stuck ELSE stuck \cup {held}
  /\ batch' = Tail(batch)
  /\ phase' = IF Len(batch) = 1 THEN "idle" ELSE "read"
  /\ held' = 0 /\ outcome' = "none"
  /\ UNCHANGED <<webhook, inbox, processed, account, spoiled, retried>>

KillExecutor ==
  /\ phase # "idle" /\ faults < MaxFaults
  /\ faults' = faults + 1
  /\ retried' = IF held = 0 THEN retried ELSE retried \cup {held}
  /\ phase' = "idle" /\ batch' = <<>> /\ held' = 0 /\ outcome' = "none"
  /\ UNCHANGED <<webhook, inbox, processed, account, spoiled, stuck>>

-----------------------------------------------------------------------------
ExecutorStep ==
  \/ ListInbox \/ ReadFile \/ Close \/ MarketEntry \/ PollPosition
  \/ AttachStop \/ AttachTargets \/ WriteOutcome \/ RemoveFile

InboxNext ==
  \/ SecondPasses \/ FinishFile
  \/ \E m \in Markets, k \in KindsSent : CreateFile(m, k)
  \/ ExecutorStep \/ ArchiveFails \/ KillExecutor

InboxSpec == InboxInit /\ [][InboxNext]_inboxVars

\* The worker polls for ever (--watch), and a write that began ends.
InboxFair == WF_inboxVars(ExecutorStep) /\ WF_inboxVars(FinishFile)

-----------------------------------------------------------------------------
First(n) == CHOOSE i \in DOMAIN orders : orders[i] = n /\ \A j \in 1..i - 1 : orders[j] # n

\* A signal acts on the account once, unless a kill or a failing move left
\* its file in the inbox after it was read (signal_executor.js lines 91-98
\* and 103-118).
ActsOnce ==
  \A i, j \in DOMAIN orders : i # j /\ orders[i] = orders[j] =>
    orders[i] \in retried \cup stuck

\* The signals of one market act in the order they arrived, also across
\* cycles and kills: no close overtakes the open it follows (lines 121-128).
\* Only a file that could not be moved is tried again after later ones.
MarketOrder ==
  \A m, n \in {orders[i] : i \in DOMAIN orders} :
    sent[m].mkt = sent[n].mkt /\ m < n /\ m \notin stuck => First(m) < First(n)

SignalsOnceInOrder == ActsOnce /\ MarketOrder

\* A signal archived with executed: true has its stop, or the archived result
\* says by its partial that the stop is still to be set.  Only a signal whose
\* file was overwritten or read half written may carry another one's outcome
\* (signal_executor.js lines 91-98 and 107-113; skills/bybit/index.js lines
\* 255-270).
StopOrWarning ==
  \A n \in DOMAIN sent \ spoiled, o \in Executed :
    <<n, o>> \in processed => n \in stopped \/ o = "unseen"

\* Every signal is archived in the end, or was lost because its file was
\* overwritten or read half written.
SignalsHandled ==
  \A n \in 1..MaxSignals :
    n \in DOMAIN sent ~> n \in spoiled \/ \E o \in Outcomes : <<n, o>> \in processed
=============================================================================
