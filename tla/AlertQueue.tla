----------------------------- MODULE AlertQueue -----------------------------
(***************************************************************************)
(* tv-alerts.jsonl, the queue of TIMING alerts.  The listener appends what *)
(* TradingView posts, the signal tick what the scan of a bar finds, and    *)
(* the ticks of the radar read on from a line number kept in the file      *)
(* tv-alerts.offset, and wake the armed intentions that the alerts match.  *)
(*                                                                         *)
(* The listener knows what it has queued from memory, the signal tick from *)
(* the queue itself.  Ticks of the radar overlap, and any process may be   *)
(* killed between two of its steps; a write of the offset empties the file *)
(* first.  Only one signal tick runs at a time: it is a step of the task   *)
(* entry-radar.ps1, of which the scheduler runs one instance.              *)
(*                                                                         *)
(* Abstractions.  An alert is its id.  Posts that fail the check of the    *)
(* secret or of the fields change nothing and are left out.                *)
(***************************************************************************)
EXTENDS Naturals, Sequences, FiniteSets

CONSTANTS
  PostedIds,     \* the ids of the alerts that TradingView posts
  ScannedIds,    \* the ids (market, edge, timeframe, bar) that scans find
  Readers,       \* the ticks of the radar that may run at the same time
  MaxLines, MaxRestarts, MaxKills   \* bounds of the exploration

ASSUME QueueAssumption ==
  /\ IsFiniteSet(PostedIds \cup ScannedIds)
  /\ MaxLines \in Nat /\ MaxRestarts \in Nat /\ MaxKills \in Nat

VARIABLES
  queue,      \* tv-alerts.jsonl: per line the id and which run of a source wrote it
  offset,     \* tv-alerts.offset: the number of lines read
  seen,       \* the listener's memory of ids
  restarts,   \* the number of times the listener was started again
  fresh,      \* what the signal tick under way will append
  scanning,   \* is a signal tick between its read and its append?
  at,         \* where each tick of the radar is
  next,       \* the number of lines it has read up to
  hand,       \* the lines it has read
  acked,      \* history: ids whose post was answered 200
  dropped,    \* history: ids answered 500, which were not queued
  heard,      \* history: lines that woke what they match
  wasted,     \* history: lines in the hands of a tick that was killed
  kills       \* history: the number of ticks killed

listener == <<seen, restarts, acked, dropped>>
scanner == <<fresh, scanning>>
readers == <<offset, at, next, hand, heard, wasted, kills>>
queueVars == <<queue, listener, scanner, readers>>

Self == MaxRestarts + 1   \* the source of the lines of the signal tick

AlertLine == [id : PostedIds \cup ScannedIds, by : 0..Self]

QueueTypeOK ==
  /\ queue \in Seq(AlertLine) /\ offset \in Nat
  /\ seen \subseteq PostedIds /\ acked \subseteq PostedIds /\ dropped \subseteq PostedIds
  /\ restarts \in 0..MaxRestarts
  /\ fresh \subseteq ScannedIds /\ scanning \in BOOLEAN
  /\ at \in [Readers -> {"idle", "read", "emptied", "saved"}]
  /\ next \in [Readers -> Nat]
  /\ hand \in [Readers -> SUBSET Nat]
  /\ heard \subseteq Nat /\ wasted \subseteq Nat /\ kills \in Nat

QueueInit ==
  /\ queue = <<>> /\ offset = 0
  /\ seen = {} /\ restarts = 0 /\ acked = {} /\ dropped = {}
  /\ fresh = {} /\ scanning = FALSE
  /\ at = [r \in Readers |-> "idle"]
  /\ next = [r \in Readers |-> 0]
  /\ hand = [r \in Readers |-> {}]
  /\ heard = {} /\ wasted = {} /\ kills = 0

QueuedIds == {queue[i].id : i \in DOMAIN queue}

-----------------------------------------------------------------------------
(* The listener                                                            *)

\* Mutant of QueuePost: the answer is 200 although the append failed.
QueuePostQuietly(id) ==
  /\ acked' = acked \cup {id}
  /\ queue' = queue /\ dropped' = dropped

Remember(id) == seen' = seen \cup {id}

\* appendFileSync and its failure.
QueuePost(id) ==
  \/ /\ queue' = Append(queue, [id |-> id, by |-> restarts])
     /\ acked' = acked \cup {id} /\ dropped' = dropped
  \/ /\ dropped' = dropped \cup {id}
     /\ UNCHANGED <<queue, acked>>

Post(id) ==
  /\ id \notin seen /\ Len(queue) < MaxLines
  /\ Remember(id)
  /\ QueuePost(id)
  /\ UNCHANGED <<restarts, scanner, readers>>

PostDuplicate(id) ==
  /\ id \in seen
  /\ acked' = acked \cup {id}
  /\ UNCHANGED <<queue, seen, restarts, dropped, scanner, readers>>

Restart ==
  /\ restarts < MaxRestarts
  /\ restarts' = restarts + 1
  /\ seen' = {}
  /\ UNCHANGED <<queue, acked, dropped, scanner, readers>>

-----------------------------------------------------------------------------
(* The signal tick                                                         *)

SignalsFromScans(opps) == opps \ QueuedIds

ScanBar ==
  /\ ~scanning
  /\ scanning' = TRUE
  /\ \E opps \in SUBSET ScannedIds : fresh' = SignalsFromScans(opps)
  /\ UNCHANGED <<queue, listener, readers>>

\* The lines are appended in one write, in the order of the scan.
AppendSignals ==
  /\ scanning /\ Len(queue) + Cardinality(fresh) <= MaxLines
  /\ scanning' = FALSE /\ fresh' = {}
  /\ \E lines \in [1..Cardinality(fresh) -> [id : fresh, by : {Self}]] :
        /\ {lines[i].id : i \in DOMAIN lines} = fresh
        /\ \A i, j \in DOMAIN lines : lines[i].id = lines[j].id => i = j
        /\ queue' = queue \o lines
  /\ UNCHANGED <<listener, readers>>

\* The append fails, or the tick is killed before it.
AppendSignalsFails ==
  /\ scanning
  /\ scanning' = FALSE /\ fresh' = {}
  /\ UNCHANGED <<queue, listener, readers>>

-----------------------------------------------------------------------------
(* The ticks of the radar                                                  *)

\* Mutant of NewLines: the line at the offset is skipped.
NewLinesOffByOne(from) == from + 2 .. Len(queue)

NewLines(from) == from + 1 .. Len(queue)

\* A file shorter than the offset gives nothing, and the offset goes back.
ReadNewAlerts(r) ==
  /\ at[r] = "idle"
  /\ at' = [at EXCEPT ![r] = "read"]
  /\ hand' = [hand EXCEPT ![r] = NewLines(offset)]
  /\ next' = [next EXCEPT ![r] = Len(queue)]
  /\ UNCHANGED <<queue, listener, scanner, offset, heard, wasted, kills>>

EmptyOffset(r) ==
  /\ at[r] = "read"
  /\ at' = [at EXCEPT ![r] = "emptied"]
  /\ offset' = 0
  /\ UNCHANGED <<queue, listener, scanner, next, hand, heard, wasted, kills>>

SaveOffset(r) ==
  /\ at[r] = "emptied"
  /\ at' = [at EXCEPT ![r] = "saved"]
  /\ offset' = next[r]
  /\ UNCHANGED <<queue, listener, scanner, next, hand, heard, wasted, kills>>

\* saveOffset swallows a failure: the tick goes on with what it has read.
SaveOffsetFails(r) ==
  /\ at[r] = "read"
  /\ at' = [at EXCEPT ![r] = "saved"]
  /\ UNCHANGED <<queue, listener, scanner, offset, next, hand, heard, wasted, kills>>

\* planRadar with the keys that the alerts wake.
WakeSetups(r) ==
  /\ at[r] = "saved"
  /\ at' = [at EXCEPT ![r] = "idle"]
  /\ heard' = heard \cup hand[r]
  /\ hand' = [hand EXCEPT ![r] = {}] /\ next' = [next EXCEPT ![r] = 0]
  /\ UNCHANGED <<queue, listener, scanner, offset, wasted, kills>>

KillReader(r) ==
  /\ at[r] # "idle" /\ kills < MaxKills
  /\ kills' = kills + 1
  /\ at' = [at EXCEPT ![r] = "idle"]
  /\ wasted' = IF at[r] = "saved" THEN wasted \cup hand[r] ELSE wasted
  /\ hand' = [hand EXCEPT ![r] = {}] /\ next' = [next EXCEPT ![r] = 0]
  /\ UNCHANGED <<queue, listener, scanner, offset, heard>>

-----------------------------------------------------------------------------
ReaderStep(r) ==
  \/ ReadNewAlerts(r) \/ EmptyOffset(r) \/ SaveOffset(r) \/ SaveOffsetFails(r)
  \/ WakeSetups(r)

QueueNext ==
  \/ \E id \in PostedIds : Post(id) \/ PostDuplicate(id)
  \/ Restart
  \/ ScanBar \/ AppendSignals \/ AppendSignalsFails
  \/ \E r \in Readers : ReaderStep(r) \/ KillReader(r)

QueueSpec == QueueInit /\ [][QueueNext]_queueVars

-----------------------------------------------------------------------------
\* Every alert that was answered 200 is in the queue, unless an append of it
\* failed: the listener has marked it as seen then, and answers the retry
\* of TradingView with 200 (tv-listener.js lines 43-44 and 74-77).
AnsweredIsQueued == \A id \in acked \ dropped : id \in QueuedIds

\* A line below the offset has woken what it matches, or a tick holds it, or
\* a tick died with it after it saved the offset.
Covered(i) ==
  \/ i \in heard \cup wasted
  \/ \E r \in Readers : at[r] = "saved" /\ i \in hand[r]

\* No alert is passed over: neither by ticks that overlap and save their
\* offsets in any order, nor by a tick killed while it writes the offset
\* (entry-radar.js lines 161-171 and 203-207).
NothingSkipped == \A i \in 1..offset : Covered(i)

\* One run of the listener queues an id once, and so do all signal ticks
\* together, whenever they were killed (lines 43-44; signal-tick.js lines
\* 31-33).  The two sources do not see each other's alerts in time.
QueuedOnce ==
  \A i, j \in DOMAIN queue :
    queue[i].id = queue[j].id /\ queue[i].by = queue[j].by => i = j

\* What the queue is for: an alert is queued once for every source that has
\* it, and read by the radar.
AlertsKept == AnsweredIsQueued /\ NothingSkipped /\ QueuedOnce
=============================================================================
