------------------------- MODULE SignalInboxProofs --------------------------
(***************************************************************************)
(* Whatever the markets, the bounds and the faults: a signal acts on the   *)
(* account once unless a kill or a failing move left its file behind, the  *)
(* signals of one market act in the order they arrived, and a signal       *)
(* archived as executed has its stop or a result that says it has none.    *)
(***************************************************************************)
EXTENDS SignalInbox, Induction

Calls == {"close", "entry", "poll", "stop", "targets"}

\* The batch is a list of different files of the inbox; the executor works
\* on its head, which was read whole before a call is made for it.
BatchHolds ==
  /\ \A i \in DOMAIN batch : batch[i] \in DOMAIN inbox
  /\ \A i, j \in DOMAIN batch : batch[i] = batch[j] => i = j
  /\ phase = "idle" <=> batch = <<>>
  /\ phase \in Calls => held # 0

\* A signal has one file at most, and the one in hand is that of the head.
FilesHold ==
  /\ \A f, g \in DOMAIN inbox : inbox[f] = inbox[g] => f = g
  /\ \A f \in DOMAIN inbox : held # 0 /\ inbox[f] = held => f = Head(batch)
  /\ phase \in {"idle", "read"} => held = 0

Acted == {orders[i] : i \in DOMAIN orders}
Excused == retried \cup stuck

\* A signal that acted has no file any more, unless it is in hand or excused.
OrdersHold ==
  /\ \A f \in DOMAIN inbox :
       inbox[f] \in Acted => \/ inbox[f] \in Excused
                             \/ inbox[f] = held /\ phase \in {"poll", "stop", "targets", "archive", "unlink"}
  /\ phase \in {"close", "entry"} /\ held \in Acted => held \in Excused

\* The stop of the signal in hand, once it is said to be there.
StopHolds == outcome = "executed" \/ phase = "targets" => held \in stopped

-----------------------------------------------------------------------------
(* Names and lists                                                         *)

\* What is left of a batch of different names when its head is done.
LEMMA TailOf ==
  ASSUME NEW b \in Seq(Names), b # <<>>,
         \A i, j \in DOMAIN b : b[i] = b[j] => i = j
  PROVE  /\ Tail(b) \in Seq(Names)
         /\ \A i \in DOMAIN Tail(b) : i + 1 \in DOMAIN b /\ Tail(b)[i] = b[i + 1]
         /\ \A i \in DOMAIN Tail(b) : Tail(b)[i] # Head(b)
         /\ \A i, j \in DOMAIN Tail(b) : Tail(b)[i] = Tail(b)[j] => i = j
         /\ Len(b) = 1 <=> Tail(b) = <<>>
         /\ Head(b) = b[1] /\ 1 \in DOMAIN b
<1>1. /\ Tail(b) \in Seq(Names) /\ Len(Tail(b)) = Len(b) - 1 /\ Len(b) \in Nat \ {0}
      /\ \A i \in DOMAIN Tail(b) : i \in Nat /\ i + 1 \in DOMAIN b /\ Tail(b)[i] = b[i + 1]
      /\ Head(b) = b[1] /\ 1 \in DOMAIN b
  OBVIOUS
<1>2. \A i \in DOMAIN Tail(b) : Tail(b)[i] # Head(b)
  BY <1>1
<1>3. \A i, j \in DOMAIN Tail(b) : Tail(b)[i] = Tail(b)[j] => i = j
  BY <1>1
<1>4. Len(b) = 1 <=> Tail(b) = <<>>
  BY <1>1
<1>q. QED  BY <1>1, <1>2, <1>3, <1>4

\* What ListInbox chooses.
LEMMA Listed ==
  ASSUME InboxTypeOK, ListInbox
  PROVE  /\ batch' \in Seq(DOMAIN inbox) /\ batch' # <<>>
         /\ \A i, j \in DOMAIN batch' : batch'[i] = batch'[j] => i = j
<1> DEFINE n == IF Cardinality(DOMAIN inbox) < MaxPerCycle THEN Cardinality(DOMAIN inbox) ELSE MaxPerCycle
<1>1. DOMAIN inbox \in SUBSET Names /\ DOMAIN inbox # {}
  BY DEF InboxTypeOK, ListInbox
<1>2. Cardinality(DOMAIN inbox) \in Nat \ {0}
  <2>1. IsFiniteSet(0..MaxSecond) /\ IsFiniteSet(Markets)
    BY InboxAssumption, FS_Interval
  <2>2. IsFiniteSet(Names)
    BY <2>1, FS_Product DEF Names
  <2>q. QED  BY <1>1, <2>2, FS_Subset, FS_CardinalityType, FS_EmptySet
<1>3. n \in Nat \ {0}
  BY <1>2, InboxAssumption
<1>4. PICK s \in [1..n -> DOMAIN inbox] : /\ \A i, j \in 1..n : i # j => s[i] # s[j]
                                          /\ batch' = s
  BY DEF ListInbox
<1> HIDE DEF n
<1>5. s \in Seq(DOMAIN inbox) /\ DOMAIN s = 1..n /\ s # <<>>
  BY <1>3, <1>4
<1>q. QED  BY <1>4, <1>5

-----------------------------------------------------------------------------
(* Types and the batch                                                     *)

Shape == InboxTypeOK /\ BatchHolds

LEMMA ShapeInit == InboxInit => Shape
<1> SUFFICES ASSUME InboxInit PROVE Shape
  OBVIOUS
<1>1. sent \in Seq([mkt : Markets, kind : Kinds]) /\ Len(sent) = 0 /\ batch \in Seq(Names) /\ orders \in Seq(DOMAIN sent)
  BY DEF InboxInit
<1>2. DOMAIN inbox = {}
  BY DEF InboxInit
<1>3. DOMAIN batch = {}
  BY DEF InboxInit
<1>4. MaxSignals \in Nat /\ MaxFaults \in Nat /\ MaxSecond \in Nat
  BY InboxAssumption
<1>5. BatchHolds
  BY <1>3 DEF InboxInit, BatchHolds, Calls
<1>6. InboxTypeOK
  BY <1>1, <1>2, <1>4 DEF InboxInit, InboxTypeOK, Phases, Outcomes
<1>q. QED  BY <1>5, <1>6 DEF Shape

LEMMA HeadInInbox ==
  ASSUME Shape, batch # <<>>
  PROVE  Head(batch) \in DOMAIN inbox /\ inbox[Head(batch)] \in DOMAIN sent /\ Head(batch) \in Names
<1>1. batch \in Seq(Names) /\ Head(batch) = batch[1] /\ 1 \in DOMAIN batch
  BY DEF Shape, InboxTypeOK
<1>q. QED  BY <1>1 DEF Shape, BatchHolds, InboxTypeOK

LEMMA ShapeCreate ==
  ASSUME Shape, NEW m \in Markets, NEW k \in KindsSent, CreateFile(m, k) PROVE Shape'
<1> DEFINE f == <<second, m>>
           sig == [mkt |-> m, kind |-> k]
<1>1. f \in Names /\ sig \in [mkt : Markets, kind : Kinds]
  BY InboxAssumption DEF Names, Shape, InboxTypeOK
<1>2. /\ sent' = Append(sent, sig) /\ writing' = {f} /\ Len(sent) < MaxSignals
      /\ inbox' = [g \in DOMAIN inbox \cup {f} |-> IF g = f THEN Len(sent) + 1 ELSE inbox[g]]
      /\ spoiled' = IF f \in DOMAIN inbox THEN spoiled \cup {inbox[f]} ELSE spoiled
      /\ UNCHANGED <<second, processed, phase, batch, held, outcome, orders, stopped, retried, stuck, faults>>
  BY DEF CreateFile, OneWriter, account
<1> HIDE DEF f, sig
<1>3. /\ sent' \in Seq([mkt : Markets, kind : Kinds]) /\ Len(sent') = Len(sent) + 1
      /\ DOMAIN sent' = 1..(Len(sent) + 1) /\ DOMAIN sent = 1..Len(sent) /\ Len(sent) \in Nat
  BY <1>1, <1>2 DEF Shape, InboxTypeOK
<1>4. DOMAIN inbox' \subseteq Names /\ \A g \in DOMAIN inbox' : inbox'[g] \in DOMAIN sent'
  BY <1>1, <1>2, <1>3 DEF Shape, InboxTypeOK
<1>5. writing' \subseteq DOMAIN inbox' /\ \A g, h \in writing' : g = h
  BY <1>2
<1>6. orders' \in Seq(DOMAIN sent') /\ Len(sent') <= MaxSignals
  BY <1>2, <1>3, InboxAssumption DEF Shape, InboxTypeOK
<1>7. spoiled' \subseteq DOMAIN sent' /\ processed' \subseteq (DOMAIN sent') \X Outcomes
  BY <1>2, <1>3 DEF Shape, InboxTypeOK
<1>8. InboxTypeOK'
  BY <1>2, <1>3, <1>4, <1>5, <1>6, <1>7 DEF Shape, InboxTypeOK
<1>9. BatchHolds'
  BY <1>2 DEF Shape, BatchHolds
<1>q. QED  BY <1>8, <1>9 DEF Shape

LEMMA ShapeList == ASSUME Shape, ListInbox PROVE Shape'
<1>1. /\ batch' \in Seq(DOMAIN inbox) /\ batch' # <<>>
      /\ \A i, j \in DOMAIN batch' : batch'[i] = batch'[j] => i = j
  BY Listed DEF Shape
<1>2. batch' \in Seq(Names)
  BY <1>1 DEF Shape, InboxTypeOK
<1>3. \A i \in DOMAIN batch' : batch'[i] \in DOMAIN inbox
  BY <1>1
<1>4. UNCHANGED <<second, sent, writing, inbox, processed, held, outcome, orders, stopped,
                  spoiled, retried, stuck, faults>> /\ phase' = "read"
  BY DEF ListInbox, webhook, account
<1>5. InboxTypeOK'
  BY <1>2, <1>4 DEF Shape, InboxTypeOK, Phases
<1>6. BatchHolds'
  BY <1>1, <1>3, <1>4 DEF BatchHolds, Calls
<1>q. QED  BY <1>5, <1>6 DEF Shape

\* Read, and the calls to the exchange.
LEMMA ShapeHandle ==
  ASSUME Shape, ReadFile \/ Close \/ MarketEntry \/ PollPosition \/ AttachStop \/ AttachTargets
  PROVE  Shape'
<1>1. CASE ReadFile
  <2> DEFINE f == Head(batch)
  <2>1. batch # <<>>
    BY <1>1 DEF ReadFile
  <2>2. inbox[f] \in DOMAIN sent /\ DOMAIN sent = 1..Len(sent) /\ Len(sent) \in Nat
    BY <2>1, HeadInInbox DEF Shape, InboxTypeOK
  <2>3. /\ UNCHANGED <<second, sent, writing, inbox, processed, batch, orders, stopped, retried, stuck, faults>>
        /\ held' \in {0, inbox[f]}
        /\ spoiled' = spoiled \/ spoiled' = spoiled \cup {inbox[f]}
    BY <1>1 DEF ReadFile, webhook, account
  <2>0. phase' \in Calls => held' # 0
    BY <1>1, <2>2 DEF ReadFile, Route, Calls, Shape, InboxTypeOK
  <2>4. phase' \in {"archive", "close", "entry"} /\ outcome' \in {"invalid", "skipped", "none", "rejected", "dry", "error"}
    BY <1>1 DEF ReadFile, Route
  <2> HIDE DEF f
  <2>5. InboxTypeOK'
    BY <2>2, <2>3, <2>4 DEF Shape, InboxTypeOK, Phases, Outcomes
  <2>6. BatchHolds'
    BY <2>0, <2>1, <2>3, <2>4 DEF Shape, BatchHolds
  <2>q. QED  BY <2>5, <2>6 DEF Shape
<1>2. CASE Close \/ MarketEntry \/ PollPosition \/ AttachStop \/ AttachTargets
  <2>0. phase \in Calls /\ phase' \in {"archive", "poll", "stop", "targets"} /\ outcome' \in Outcomes
    BY <1>2 DEF Close, MarketEntry, PollPosition, AttachStop, AttachTargets, AfterPolls, Reaches, Calls, Outcomes
  <2>1. held \in DOMAIN sent
    BY <2>0 DEF Shape, BatchHolds, InboxTypeOK
  <2>2. UNCHANGED <<second, sent, writing, inbox, processed, batch, held, spoiled, retried, stuck, faults>>
    BY <1>2 DEF Close, MarketEntry, PollPosition, AttachStop, AttachTargets, AfterPolls, Reaches, webhook
  <2>3. /\ orders' = orders \/ orders' = Append(orders, held)
        /\ stopped' = stopped \/ stopped' = stopped \cup {held}
    BY <1>2 DEF Close, MarketEntry, PollPosition, AttachStop, AttachTargets, account
  <2> DEFINE D == DOMAIN sent
  <2>4. orders' \in Seq(DOMAIN sent)
    <3>1. orders \in Seq(D) /\ held \in D
      BY <2>1 DEF Shape, InboxTypeOK
    <3> HIDE DEF D
    <3>2. Append(orders, held) \in Seq(D)
      BY <3>1
    <3>q. QED  BY <2>3, <3>1, <3>2 DEF D
  <2>5. InboxTypeOK'
    BY <2>0, <2>1, <2>2, <2>3, <2>4 DEF Shape, InboxTypeOK, Phases
  <2>6. BatchHolds'
    BY <2>0, <2>2 DEF Shape, BatchHolds, Calls
  <2>q. QED  BY <2>5, <2>6 DEF Shape
<1>q. QED  BY <1>1, <1>2

\* The head of the batch is done, with or without its file removed.
HeadDone ==
  /\ batch' = Tail(batch)
  /\ phase' = IF Len(batch) = 1 THEN "idle" ELSE "read"
  /\ held' = 0 /\ outcome' = "none"

LEMMA ShapeDone ==
  ASSUME Shape, RemoveFile \/ ArchiveFails PROVE Shape' /\ HeadDone
<1>0. batch # <<>> /\ batch \in Seq(Names) /\ phase \in {"archive", "unlink"} /\ phase # "idle"
  BY DEF Shape, BatchHolds, InboxTypeOK, RemoveFile, ArchiveFails
<1>1. HeadDone
  BY DEF RemoveFile, ArchiveFails, HeadDone
<1>2. /\ Tail(batch) \in Seq(Names)
      /\ \A i \in DOMAIN Tail(batch) : i + 1 \in DOMAIN batch /\ Tail(batch)[i] = batch[i + 1]
      /\ \A i \in DOMAIN Tail(batch) : Tail(batch)[i] # Head(batch)
      /\ \A i, j \in DOMAIN Tail(batch) : Tail(batch)[i] = Tail(batch)[j] => i = j
      /\ Len(batch) = 1 <=> Tail(batch) = <<>>
  BY <1>0, TailOf DEF Shape, BatchHolds
<1>3. Head(batch) \in DOMAIN inbox /\ inbox[Head(batch)] \in DOMAIN sent
  BY <1>0, HeadInInbox
<1>4. CASE RemoveFile
  <2>1. /\ inbox' = [g \in DOMAIN inbox \ {Head(batch)} |-> inbox[g]]
        /\ spoiled' = spoiled \/ spoiled' = spoiled \cup {inbox[Head(batch)]}
        /\ writing' = writing \ {Head(batch)}
        /\ UNCHANGED <<second, sent, processed, orders, stopped, retried, stuck, faults>>
    BY <1>4 DEF RemoveFile, Without, account
  <2>2. \A i \in DOMAIN batch' : batch'[i] \in DOMAIN inbox'
    BY <1>1, <1>2, <2>1 DEF HeadDone, Shape, BatchHolds
  <2>3. BatchHolds'
    BY <1>1, <1>2, <2>2 DEF HeadDone, BatchHolds, Calls
  <2>4. InboxTypeOK'
    BY <1>1, <1>2, <1>3, <2>1 DEF HeadDone, Shape, InboxTypeOK, Phases, Outcomes
  <2>q. QED  BY <1>1, <2>3, <2>4 DEF Shape
<1>5. CASE ArchiveFails
  <2>1. /\ UNCHANGED <<second, sent, writing, inbox, processed, orders, stopped, spoiled, retried>>
        /\ faults' = faults + 1 /\ faults < MaxFaults
        /\ stuck' = IF held = 0 THEN stuck ELSE stuck \cup {held}
    BY <1>5 DEF ArchiveFails, webhook, account
  <2>2. stuck' \subseteq DOMAIN sent /\ faults' \in 0..MaxFaults
    BY <2>1, InboxAssumption DEF Shape, InboxTypeOK
  <2>3. BatchHolds'
    BY <1>1, <1>2, <2>1 DEF HeadDone, Shape, BatchHolds, Calls
  <2>4. InboxTypeOK'
    BY <1>1, <1>2, <2>1, <2>2 DEF HeadDone, Shape, InboxTypeOK, Phases, Outcomes
  <2>q. QED  BY <1>1, <2>3, <2>4 DEF Shape
<1>q. QED  BY <1>4, <1>5

LEMMA ShapeStep == ASSUME Shape, [InboxNext]_inboxVars PROVE Shape'
<1>1. ASSUME NEW m \in Markets, NEW k \in KindsSent, CreateFile(m, k) PROVE Shape'
  BY <1>1, ShapeCreate
<1>2. ASSUME SecondPasses PROVE Shape'
  BY <1>2, InboxAssumption DEF SecondPasses, account, Shape, InboxTypeOK, BatchHolds
<1>3. ASSUME FinishFile PROVE Shape'
  BY <1>3 DEF FinishFile, account, Shape, InboxTypeOK, BatchHolds
<1>4. ASSUME ListInbox PROVE Shape'
  BY <1>4, ShapeList
<1>5. ASSUME ReadFile \/ Close \/ MarketEntry \/ PollPosition \/ AttachStop \/ AttachTargets PROVE Shape'
  BY <1>5, ShapeHandle
<1>6. ASSUME RemoveFile \/ ArchiveFails PROVE Shape'
  BY <1>6, ShapeDone
<1>7. ASSUME WriteOutcome PROVE Shape'
  <2>0. phase = "archive" /\ batch # <<>>
    BY <1>7 DEF WriteOutcome, Shape, BatchHolds
  <2>1. inbox[Head(batch)] \in DOMAIN sent
    BY <2>0, HeadInInbox
  <2>2. /\ processed' = processed \cup {<<inbox[Head(batch)], outcome>>}
        /\ spoiled' = spoiled \/ spoiled' = spoiled \cup {inbox[Head(batch)]}
        /\ phase' = "unlink"
        /\ UNCHANGED <<second, sent, writing, inbox, batch, held, outcome, orders, stopped, retried, stuck, faults>>
    BY <1>7 DEF WriteOutcome, webhook, account
  <2>3. processed' \subseteq (DOMAIN sent') \X Outcomes
    BY <2>1, <2>2 DEF Shape, InboxTypeOK
  <2>4. InboxTypeOK'
    BY <2>1, <2>2, <2>3 DEF Shape, InboxTypeOK, Phases
  <2>5. BatchHolds'
    BY <2>0, <2>2 DEF Shape, BatchHolds, Calls
  <2>q. QED  BY <2>4, <2>5 DEF Shape
<1>8. ASSUME KillExecutor PROVE Shape'
  <2>1. /\ UNCHANGED <<second, sent, writing, inbox, processed, orders, stopped, spoiled, stuck>>
        /\ faults' = faults + 1 /\ faults < MaxFaults
        /\ retried' = IF held = 0 THEN retried ELSE retried \cup {held}
        /\ phase' = "idle" /\ batch' = <<>> /\ held' = 0 /\ outcome' = "none"
    BY <1>8 DEF KillExecutor, webhook, account
  <2>2. retried' \subseteq DOMAIN sent /\ faults' \in 0..MaxFaults
    BY <2>1, InboxAssumption DEF Shape, InboxTypeOK
  <2>3. batch' \in Seq(Names) /\ DOMAIN batch' = {}
    BY <2>1
  <2>4. InboxTypeOK'
    BY <2>1, <2>2, <2>3 DEF Shape, InboxTypeOK, Phases, Outcomes
  <2>5. BatchHolds'
    BY <2>1, <2>3 DEF BatchHolds, Calls
  <2>q. QED  BY <2>4, <2>5 DEF Shape
<1>9. CASE UNCHANGED inboxVars
  BY <1>9 DEF inboxVars, webhook, account, Shape, InboxTypeOK, BatchHolds
<1>q. QED
  BY <1>1, <1>2, <1>3, <1>4, <1>5, <1>6, <1>7, <1>8, <1>9 DEF InboxNext, ExecutorStep

-----------------------------------------------------------------------------
(* The stop of an executed signal                                          *)

StopInv == Shape /\ StopHolds /\ StopOrWarning

LEMMA StopStep == ASSUME StopInv, Shape', [InboxNext]_inboxVars PROVE StopInv'
<1>0. /\ processed \subseteq (DOMAIN sent) \X Outcomes
      /\ \A n \in DOMAIN sent : <<n, "executed">> \in processed => n \in stopped \/ n \in spoiled
      /\ outcome = "executed" \/ phase = "targets" => held \in stopped
  BY DEF StopInv, Shape, InboxTypeOK, StopOrWarning, StopHolds, Executed
<1> SUFFICES /\ outcome' = "executed" \/ phase' = "targets" => held' \in stopped'
             /\ \A n \in DOMAIN sent' : <<n, "executed">> \in processed' => n \in stopped' \/ n \in spoiled'
  BY DEF StopInv, StopOrWarning, StopHolds, Executed
\* What was archived stays excused or protected.
<1>1. ASSUME processed' = processed, stopped \subseteq stopped', spoiled \subseteq spoiled'
      PROVE  \A n \in DOMAIN sent' : <<n, "executed">> \in processed' => n \in stopped' \/ n \in spoiled'
  BY <1>0, <1>1
<1>2. ASSUME NEW m \in Markets, NEW k \in KindsSent, CreateFile(m, k)
      PROVE /\ UNCHANGED <<processed, stopped, phase, held, outcome>> /\ spoiled \subseteq spoiled'
  BY <1>2 DEF CreateFile, OneWriter, account
<1>3. CASE SecondPasses \/ FinishFile
  BY <1>0, <1>1, <1>3 DEF SecondPasses, FinishFile, account
<1>4. CASE ListInbox
  BY <1>0, <1>1, <1>4 DEF ListInbox, account
<1>5. CASE ReadFile
  <2>1. /\ UNCHANGED <<processed, stopped>> /\ spoiled \subseteq spoiled'
        /\ outcome' # "executed" /\ phase' # "targets"
    BY <1>5 DEF ReadFile, Route, account
  <2>q. QED  BY <1>1, <2>1
<1>6. CASE Close \/ MarketEntry \/ PollPosition
  <2>1. /\ UNCHANGED <<processed, stopped, spoiled>> /\ outcome' # "executed" /\ phase' # "targets"
    BY <1>6 DEF Close, MarketEntry, PollPosition, AfterPolls, Reaches, account
  <2>q. QED  BY <1>1, <2>1
<1>7. CASE AttachStop \/ AttachTargets
  <2>1. /\ UNCHANGED <<processed, held, spoiled>> /\ stopped \subseteq stopped'
        /\ outcome' = "executed" \/ phase' = "targets" => held \in stopped'
    BY <1>0, <1>7 DEF AttachStop, AttachTargets, Reaches, account
  <2>q. QED  BY <1>1, <2>1
<1>8. CASE WriteOutcome
  <2>1. /\ UNCHANGED <<sent, stopped, held, outcome>> /\ phase' = "unlink"
        /\ processed' = processed \cup {<<inbox[Head(batch)], outcome>>}
        /\ spoiled \subseteq spoiled'
        /\ inbox[Head(batch)] # held => inbox[Head(batch)] \in spoiled'
    BY <1>8 DEF WriteOutcome, webhook, account
  <2>2. ASSUME NEW n \in DOMAIN sent', <<n, "executed">> \in processed'
        PROVE  n \in stopped' \/ n \in spoiled'
    <3>1. CASE <<n, "executed">> \in processed
      BY <1>0, <2>1, <3>1
    <3>2. CASE <<n, "executed">> = <<inbox[Head(batch)], outcome>>
      BY <1>0, <2>1, <3>2
    <3>q. QED  BY <2>1, <2>2, <3>1, <3>2
  <2>q. QED  BY <1>0, <2>1, <2>2
<1>9. CASE RemoveFile \/ ArchiveFails \/ KillExecutor
  <2>1. /\ UNCHANGED <<processed, stopped>> /\ spoiled \subseteq spoiled'
        /\ outcome' = "none" /\ phase' \in {"idle", "read"}
    BY <1>9 DEF RemoveFile, ArchiveFails, KillExecutor, account
  <2>q. QED  BY <1>1, <2>1
<1>10. CASE UNCHANGED inboxVars
  BY <1>0, <1>10 DEF inboxVars, webhook, account
<1>q. QED
  BY <1>0, <1>1, <1>2, <1>3, <1>4, <1>5, <1>6, <1>7, <1>8, <1>9, <1>10 DEF InboxNext, ExecutorStep

-----------------------------------------------------------------------------
(* Once                                                                    *)

OnceInv == Shape /\ FilesHold /\ OrdersHold /\ ActsOnce

LEMMA OnceInit == InboxInit => OnceInv
<1> SUFFICES ASSUME InboxInit PROVE OnceInv
  OBVIOUS
<1>1. DOMAIN inbox = {} /\ DOMAIN orders = {} /\ held = 0 /\ phase = "idle"
  BY DEF InboxInit
<1>q. QED  BY <1>1, ShapeInit DEF OnceInv, FilesHold, OrdersHold, ActsOnce, Acted

\* The facts of the invariant, as its steps use them.
LEMMA OnceFacts ==
  ASSUME OnceInv
  PROVE  /\ orders \in Seq(DOMAIN sent) /\ Len(sent) \in Nat /\ DOMAIN sent = 1..Len(sent)
         /\ held \in 0..Len(sent) /\ Acted \subseteq DOMAIN sent
         /\ \A f \in DOMAIN inbox : inbox[f] \in DOMAIN sent /\ inbox[f] # 0
<1>1. /\ orders \in Seq(DOMAIN sent) /\ Len(sent) \in Nat /\ DOMAIN sent = 1..Len(sent)
      /\ held \in 0..Len(sent) /\ \A f \in DOMAIN inbox : inbox[f] \in DOMAIN sent
  BY DEF OnceInv, Shape, InboxTypeOK
<1> DEFINE D == DOMAIN sent
<1>2. Acted \subseteq D
  <2>1. orders \in Seq(D)
    BY <1>1
  <2> HIDE DEF D
  <2>q. QED  BY <2>1 DEF Acted
<1>q. QED  BY <1>1, <1>2

\* The steps that send nothing.
LEMMA OnceQuiet ==
  ASSUME OnceInv, Shape', orders' = orders, Excused \subseteq Excused', FilesHold', OrdersHold'
  PROVE  OnceInv'
BY DEF OnceInv, ActsOnce, Excused

LEMMA OnceCreate ==
  ASSUME OnceInv, Shape', NEW m \in Markets, NEW k \in KindsSent, CreateFile(m, k) PROVE OnceInv'
<1> DEFINE f == <<second, m>>
<1>1. /\ inbox' = [g \in DOMAIN inbox \cup {f} |-> IF g = f THEN Len(sent) + 1 ELSE inbox[g]]
      /\ UNCHANGED <<phase, batch, held, orders, retried, stuck>>
  BY DEF CreateFile, OneWriter, account
<1> HIDE DEF f
<1>2. FilesHold'
  BY <1>1, OnceFacts DEF OnceInv, FilesHold
<1>3. OrdersHold'
  <2>1. Acted' = Acted /\ Excused' = Excused
    BY <1>1 DEF Acted, Excused
  <2>q. QED  BY <1>1, <2>1, OnceFacts DEF OnceInv, OrdersHold
<1>q. QED  BY <1>1, <1>2, <1>3, OnceQuiet DEF Excused

LEMMA OnceRead == ASSUME OnceInv, Shape', ReadFile PROVE OnceInv'
<1>1. /\ UNCHANGED <<inbox, batch, orders, retried, stuck>>
      /\ held' \in {0, inbox[Head(batch)]} /\ phase = "read"
      /\ phase' \in {"archive", "close", "entry"} /\ batch # <<>>
  BY DEF ReadFile, Route, webhook, account
<1>2. Head(batch) \in DOMAIN inbox
  BY <1>1, HeadInInbox DEF OnceInv
<1>3. Acted' = Acted /\ Excused' = Excused
  BY <1>1 DEF Acted, Excused
<1>4. FilesHold'
  BY <1>1, <1>2 DEF OnceInv, FilesHold
<1>5. OrdersHold'
  <2>1. \A g \in DOMAIN inbox : inbox[g] \in Acted => inbox[g] \in Excused
    BY <1>1 DEF OnceInv, OrdersHold
  <2>2. phase' \in {"close", "entry"} /\ held' \in Acted => held' \in Excused
    BY <1>1, <1>2, <2>1, OnceFacts
  <2>q. QED  BY <1>1, <1>3, <2>1, <2>2 DEF OrdersHold
<1>q. QED  BY <1>1, <1>3, <1>4, <1>5, OnceQuiet

\* An entry or a close: the signal in hand had not acted yet, or is excused.
LEMMA OnceOrder == ASSUME OnceInv, Shape', Close \/ MarketEntry PROVE OnceInv'
<1>1. /\ UNCHANGED <<sent, inbox, batch, held, retried, stuck>>
      /\ phase \in {"close", "entry"} /\ phase' \in {"poll", "archive"}
      /\ orders' = orders \/ orders' = Append(orders, held)
  BY DEF Close, MarketEntry, Reaches, webhook
<1>2. FilesHold' /\ Excused' = Excused
  BY <1>1 DEF OnceInv, FilesHold, Excused
<1>3. \A g \in DOMAIN inbox : inbox[g] \in Acted => inbox[g] \in Excused
  BY <1>1 DEF OnceInv, OrdersHold
<1>4. Acted' \subseteq Acted \cup {held}
  <2> DEFINE D == DOMAIN sent \cup {held}
  <2>1. orders \in Seq(D) /\ held \in D
    BY OnceFacts
  <2> HIDE DEF D
  <2>q. QED  BY <1>1, <2>1 DEF Acted
<1>5. OrdersHold'
  BY <1>1, <1>2, <1>3, <1>4 DEF OrdersHold
<1>6. ActsOnce'
  <2> DEFINE D == DOMAIN sent \cup {held}
  <2>1. orders \in Seq(D) /\ held \in D
    BY OnceFacts
  <2>2. \A i, j \in DOMAIN orders : i # j /\ orders[i] = orders[j] => orders[i] \in Excused
    BY DEF OnceInv, ActsOnce, Excused
  <2>3. \A i \in DOMAIN orders : orders[i] = held => held \in Excused
    BY <1>1 DEF OnceInv, OrdersHold, Acted
  <2> HIDE DEF D
  <2>4. CASE orders' = Append(orders, held)
    <3>1. /\ DOMAIN orders' = DOMAIN orders \cup {Len(orders) + 1} /\ orders'[Len(orders) + 1] = held
          /\ \A i \in DOMAIN orders : orders'[i] = orders[i]
      BY <2>1, <2>4
    <3>q. QED  BY <1>2, <2>2, <2>3, <3>1 DEF ActsOnce, Excused
  <2>q. QED  BY <1>1, <1>2, <2>2, <2>4 DEF ActsOnce, Excused
<1>q. QED  BY <1>2, <1>5, <1>6 DEF OnceInv

LEMMA OnceCall ==
  ASSUME OnceInv, Shape', PollPosition \/ AttachStop \/ AttachTargets \/ WriteOutcome PROVE OnceInv'
<1>1. /\ UNCHANGED <<inbox, batch, held, orders, retried, stuck>>
      /\ phase \in {"poll", "stop", "targets", "archive"}
      /\ phase' \in {"stop", "targets", "archive", "unlink"}
  BY DEF PollPosition, AfterPolls, AttachStop, AttachTargets, WriteOutcome, Reaches, webhook, account
<1>2. Acted' = Acted /\ Excused' = Excused
  BY <1>1 DEF Acted, Excused
<1>3. FilesHold'
  BY <1>1 DEF OnceInv, FilesHold
<1>4. OrdersHold'
  BY <1>1, <1>2 DEF OnceInv, OrdersHold
<1>q. QED  BY <1>1, <1>2, <1>3, <1>4, OnceQuiet

\* The head of the batch is done: its file is gone, or it is excused.
LEMMA OnceDone ==
  ASSUME OnceInv, Shape', RemoveFile \/ ArchiveFails \/ KillExecutor PROVE OnceInv'
<1>1. /\ held' = 0 /\ phase' \in {"idle", "read"} /\ orders' = orders
      /\ Excused \subseteq Excused'
      /\ \/ inbox' = inbox /\ (held # 0 => held \in Excused')
         \/ inbox' = [g \in DOMAIN inbox \ {Head(batch)} |-> inbox[g]]
  BY DEF RemoveFile, Without, ArchiveFails, KillExecutor, webhook, account, Excused
<1>2. FilesHold'
  BY <1>1 DEF OnceInv, FilesHold
<1>3. OrdersHold'
  <2>1. Acted' = Acted
    BY <1>1 DEF Acted
  <2>2. ASSUME NEW g \in DOMAIN inbox', inbox'[g] \in Acted PROVE inbox'[g] \in Excused'
    <3>1. g \in DOMAIN inbox /\ inbox'[g] = inbox[g]
      BY <1>1, <2>2
    <3>2. CASE inbox[g] = held
      BY <1>1, <2>2, <3>1, <3>2, OnceFacts DEF OnceInv, FilesHold
    <3>3. CASE inbox[g] # held
      BY <1>1, <2>2, <3>1, <3>3 DEF OnceInv, OrdersHold
    <3>q. QED  BY <3>2, <3>3
  <2>q. QED  BY <1>1, <2>1, <2>2 DEF OrdersHold
<1>q. QED  BY <1>1, <1>2, <1>3, OnceQuiet

LEMMA OnceStep == ASSUME OnceInv, Shape', [InboxNext]_inboxVars PROVE OnceInv'
<1>1. ASSUME NEW m \in Markets, NEW k \in KindsSent, CreateFile(m, k) PROVE OnceInv'
  BY <1>1, OnceCreate
<1>2. CASE SecondPasses \/ FinishFile \/ UNCHANGED inboxVars
  <2>1. UNCHANGED <<inbox, phase, batch, held, orders, retried, stuck>>
    BY <1>2 DEF SecondPasses, FinishFile, inboxVars, webhook, account
  <2>q. QED  BY <2>1, OnceQuiet DEF OnceInv, FilesHold, OrdersHold, Acted, Excused
<1>3. CASE ListInbox
  <2>1. UNCHANGED <<inbox, held, orders, retried, stuck>> /\ phase = "idle" /\ phase' = "read"
    BY <1>3 DEF ListInbox, webhook, account
  <2>2. held = 0
    BY <2>1 DEF OnceInv, FilesHold
  <2>3. Acted' = Acted /\ Excused' = Excused
    BY <2>1 DEF Acted, Excused
  <2>4. FilesHold' /\ OrdersHold'
    BY <2>1, <2>2, <2>3 DEF OnceInv, FilesHold, OrdersHold
  <2>q. QED  BY <2>1, <2>3, <2>4, OnceQuiet
<1>4. CASE ReadFile
  BY <1>4, OnceRead
<1>5. CASE Close \/ MarketEntry
  BY <1>5, OnceOrder
<1>6. CASE PollPosition \/ AttachStop \/ AttachTargets \/ WriteOutcome
  BY <1>6, OnceCall
<1>7. CASE RemoveFile \/ ArchiveFails \/ KillExecutor
  BY <1>7, OnceDone
<1>q. QED
  BY <1>1, <1>2, <1>3, <1>4, <1>5, <1>6, <1>7 DEF InboxNext, ExecutorStep

-----------------------------------------------------------------------------
(* In order                                                                *)

\* The names of a market follow the numbers of its signals, and the file that
\* is being written is the newest of all.
NamesHold ==
  /\ \A f \in DOMAIN inbox : sent[inbox[f]].mkt = f[2] /\ f[1] <= second
  /\ \A f, g \in DOMAIN inbox : f[2] = g[2] /\ f[1] < g[1] => inbox[f] < inbox[g]
  /\ \A f \in writing, g \in DOMAIN inbox : g[1] <= f[1]

\* An older file of the market of a file of the batch is before it in the
\* batch, or stuck; and a head that has younger ones of its market behind it
\* is still what was read.
BatchOrder ==
  /\ \A i \in DOMAIN batch, f \in DOMAIN inbox :
       f[2] = batch[i][2] /\ f[1] < batch[i][1] =>
         inbox[f] \in stuck \/ \E j \in DOMAIN batch : j < i /\ batch[j] = f
  /\ phase \notin {"idle", "read"} => \A i \in DOMAIN batch :
       Head(batch)[2] = batch[i][2] /\ Head(batch)[1] < batch[i][1] =>
         held # 0 /\ inbox[Head(batch)] = held

\* A signal that a younger one of its market has overtaken has no file, unless
\* it is stuck or has acted too; and the signal about to act overtakes none
\* that has one, and is overtaken by none.
LaterHolds ==
  /\ \A n \in Acted, f \in DOMAIN inbox :
       f[2] = sent[n].mkt /\ inbox[f] < n => inbox[f] \in stuck \cup Acted
  /\ phase \in {"close", "entry"} =>
       /\ \A f \in DOMAIN inbox : f[2] = sent[held].mkt /\ inbox[f] < held => inbox[f] \in stuck
       /\ \A n \in Acted : sent[n].mkt = sent[held].mkt /\ held < n => held \in stuck \cup Acted

OrderInv == OnceInv /\ NamesHold /\ BatchOrder /\ LaterHolds /\ MarketOrder

LEMMA OrderInit == InboxInit => OrderInv
<1> SUFFICES ASSUME InboxInit PROVE OrderInv
  OBVIOUS
<1>1. DOMAIN inbox = {} /\ DOMAIN orders = {} /\ DOMAIN batch = {} /\ writing = {} /\ phase = "idle"
  BY DEF InboxInit
<1>2. NamesHold /\ BatchOrder /\ LaterHolds /\ MarketOrder
  BY <1>1 DEF NamesHold, BatchOrder, LaterHolds, MarketOrder, Acted
<1>q. QED  BY <1>2, OnceInit DEF OrderInv

\* The facts of the invariant, as its steps use them.
LEMMA OrderFacts ==
  ASSUME OrderInv
  PROVE  /\ second \in Nat /\ Len(sent) \in Nat /\ DOMAIN sent = 1..Len(sent)
         /\ held \in 0..Len(sent) /\ Acted \subseteq DOMAIN sent /\ orders \in Seq(DOMAIN sent)
         /\ \A f \in DOMAIN inbox : /\ inbox[f] \in DOMAIN sent /\ inbox[f] \in Nat
                                    /\ f \in Names /\ f = <<f[1], f[2]>> /\ f[1] \in Nat
         /\ writing \subseteq DOMAIN inbox
         /\ batch \in Seq(Names) /\ \A i \in DOMAIN batch : batch[i] \in DOMAIN inbox
<1>1. OnceInv /\ Shape /\ InboxTypeOK /\ BatchHolds
  BY DEF OrderInv, OnceInv, Shape
<1>2. second \in Nat /\ \A f \in Names : f = <<f[1], f[2]>> /\ f[1] \in Nat
  BY <1>1, InboxAssumption DEF InboxTypeOK, Names
<1>3. \A f \in DOMAIN inbox : f \in Names /\ inbox[f] \in 1..Len(sent)
  BY <1>1, OnceFacts DEF InboxTypeOK
<1>q. QED  BY <1>1, <1>2, <1>3, OnceFacts DEF InboxTypeOK, BatchHolds

LEMMA NamesStep == ASSUME OrderInv, [InboxNext]_inboxVars PROVE NamesHold'
<1>0. NamesHold
  BY DEF OrderInv
<1>1. CASE \/ FinishFile \/ ListInbox \/ ReadFile \/ Close \/ MarketEntry \/ PollPosition \/ AttachStop
           \/ AttachTargets \/ WriteOutcome \/ ArchiveFails \/ KillExecutor \/ UNCHANGED inboxVars
  <2>1. UNCHANGED <<second, sent, inbox>> /\ writing' \subseteq writing
    BY <1>1 DEF FinishFile, ListInbox, ReadFile, Close, MarketEntry, PollPosition, AfterPolls, AttachStop,
       AttachTargets, WriteOutcome, Reaches, ArchiveFails, KillExecutor, inboxVars, webhook
  <2>q. QED  BY <1>0, <2>1 DEF NamesHold
<1>2. CASE SecondPasses
  <2>1. second' = second + 1 /\ UNCHANGED <<sent, inbox, writing>>
    BY <1>2 DEF SecondPasses
  <2>2. \A f \in DOMAIN inbox : f[1] <= second'
    BY <1>0, <2>1, OrderFacts DEF NamesHold
  <2>q. QED  BY <1>0, <2>1, <2>2 DEF NamesHold
<1>3. CASE RemoveFile
  <2>1. /\ inbox' = [g \in DOMAIN inbox \ {Head(batch)} |-> inbox[g]]
        /\ writing' \subseteq writing /\ UNCHANGED <<second, sent>>
    BY <1>3 DEF RemoveFile, Without
  <2>q. QED  BY <1>0, <2>1 DEF NamesHold
<1>4. ASSUME NEW m \in Markets, NEW k \in KindsSent, CreateFile(m, k) PROVE NamesHold'
  <2> DEFINE f == <<second, m>>
             sig == [mkt |-> m, kind |-> k]
  <2>1. /\ inbox' = [g \in DOMAIN inbox \cup {f} |-> IF g = f THEN Len(sent) + 1 ELSE inbox[g]]
        /\ sent' = Append(sent, sig) /\ writing' = {f} /\ second' = second
    BY <1>4 DEF CreateFile, OneWriter
  <2>2. f[1] = second /\ f[2] = m /\ sig.mkt = m
    OBVIOUS
  <2> HIDE DEF f, sig
  <2>3. sent'[Len(sent) + 1] = sig /\ \A n \in DOMAIN sent : sent'[n] = sent[n]
    BY <2>1, OrderFacts
  <2>4. ASSUME NEW g \in DOMAIN inbox' PROVE sent'[inbox'[g]].mkt = g[2] /\ g[1] <= second
    BY <1>0, <2>1, <2>2, <2>3, OrderFacts DEF NamesHold
  <2>5. ASSUME NEW g \in DOMAIN inbox', NEW h \in DOMAIN inbox', g[2] = h[2], g[1] < h[1]
        PROVE  inbox'[g] < inbox'[h]
    <3>1. h[1] <= second /\ g # h
      BY <1>0, <2>1, <2>2, <2>5, OrderFacts DEF NamesHold
    <3>2. g # f
      <4>1. g = f => second < h[1]
        BY <2>2, <2>5
      <4>2. second \in Nat /\ h[1] \in Nat
        BY <2>1, <2>2, OrderFacts
      <4>q. QED  BY <3>1, <4>1, <4>2
    <3>3. g \in DOMAIN inbox /\ inbox'[g] = inbox[g] /\ inbox[g] <= Len(sent)
      BY <2>1, <3>2, OrderFacts
    <3>4. CASE h = f
      BY <2>1, <3>3, <3>4, OrderFacts
    <3>5. CASE h # f
      BY <1>0, <2>1, <2>5, <3>3, <3>5 DEF NamesHold
    <3>q. QED  BY <3>4, <3>5
  <2>6. \A g \in DOMAIN inbox' : g[1] <= f[1]
    BY <2>2, <2>4
  <2>q. QED  BY <2>1, <2>4, <2>5, <2>6 DEF NamesHold
<1>q. QED  BY <1>1, <1>2, <1>3, <1>4 DEF InboxNext, ExecutorStep

\* What ListInbox chooses: no file of the inbox is before one of the batch,
\* but those of the batch.
LEMMA ListedOrder ==
  ASSUME OrderInv, ListInbox
  PROVE  \A i \in DOMAIN batch', f \in DOMAIN inbox :
           f[2] = batch'[i][2] /\ f[1] < batch'[i][1] => \E j \in DOMAIN batch' : j < i /\ batch'[j] = f
<1> DEFINE n == IF Cardinality(DOMAIN inbox) < MaxPerCycle THEN Cardinality(DOMAIN inbox) ELSE MaxPerCycle
<1>1. PICK s \in [1..n -> DOMAIN inbox] :
        /\ InOrder(s)
        /\ \A f \in DOMAIN inbox \ {s[i] : i \in 1..n} : InOrder(Append(s, f))
        /\ batch' = s
  BY DEF ListInbox
<1>2. n \in Nat
  <2>1. IsFiniteSet(0..MaxSecond) /\ IsFiniteSet(Markets)
    BY InboxAssumption, FS_Interval
  <2>2. IsFiniteSet(Names)
    BY <2>1, FS_Product DEF Names
  <2>3. DOMAIN inbox \subseteq Names
    BY OrderFacts
  <2>q. QED  BY <2>2, <2>3, FS_Subset, FS_CardinalityType, InboxAssumption
<1> HIDE DEF n
<1>3. s \in Seq(DOMAIN inbox) /\ DOMAIN s = 1..n /\ Len(s) = n
  BY <1>1, <1>2
<1>4. SUFFICES ASSUME NEW i \in 1..n, NEW f \in DOMAIN inbox, f[2] = s[i][2], f[1] < s[i][1]
               PROVE  \E j \in 1..n : j < i /\ s[j] = f
  BY <1>1, <1>3
<1>5. s[i] \in DOMAIN inbox /\ s[i][1] \in Nat /\ f[1] \in Nat
  BY <1>3, OrderFacts
<1>6. ~Before(s[i], f)
  BY <1>4, <1>5 DEF Before
<1>7. f \in {s[j] : j \in 1..n}
  <2>1. SUFFICES ASSUME f \notin {s[j] : j \in 1..n} PROVE FALSE
    OBVIOUS
  <2>2. InOrder(Append(s, f))
    BY <1>1, <2>1
  <2> DEFINE a == Append(s, f)
  <2>3. i \in DOMAIN a /\ n + 1 \in DOMAIN a /\ a[i] = s[i] /\ a[n + 1] = f /\ i < n + 1
    BY <1>2, <1>3
  <2> HIDE DEF a
  <2>4. Before(a[i], a[n + 1])
    BY <2>2, <2>3 DEF InOrder, a
  <2>q. QED  BY <1>6, <2>3, <2>4
<1>8. PICK j \in 1..n : s[j] = f
  BY <1>7
<1>9. j < i
  <2>1. ~(i < j)
    BY <1>1, <1>3, <1>6, <1>8 DEF InOrder
  <2>2. i # j
    BY <1>4, <1>5, <1>8
  <2>q. QED  BY <1>2, <2>1, <2>2
<1>q. QED  BY <1>8, <1>9

\* What is behind the head when the head is done.
LEMMA BehindHead ==
  ASSUME OrderInv, batch # <<>>, NEW i \in DOMAIN Tail(batch), NEW f \in DOMAIN inbox,
         f[2] = Tail(batch)[i][2], f[1] < Tail(batch)[i][1], inbox[f] \notin stuck
  PROVE  \/ \E j \in DOMAIN Tail(batch) : j < i /\ Tail(batch)[j] = f
         \/ f = Head(batch) /\ i + 1 \in DOMAIN batch /\ Tail(batch)[i] = batch[i + 1]
<1> DEFINE b == batch
<1>1. b \in Seq(Names) /\ b # <<>>
  BY OrderFacts
<1>2. /\ i \in Nat \ {0} /\ i + 1 \in DOMAIN b /\ Tail(b)[i] = b[i + 1] /\ Head(b) = b[1]
      /\ \A j \in DOMAIN b : j \in Nat \ {0} /\ (j # 1 => j - 1 \in DOMAIN Tail(b) /\ Tail(b)[j - 1] = b[j])
  <2> HIDE DEF b
  <2>1. i \in DOMAIN Tail(b)
    BY DEF b
  <2>q. QED  BY <1>1, <2>1
<1>3. PICK j \in DOMAIN batch : j < i + 1 /\ batch[j] = f
  BY <1>2 DEF OrderInv, BatchOrder
<1>4. CASE j = 1
  BY <1>2, <1>3, <1>4
<1>5. CASE j # 1
  <2>1. j - 1 \in DOMAIN Tail(batch) /\ Tail(batch)[j - 1] = f
    BY <1>2, <1>3, <1>5
  <2>2. j - 1 < i
    BY <1>2, <1>3
  <2>q. QED  BY <2>1, <2>2
<1>q. QED  BY <1>4, <1>5

LEMMA BatchStep == ASSUME OrderInv, Shape', [InboxNext]_inboxVars PROVE BatchOrder'
<1>0. NamesHold /\ BatchOrder /\ OnceInv /\ Shape /\ BatchHolds
  BY DEF OrderInv, OnceInv, Shape
<1>1. CASE SecondPasses \/ FinishFile \/ UNCHANGED inboxVars
  <2>1. UNCHANGED <<inbox, batch, held, phase, stuck>>
    BY <1>1 DEF SecondPasses, FinishFile, inboxVars
  <2>q. QED  BY <1>0, <2>1 DEF BatchOrder
<1>2. CASE Close \/ MarketEntry \/ PollPosition \/ AttachStop \/ AttachTargets \/ WriteOutcome
  <2>1. UNCHANGED <<inbox, batch, held, stuck>> /\ phase \notin {"idle", "read"}
    BY <1>2 DEF Close, MarketEntry, PollPosition, AfterPolls, AttachStop, AttachTargets, WriteOutcome, Reaches
  <2>q. QED  BY <1>0, <2>1 DEF BatchOrder
<1>3. ASSUME NEW m \in Markets, NEW k \in KindsSent, CreateFile(m, k) PROVE BatchOrder'
  <2> DEFINE f == <<second, m>>
  <2>1. /\ inbox' = [g \in DOMAIN inbox \cup {f} |-> IF g = f THEN Len(sent) + 1 ELSE inbox[g]]
        /\ UNCHANGED <<batch, held, phase, stuck>>
    BY <1>3 DEF CreateFile
  <2>2. f[1] = second
    OBVIOUS
  <2> HIDE DEF f
  <2>3. \A i \in DOMAIN batch : batch[i] \in DOMAIN inbox /\ ~(f[1] < batch[i][1])
    <3>1. \A i \in DOMAIN batch : /\ batch[i] \in DOMAIN inbox /\ batch[i][1] <= second
                                  /\ batch[i][1] \in Nat /\ second \in Nat
      BY <1>0, OrderFacts DEF NamesHold
    <3>q. QED  BY <2>2, <3>1
  <2>4. ASSUME NEW i \in DOMAIN batch, NEW g \in DOMAIN inbox', g[2] = batch[i][2], g[1] < batch[i][1]
        PROVE  inbox'[g] \in stuck \/ \E j \in DOMAIN batch : j < i /\ batch[j] = g
    <3>1. g \in DOMAIN inbox /\ inbox'[g] = inbox[g]
      BY <2>1, <2>3, <2>4
    <3>2. inbox[g] \in stuck \/ \E j \in DOMAIN batch : j < i /\ batch[j] = g
      BY <1>0, <2>4, <3>1 DEF BatchOrder
    <3>q. QED  BY <3>1, <3>2
  <2>5. ASSUME phase \notin {"idle", "read"}, NEW i \in DOMAIN batch,
               Head(batch)[2] = batch[i][2], Head(batch)[1] < batch[i][1]
        PROVE  held # 0 /\ inbox'[Head(batch)] = held
    <3>1. Head(batch) # f /\ Head(batch) \in DOMAIN inbox
      BY <1>0, <2>3, <2>5, HeadInInbox DEF BatchHolds
    <3>2. inbox'[Head(batch)] = inbox[Head(batch)]
      BY <2>1, <3>1
    <3>3. held # 0 /\ inbox[Head(batch)] = held
      BY <1>0, <2>5 DEF BatchOrder
    <3>q. QED  BY <3>2, <3>3
  <2>6. UNCHANGED <<batch, held, phase, stuck>>
    BY <2>1
  <2> HIDE DEF f
  <2>q. QED  BY <2>4, <2>5, <2>6 DEF BatchOrder
<1>4. CASE ListInbox
  <2>1. phase' = "read" /\ UNCHANGED <<inbox, stuck>>
    BY <1>4 DEF ListInbox
  <2>2. \A i \in DOMAIN batch', f \in DOMAIN inbox :
          f[2] = batch'[i][2] /\ f[1] < batch'[i][1] => \E j \in DOMAIN batch' : j < i /\ batch'[j] = f
    BY <1>4, ListedOrder
  <2>q. QED  BY <2>1, <2>2 DEF BatchOrder
<1>5. CASE ReadFile
  <2>1. /\ UNCHANGED <<inbox, batch, stuck>> /\ batch # <<>>
        /\ Head(batch) \notin writing => held' = inbox[Head(batch)]
    BY <1>5 DEF ReadFile
  <2>2. Head(batch) \in DOMAIN inbox /\ inbox[Head(batch)] # 0 /\ Head(batch)[1] \in Nat
    BY <1>0, <2>1, HeadInInbox, OrderFacts
  <2>3. \A i \in DOMAIN batch :
          Head(batch)[1] < batch[i][1] => held' # 0 /\ inbox[Head(batch)] = held'
    <3>1. CASE Head(batch) \in writing
      <4>1. \A i \in DOMAIN batch : batch[i][1] <= Head(batch)[1] /\ batch[i][1] \in Nat
        BY <1>0, <3>1, OrderFacts DEF NamesHold
      <4>q. QED  BY <2>2, <4>1
    <3>2. CASE Head(batch) \notin writing
      BY <2>1, <2>2, <3>2
    <3>q. QED  BY <3>1, <3>2
  <2>q. QED  BY <1>0, <2>1, <2>3 DEF BatchOrder
<1>6. CASE RemoveFile
  <2>1. /\ inbox' = [g \in DOMAIN inbox \ {Head(batch)} |-> inbox[g]] /\ stuck' = stuck
        /\ batch' = Tail(batch) /\ phase' \in {"idle", "read"} /\ phase \in {"archive", "unlink"}
    BY <1>6 DEF RemoveFile, Without
  <2>2. batch # <<>>
    BY <1>0, <2>1 DEF BatchHolds
  <2>3. \A i \in DOMAIN Tail(batch), f \in DOMAIN inbox \ {Head(batch)} :
          f[2] = Tail(batch)[i][2] /\ f[1] < Tail(batch)[i][1] =>
            inbox[f] \in stuck \/ \E j \in DOMAIN Tail(batch) : j < i /\ Tail(batch)[j] = f
    BY <2>2, BehindHead
  <2>q. QED  BY <2>1, <2>3 DEF BatchOrder
<1>7. CASE ArchiveFails
  <2>1. /\ inbox' = inbox /\ stuck' = (IF held = 0 THEN stuck ELSE stuck \cup {held})
        /\ batch' = Tail(batch) /\ phase' \in {"idle", "read"} /\ phase \in {"archive", "unlink"}
    BY <1>7 DEF ArchiveFails
  <2>2. batch # <<>>
    BY <1>0, <2>1 DEF BatchHolds
  <2>3. ASSUME NEW i \in DOMAIN Tail(batch), NEW f \in DOMAIN inbox,
               f[2] = Tail(batch)[i][2], f[1] < Tail(batch)[i][1]
        PROVE  inbox[f] \in stuck' \/ \E j \in DOMAIN Tail(batch) : j < i /\ Tail(batch)[j] = f
    <3>1. CASE inbox[f] \in stuck
      BY <2>1, <3>1
    <3>2. CASE inbox[f] \notin stuck /\ f = Head(batch) /\ i + 1 \in DOMAIN batch /\ Tail(batch)[i] = batch[i + 1]
      <4>1. held # 0 /\ inbox[f] = held
        BY <1>0, <2>1, <2>3, <3>2 DEF BatchOrder
      <4>q. QED  BY <2>1, <4>1
    <3>q. QED  BY <2>2, <2>3, <3>1, <3>2, BehindHead
  <2>q. QED  BY <2>1, <2>3 DEF BatchOrder
<1>8. CASE KillExecutor
  <2>1. phase' = "idle" /\ batch' = <<>> /\ DOMAIN <<>> = {}
    BY <1>8 DEF KillExecutor
  <2>2. DOMAIN batch' = {}
    BY <2>1
  <2>q. QED  BY <2>1, <2>2 DEF BatchOrder
<1>q. QED
  BY <1>1, <1>2, <1>3, <1>4, <1>5, <1>6, <1>7, <1>8 DEF InboxNext, ExecutorStep

\* The first place of a signal in the list of orders.
LEMMA FirstPlace ==
  ASSUME NEW s \in Seq(Nat), NEW n \in {s[i] : i \in DOMAIN s}
  PROVE  \E i \in DOMAIN s : s[i] = n /\ \A j \in 1..i - 1 : s[j] # n
<1> DEFINE P == {i \in DOMAIN s : s[i] = n}
<1>1. P \in SUBSET Nat /\ P # {}
  OBVIOUS
<1>2. PICK i \in P : \A j \in P : i <= j
  <2> HIDE DEF P
  <2>q. QED  BY <1>1, Least
<1>3. \A j \in 1..i - 1 : j \in DOMAIN s /\ ~(i <= j)
  BY <1>2
<1>q. QED  BY <1>2, <1>3

FirstMeans ==
  orders \in Seq(Nat) =>
    \A n \in Nat : \A i \in DOMAIN orders :
      orders[i] = n /\ (\A j \in 1..i - 1 : orders[j] # n) => First(n) = i

LEMMA FirstIs == FirstMeans
<1> SUFFICES ASSUME orders \in Seq(Nat), NEW n \in Nat, NEW i \in DOMAIN orders, orders[i] = n,
                    \A j \in 1..i - 1 : orders[j] # n
             PROVE  First(n) = i
  BY DEF FirstMeans
<1>1. \A k \in DOMAIN orders : orders[k] = n /\ (\A j \in 1..k - 1 : orders[j] # n) => k = i
  <2>1. ASSUME NEW k \in DOMAIN orders, orders[k] = n, \A j \in 1..k - 1 : orders[j] # n, k # i
        PROVE  FALSE
    <3>1. k \in Nat /\ i \in Nat /\ k >= 1 /\ i >= 1
      OBVIOUS
    <3>2. CASE k < i
      <4>1. k \in 1..i - 1
        BY <3>1, <3>2
      <4>q. QED  BY <2>1, <4>1
    <3>3. CASE i < k
      <4>1. i \in 1..k - 1
        BY <3>1, <3>3
      <4>q. QED  BY <2>1, <4>1
    <3>q. QED  BY <2>1, <3>1, <3>2, <3>3
  <2>q. QED  BY <2>1
<1>q. QED  BY <1>1 DEF First

\* One more order leaves the first places as they are, and is the last.
LEMMA FirstGrows ==
  ASSUME orders \in Seq(Nat), NEW h \in Nat, orders' = Append(orders, h)
  PROVE  /\ Acted' = Acted \cup {h}
         /\ \A n \in Acted : First(n)' = First(n) /\ First(n) \in Nat /\ First(n) <= Len(orders)
         /\ h \notin Acted => First(h)' = Len(orders) + 1
<1>1. /\ Len(orders) \in Nat /\ DOMAIN orders = 1..Len(orders)
      /\ orders' \in Seq(Nat) /\ DOMAIN orders' = 1..Len(orders) + 1
      /\ \A i \in 1..Len(orders) : orders'[i] = orders[i]
      /\ orders'[Len(orders) + 1] = h
  OBVIOUS
<1>0. FirstMeans' /\ Acted \subseteq Nat
  <2>1. FirstMeans'
    BY FirstIs, PTL
  <2>q. QED  BY <2>1 DEF Acted
<1>2. Acted' = Acted \cup {h}
  BY <1>1 DEF Acted
<1>3. ASSUME NEW n \in Acted PROVE First(n)' = First(n) /\ First(n) \in Nat /\ First(n) <= Len(orders)
  <2>1. PICK i \in DOMAIN orders : orders[i] = n /\ \A j \in 1..i - 1 : orders[j] # n
    BY FirstPlace DEF Acted
  <2>2. First(n) = i
    BY <1>0, <2>1, FirstIs DEF FirstMeans
  <2>3. i \in DOMAIN orders' /\ orders'[i] = n /\ \A j \in 1..i - 1 : orders'[j] # n
    BY <1>1, <2>1
  <2>4. First(n)' = i
    BY <1>0, <1>1, <2>3 DEF FirstMeans
  <2>q. QED  BY <1>1, <2>2, <2>4
<1>4. ASSUME h \notin Acted PROVE First(h)' = Len(orders) + 1
  <2> DEFINE i == Len(orders) + 1
  <2>1. i \in DOMAIN orders' /\ orders'[i] = h /\ \A j \in 1..i - 1 : orders'[j] # h
    BY <1>1, <1>4 DEF Acted
  <2> HIDE DEF i
  <2>2. First(h)' = i
    BY <1>0, <1>1, <2>1 DEF FirstMeans
  <2>q. QED  BY <2>2 DEF i
<1>q. QED  BY <1>2, <1>3, <1>4

\* The steps that send nothing, have no call to make next and write no file.
LEMMA LaterQuiet ==
  ASSUME OrderInv, UNCHANGED <<sent, orders>>, stuck \subseteq stuck', phase' \notin {"close", "entry"},
         \A f \in DOMAIN inbox' : f \in DOMAIN inbox /\ inbox'[f] = inbox[f]
  PROVE  LaterHolds'
<1>1. Acted' = Acted
  BY DEF Acted
<1>q. QED  BY <1>1 DEF OrderInv, LaterHolds

\* The new file has the greatest number of all.
LEMMA LaterCreate ==
  ASSUME OrderInv, NEW m \in Markets, NEW k \in KindsSent, CreateFile(m, k) PROVE LaterHolds'
<1> DEFINE f == <<second, m>>
           sig == [mkt |-> m, kind |-> k]
<1>1. /\ inbox' = [g \in DOMAIN inbox \cup {f} |-> IF g = f THEN Len(sent) + 1 ELSE inbox[g]]
      /\ sent' = Append(sent, sig) /\ UNCHANGED <<phase, held, orders, stuck>>
  BY DEF CreateFile, account
<1> HIDE DEF f, sig
<1>2. \A n \in DOMAIN sent : sent'[n] = sent[n] /\ ~(Len(sent) + 1 < n)
  BY <1>1, OrderFacts
<1>3. Acted' = Acted /\ Acted \subseteq DOMAIN sent
  BY <1>1, OrderFacts DEF Acted
<1>4. phase \in {"close", "entry"} => held \in DOMAIN sent
  <2>1. phase \in {"close", "entry"} => held # 0
    BY DEF OrderInv, OnceInv, Shape, BatchHolds, Calls
  <2>q. QED  BY <2>1, OrderFacts
<1>5. ASSUME NEW n \in DOMAIN sent, NEW g \in DOMAIN inbox', inbox'[g] < n
      PROVE  g \in DOMAIN inbox /\ inbox'[g] = inbox[g]
  BY <1>1, <1>2, <1>5
<1>6. \A n \in Acted, g \in DOMAIN inbox' :
        g[2] = sent'[n].mkt /\ inbox'[g] < n => inbox'[g] \in stuck \cup Acted
  BY <1>2, <1>3, <1>5 DEF OrderInv, LaterHolds
<1>7. ASSUME phase \in {"close", "entry"}
      PROVE  /\ \A g \in DOMAIN inbox' : g[2] = sent'[held].mkt /\ inbox'[g] < held => inbox'[g] \in stuck
             /\ \A n \in Acted : sent'[n].mkt = sent'[held].mkt /\ held < n => held \in stuck \cup Acted
  BY <1>2, <1>3, <1>4, <1>5, <1>7 DEF OrderInv, LaterHolds
<1>q. QED  BY <1>1, <1>3, <1>6, <1>7 DEF LaterHolds

\* The head that is read is the oldest of its market in the inbox, but for
\* those that are stuck.
LEMMA LaterRead == ASSUME OrderInv, ReadFile PROVE LaterHolds'
<1> DEFINE h == Head(batch)
<1>1. /\ UNCHANGED <<sent, inbox, orders, stuck>> /\ batch # <<>>
      /\ h \in writing => phase' = "archive"
      /\ h \notin writing => held' = inbox[h]
  BY DEF ReadFile, webhook, account
<1>2. /\ h \in DOMAIN inbox /\ h = batch[1] /\ 1 \in DOMAIN batch
      /\ \A j \in DOMAIN batch : ~(j < 1)
  <2>1. h \in DOMAIN inbox
    BY <1>1, HeadInInbox DEF OrderInv, OnceInv
  <2>2. batch \in Seq(Names)
    BY OrderFacts
  <2>q. QED  BY <1>1, <2>1, <2>2
<1> HIDE DEF h
<1>3. Acted' = Acted
  BY <1>1 DEF Acted
<1>4. CASE h \in writing
  BY <1>1, <1>4, LaterQuiet
<1>5. CASE h \notin writing
  <2>1. held' = inbox[h] /\ sent[inbox[h]].mkt = h[2]
    BY <1>1, <1>2, <1>5 DEF OrderInv, NamesHold
  <2>2. ASSUME NEW g \in DOMAIN inbox, g[2] = h[2], inbox[g] < inbox[h] PROVE inbox[g] \in stuck
    <3>1. /\ g = <<g[1], g[2]>> /\ h = <<h[1], h[2]>> /\ g[1] \in Nat /\ h[1] \in Nat
          /\ inbox[g] \in Nat /\ inbox[h] \in Nat
      BY <1>2, OrderFacts
    <3>2. ~(h[1] < g[1])
      <4>1. h[1] < g[1] => inbox[h] < inbox[g]
        BY <1>2, <2>2 DEF OrderInv, NamesHold
      <4>q. QED  BY <2>2, <3>1, <4>1
    <3>3. g # h
      BY <2>2, <3>1
    <3>4. g[1] # h[1]
      BY <2>2, <3>1, <3>3
    <3>5. g[1] < h[1]
      BY <3>1, <3>2, <3>4
    <3>q. QED  BY <1>2, <2>2, <3>5 DEF OrderInv, BatchOrder
  <2>3. ASSUME NEW n \in Acted, sent[n].mkt = h[2], inbox[h] < n PROVE inbox[h] \in stuck \cup Acted
    BY <1>2, <2>3 DEF OrderInv, LaterHolds
  <2>4. \A n \in Acted, f \in DOMAIN inbox :
          f[2] = sent[n].mkt /\ inbox[f] < n => inbox[f] \in stuck \cup Acted
    BY DEF OrderInv, LaterHolds
  <2>q. QED  BY <1>1, <1>3, <2>1, <2>2, <2>3, <2>4 DEF LaterHolds
<1>q. QED  BY <1>4, <1>5

\* An order sent: what follows the signal in hand is what follows it now.
LEMMA LaterOrder ==
  ASSUME OrderInv, Close \/ MarketEntry, orders' = Append(orders, held)
  PROVE  LaterHolds' /\ MarketOrder'
<1>1. /\ UNCHANGED <<sent, inbox, stuck>> /\ phase \in {"close", "entry"} /\ phase' \in {"poll", "archive"}
  BY DEF Close, MarketEntry, Reaches, webhook
<1>2. held \in Nat /\ orders \in Seq(Nat) /\ Len(orders) \in Nat
  <2> DEFINE D == DOMAIN sent
  <2>1. orders \in Seq(D) /\ D \subseteq Nat
    BY OrderFacts
  <2> HIDE DEF D
  <2>q. QED  BY <2>1, OrderFacts
<1>h. PICK h \in Nat : h = held
  BY <1>2
<1>3. /\ Acted' = Acted \cup {h}
      /\ \A n \in Acted : First(n)' = First(n) /\ First(n) \in Nat /\ First(n) <= Len(orders)
      /\ h \notin Acted => First(h)' = Len(orders) + 1
  BY <1>2, <1>h, FirstGrows
<1>4. /\ \A f \in DOMAIN inbox : f[2] = sent[held].mkt /\ inbox[f] < held => inbox[f] \in stuck
      /\ \A n \in Acted : sent[n].mkt = sent[held].mkt /\ held < n => held \in stuck \cup Acted
      /\ \A n \in Acted, f \in DOMAIN inbox :
           f[2] = sent[n].mkt /\ inbox[f] < n => inbox[f] \in stuck \cup Acted
  BY <1>1 DEF OrderInv, LaterHolds
<1>5. LaterHolds'
  BY <1>1, <1>3, <1>4, <1>h DEF LaterHolds
<1>6. \A m, n \in Acted : sent[m].mkt = sent[n].mkt /\ m < n /\ m \notin stuck => First(m) < First(n)
  BY DEF OrderInv, MarketOrder, Acted
<1>7. ASSUME NEW m \in Acted \cup {h}, NEW n \in Acted \cup {h},
             sent[m].mkt = sent[n].mkt, m < n, m \notin stuck
      PROVE  First(m)' < First(n)'
  <2>1. CASE m \in Acted /\ n \in Acted
    <3>1. First(m) < First(n) /\ First(m)' = First(m) /\ First(n)' = First(n)
      BY <1>3, <1>6, <1>7, <2>1
    <3>q. QED  BY <3>1
  <2>2. CASE m \in Acted /\ n \notin Acted
    <3>1. First(m)' <= Len(orders) /\ First(m)' \in Nat /\ First(n)' = Len(orders) + 1
      BY <1>3, <2>2
    <3>q. QED  BY <1>2, <3>1
  <2>3. CASE m \notin Acted
    <3>1. m = h /\ n \in Acted
      BY <1>2, <1>7, <2>3
    <3>q. QED  BY <1>4, <1>7, <1>h, <2>3, <3>1
  <2>q. QED  BY <2>1, <2>2, <2>3
<1>8. MarketOrder'
  <2>1. {orders'[i] : i \in DOMAIN orders'} = Acted \cup {h}
    BY <1>3 DEF Acted
  <2>q. QED  BY <1>1, <1>7, <2>1 DEF MarketOrder
<1>q. QED  BY <1>5, <1>8

\* A step that sends nothing leaves the order as it is.
LEMMA MarketQuiet ==
  ASSUME OrderInv, orders' = orders, stuck \subseteq stuck', \A n \in DOMAIN sent : sent'[n] = sent[n]
  PROVE  MarketOrder'
<1>1. Acted \subseteq DOMAIN sent /\ Acted = {orders[i] : i \in DOMAIN orders}
  BY OrderFacts DEF Acted
<1>2. \A n : First(n)' = First(n)
  BY DEF First
<1>q. QED  BY <1>1, <1>2 DEF OrderInv, MarketOrder

LEMMA LaterStep == ASSUME OrderInv, [InboxNext]_inboxVars PROVE LaterHolds' /\ MarketOrder'
<1>1. ASSUME NEW m \in Markets, NEW k \in KindsSent, CreateFile(m, k) PROVE LaterHolds' /\ MarketOrder'
  <2> DEFINE sig == [mkt |-> m, kind |-> k]
  <2>1. orders' = orders /\ stuck' = stuck /\ sent' = Append(sent, sig)
    BY <1>1 DEF CreateFile, account
  <2> HIDE DEF sig
  <2>2. \A n \in DOMAIN sent : sent'[n] = sent[n]
    BY <2>1, OrderFacts
  <2>q. QED  BY <1>1, <2>1, <2>2, LaterCreate, MarketQuiet
<1>2. CASE SecondPasses \/ FinishFile \/ UNCHANGED inboxVars
  <2>1. UNCHANGED <<sent, inbox, orders, stuck, phase, held>>
    BY <1>2 DEF SecondPasses, FinishFile, inboxVars, webhook, account
  <2>q. QED  BY <2>1, MarketQuiet DEF OrderInv, LaterHolds, Acted
<1>3. CASE ReadFile
  <2>1. UNCHANGED <<sent, orders, stuck>>
    BY <1>3 DEF ReadFile, webhook, account
  <2>q. QED  BY <1>3, <2>1, LaterRead, MarketQuiet
<1>4. CASE Close \/ MarketEntry
  <2>1. /\ UNCHANGED <<sent, inbox, stuck>> /\ phase' \in {"poll", "archive"}
        /\ orders' = orders \/ orders' = Append(orders, held)
    BY <1>4 DEF Close, MarketEntry, Reaches, webhook
  <2>q. QED  BY <1>4, <2>1, LaterOrder, LaterQuiet, MarketQuiet
<1>5. CASE ListInbox \/ PollPosition \/ AttachStop \/ AttachTargets \/ WriteOutcome \/ ArchiveFails \/ KillExecutor
  <2>1. UNCHANGED <<sent, inbox, orders>> /\ stuck \subseteq stuck' /\ phase' \notin {"close", "entry"}
    BY <1>5 DEF ListInbox, PollPosition, AfterPolls, AttachStop, AttachTargets, WriteOutcome, Reaches,
       ArchiveFails, KillExecutor, webhook, account
  <2>q. QED  BY <2>1, LaterQuiet, MarketQuiet
<1>6. CASE RemoveFile
  <2>1. /\ inbox' = [g \in DOMAIN inbox \ {Head(batch)} |-> inbox[g]]
        /\ UNCHANGED <<sent, orders, stuck>> /\ phase' \notin {"close", "entry"}
    BY <1>6 DEF RemoveFile, Without, account
  <2>q. QED  BY <2>1, LaterQuiet, MarketQuiet
<1>q. QED
  BY <1>1, <1>2, <1>3, <1>4, <1>5, <1>6 DEF InboxNext, ExecutorStep

-----------------------------------------------------------------------------
\* Names, lists, calls and outcomes stay what they are, whatever the faults.
THEOREM InboxTypes == InboxSpec => []InboxTypeOK
<1>1. InboxInit => Shape
  BY ShapeInit
<1>2. Shape /\ [InboxNext]_inboxVars => Shape'
  BY ShapeStep
<1>3. Shape => InboxTypeOK
  BY DEF Shape
<1>q. QED  BY <1>1, <1>2, <1>3, PTL DEF InboxSpec

\* A signal archived with executed: true has its stop-loss or a result that
\* says partial, for any number of signals and of kills; a signal whose file
\* was overwritten or read half written is left out, as StopOrWarning says.
THEOREM ExecutedIsToldApart == InboxSpec => []StopOrWarning
<1>1. InboxInit => StopInv
  <2>1. InboxInit => StopHolds /\ StopOrWarning
    BY DEF InboxInit, StopHolds, StopOrWarning
  <2>q. QED  BY <2>1, ShapeInit DEF StopInv
<1>2. StopInv /\ [InboxNext]_inboxVars => StopInv'
  BY ShapeStep, StopStep DEF StopInv
<1>3. StopInv => StopOrWarning
  BY DEF StopInv
<1>q. QED  BY <1>1, <1>2, <1>3, PTL DEF InboxSpec

\* No signal acts on the account twice unless a kill or a failing move left
\* its file in the inbox (the first half of SignalsOnceInOrder).
THEOREM SignalsActOnce == InboxSpec => []ActsOnce
<1>1. InboxInit => OnceInv
  BY OnceInit
<1>2. OnceInv /\ [InboxNext]_inboxVars => OnceInv'
  BY ShapeStep, OnceStep DEF OnceInv
<1>3. OnceInv => ActsOnce
  BY DEF OnceInv
<1>q. QED  BY <1>1, <1>2, <1>3, PTL DEF InboxSpec

\* Each signal acts once and those of one market in the order they arrived,
\* across the cycles, the retries and the kills, but for the signals whose
\* file was left behind: for any number of markets, signals and faults.
THEOREM SignalsInOrder == InboxSpec => []SignalsOnceInOrder
<1>1. InboxInit => OrderInv
  BY OrderInit
<1>2. OrderInv /\ [InboxNext]_inboxVars => OrderInv'
  BY ShapeStep, OnceStep, NamesStep, BatchStep, LaterStep DEF OrderInv, OnceInv
<1>3. OrderInv => SignalsOnceInOrder
  BY DEF OrderInv, OnceInv, SignalsOnceInOrder
<1>q. QED  BY <1>1, <1>2, <1>3, PTL DEF InboxSpec
=============================================================================
