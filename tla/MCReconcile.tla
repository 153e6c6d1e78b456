----------------------------- MODULE MCReconcile -----------------------------
(***************************************************************************)
(* Four small instances of Reconcile over the same variables: in "solo"    *)
(* the one trade of the constants and its passes; in "ladder" a trade that *)
(* enters by two rungs, 4% apart, with passes that may be                  *)
(* killed and another process that syncs; in "pair" a logged and a manual  *)
(* trade of one pair, at levels the tolerances tell apart, with passes     *)
(* that may be killed; in "aging" such a pair of one unit each, whose rows *)
(* the exchange forgets.                                                   *)
(***************************************************************************)
EXTENDS Reconcile, TLC

CONSTANTS
  Parts,   \* the instances explored
  p1       \* the pair

VARIABLE part

\* 0.8% apart at 300 dollars.
Apart == <<30000, 30240>>

SoloPair  == [n \in Trades |-> p1]
SoloLevel == [n \in Trades |-> Apart[1]]

Pair == INSTANCE Reconcile
          WITH Trades <- {1, 2}, PairOf <- <<p1, p1>>, Level <- Apart, AddUp <- 0,
               Ladders <- {}, Faults <- {"kill"}, MaxDay <- 0
Aging == INSTANCE Reconcile
           WITH Trades <- {1, 2}, PairOf <- <<p1, p1>>, Level <- Apart, AddUp <- 0,
                Units <- 1, Ladders <- {}, Faults <- {"kill"}, MaxDay <- 1
Ladder == INSTANCE Reconcile
            WITH Units <- 1, AddUp <- 600, Ladders <- Trades, Faults <- {"kill", "sync"}, MaxDay <- 1

BothInit ==
  /\ part \in Parts
  /\ \/ part = "solo" /\ Init
     \/ part = "ladder" /\ Ladder!Init
     \/ part = "pair" /\ Pair!Init
     \/ part = "aging" /\ Aging!Init

BothNext ==
  /\ UNCHANGED part
  /\ \/ part = "solo" /\ Next
     \/ part = "ladder" /\ Ladder!Next
     \/ part = "pair" /\ Pair!Next
     \/ part = "aging" /\ Aging!Next

BothSpec == BothInit /\ [][BothNext]_<<part, vars>>

-----------------------------------------------------------------------------

\* After a quiet pass, whatever earlier passes did while the market moved or
\* left undone when they were killed, the open lines are the positions of the
\* exchange and every exit it lists is counted (journal.js lines 986-1097).
Aligned ==
  CASE part = "pair"  -> Pair!PositionsAligned /\ Pair!NoExitMissed
    [] part = "aging" -> Aging!PositionsAligned /\ Aging!NoExitMissed
    [] OTHER          -> PositionsAligned /\ NoExitMissed
=============================================================================
