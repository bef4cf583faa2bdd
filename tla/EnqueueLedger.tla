---------------------------- MODULE EnqueueLedger ----------------------------
(***************************************************************************)
(* What enqueueing under an idempotency key promises, however requests     *)
(* overlap, are repeated or dropped, and whatever becomes of the jobs: a   *)
(* key is entered once, in one instant; its entry gives every shot it      *)
(* names the next take numbers; an entry never changes; and whoever is     *)
(* answered is told the entry.  GenQueue.tla is the detailed specification *)
(* that implements this one.                                               *)
(***************************************************************************)
EXTENDS Naturals

CONSTANTS Keys, Shots, Counts,
          Numbers,      \* take numbers
          None

VARIABLES
    owner,      \* [Shots \X Numbers -> Keys \cup {None}]: the key each number was given to
    told        \* [Keys -> the sets of jobs that were answered]

vars == <<owner, told>>

Init == /\ owner = [j \in Shots \X Numbers |-> None]
        /\ told = [k \in Keys |-> {}]

Entry(k) == {j \in Shots \X Numbers : owner[j] = k}

\* The numbers a shot has given out.
Given(s) == {n \in Numbers : owner[<<s, n>>] # None}

\* n numbers of every shot of S, each beginning after the last one given out.
Numbered(S, last, n) == {<<s, last[s] + i>> : s \in S, i \in 1..n}

Enter(k) ==
    /\ Entry(k) = {}
    /\ \E S \in (SUBSET Shots) \ {{}}, n \in Counts :
       \E last \in [S -> {0} \cup Numbers] :
          /\ \A s \in S : Given(s) = 1..last[s]
          /\ Numbered(S, last, n) \subseteq Shots \X Numbers
          /\ told' = [told EXCEPT ![k] = {Numbered(S, last, n)}]
          /\ owner' = [j \in Shots \X Numbers |->
                          IF j \in Numbered(S, last, n) THEN k ELSE owner[j]]

Tell(k) ==
    /\ Entry(k) # {}
    /\ told' = [told EXCEPT ![k] = @ \cup {Entry(k)}]
    /\ UNCHANGED owner

Next == \E k \in Keys : Enter(k) \/ Tell(k)

Spec == Init /\ [][Next]_vars
=============================================================================
