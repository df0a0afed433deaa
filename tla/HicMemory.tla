----------------------------- MODULE HicMemory -----------------------------
(***************************************************************************)
(* What the chipio tools are to the user: the HIC bus is a memory of words. *)
(* A load puts its words one after the other, from the first on, each whole *)
(* and at once, and may stop anywhere; only then it looks at what the bus   *)
(* holds.  A dump looks at words in ascending order and may leave some out. *)
(* What is read is what the memory holds, unless it is marked "stale".      *)
(***************************************************************************)
EXTENDS HicWords

VARIABLES
    store,      \* the words on the bus
    cur,        \* the job in hand
    put,        \* words of it already stored
    vals,       \* words read
    seen        \* which words were read, and how

vars == <<store, cur, put, vals, seen>>

Blank(j, v, s) ==
    /\ v = [k \in 1 .. j.n |-> Zero]
    /\ s = [k \in 1 .. j.n |-> "unread"]

Init ==
    /\ store \in InitialMem
    /\ cur \in Jobs
    /\ put = 0
    /\ Blank(cur, vals, seen)

Begin ==
    /\ cur' \in Jobs
    /\ put' = 0
    /\ Blank(cur', vals', seen')
    /\ UNCHANGED store

Put ==
    /\ cur.kind = "load"
    /\ put < cur.n
    /\ \A k \in 1 .. cur.n : seen[k] = "unread"
    /\ store' = [store EXCEPT ![WordAddr(cur.base, put + 1)] = cur.words[put + 1]]
    /\ put' = put + 1
    /\ UNCHANGED <<cur, vals, seen>>

(* The j-th word is read; none behind it has been.                         *)
Get(j) ==
    /\ \A k \in j .. cur.n : seen[k] = "unread"
    /\ \/ /\ seen' = [seen EXCEPT ![j] = "fresh"]
          /\ vals' = [vals EXCEPT ![j] = store[WordAddr(cur.base, j)]]
       \/ /\ seen' = [seen EXCEPT ![j] = "stale"]
          /\ \E w \in Word : vals' = [vals EXCEPT ![j] = w]
    /\ UNCHANGED <<store, cur, put>>

Next == Begin \/ Put \/ \E j \in 1 .. cur.n : Get(j)

Spec == Init /\ [][Next]_vars
=============================================================================
