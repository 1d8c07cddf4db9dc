-------------------------- MODULE SnapshotService --------------------------
(***************************************************************************)
(* What the snapshot loop promises the request handlers, with no loop, lock*)
(* or pointer in sight: there is one served snapshot at any time; it is    *)
(* empty until the first one is published; a published snapshot is whole   *)
(* and newer than the one it replaces; and a request is answered from the  *)
(* snapshot that was served at one instant of its execution.               *)
(***************************************************************************)
EXTENDS CacheData

CONSTANTS Requests, NoCache

VARIABLES
    served,   \* the snapshot requests are answered from
    answer    \* [Requests -> the snapshot a request is using, or NoCache]

vars == <<served, answer>>

Init ==
    /\ served = EmptyCache
    /\ answer = [r \in Requests |-> NoCache]

Publish ==
    /\ Whole(served')
    /\ Newer(served', served)
    /\ UNCHANGED answer

TakeSnapshot(r) ==
    /\ answer[r] = NoCache
    /\ answer' = [answer EXCEPT ![r] = served]
    /\ UNCHANGED served

Respond(r) ==
    /\ answer[r] # NoCache
    /\ answer' = [answer EXCEPT ![r] = NoCache]
    /\ UNCHANGED served

Next == Publish \/ \E r \in Requests : TakeSnapshot(r) \/ Respond(r)

Spec == Init /\ [][Next]_vars
=============================================================================
