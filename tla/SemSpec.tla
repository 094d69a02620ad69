------------------------------ MODULE SemSpec ------------------------------
(***************************************************************************)
(* What a counting semaphore promises to its users, with no scheduler, no  *)
(* signed counter and no timer: units available, a set of waiting threads, *)
(* and the result a wait is about to return.  RtSem implements it.         *)
(***************************************************************************)
EXTENDS Integers

CONSTANTS Threads, Sems, MaxCount

VARIABLES
    avail,      \* avail[s]: units that a wait can take at once
    waiting,    \* waiting[s]: threads blocked on s
    result      \* result[t]: what the wait t is inside of will return

svars == <<avail, waiting, result>>

SInit ==
    /\ avail \in [Sems -> 0 .. MaxCount]
    /\ waiting = [s \in Sems |-> {}]
    /\ result = [t \in Threads |-> "none"]

\* t is not inside a wait.
Free(t) == result[t] = "none" /\ \A s \in Sems : t \notin waiting[s]

Take(s) ==
    /\ avail[s] > 0
    /\ avail' = [avail EXCEPT ![s] = @ - 1]
    /\ UNCHANGED <<waiting, result>>

Block(t, s) ==
    /\ Free(t)
    /\ avail[s] = 0
    /\ waiting' = [waiting EXCEPT ![s] = @ \union {t}]
    /\ UNCHANGED <<avail, result>>

\* A unit goes to a waiting thread if there is one, else it becomes available.
Put(s) ==
    /\ waiting[s] = {}
    /\ avail[s] < MaxCount
    /\ avail' = [avail EXCEPT ![s] = @ + 1]
    /\ UNCHANGED <<waiting, result>>

Grant(t, s) ==
    /\ t \in waiting[s]
    /\ waiting' = [waiting EXCEPT ![s] = @ \ {t}]
    /\ result' = [result EXCEPT ![t] = "OK"]
    /\ UNCHANGED avail

\* A timeout takes no unit and gives none.
TimeOut(t, s) ==
    /\ t \in waiting[s]
    /\ waiting' = [waiting EXCEPT ![s] = @ \ {t}]
    /\ result' = [result EXCEPT ![t] = "TIMEOUT"]
    /\ UNCHANGED avail

Reset(s) ==
    /\ \E n \in 0 .. MaxCount : avail' = [avail EXCEPT ![s] = n]
    /\ result' = [t \in Threads |-> IF t \in waiting[s] THEN "RESET" ELSE result[t]]
    /\ waiting' = [waiting EXCEPT ![s] = {}]

Finish(t) ==
    /\ result[t] # "none"
    /\ result' = [result EXCEPT ![t] = "none"]
    /\ UNCHANGED <<avail, waiting>>

\* A signal of s1 and a wait of t on s2 in one step.
PutAndWait(t, s1, s2) ==
    /\ s1 # s2
    /\ Free(t)
    /\ \E u \in waiting[s1] \union {t} :
        /\ u = t => waiting[s1] = {} /\ avail[s1] < MaxCount
        /\ avail' = [avail EXCEPT ![s1] = IF u = t THEN @ + 1 ELSE @,
                                  ![s2] = IF @ > 0 THEN @ - 1 ELSE @]
        /\ waiting' = [waiting EXCEPT ![s1] = @ \ {u},
                                      ![s2] = IF avail[s2] > 0 THEN @ ELSE @ \union {t}]
        /\ result' = IF u = t THEN result ELSE [result EXCEPT ![u] = "OK"]

SNext ==
    \/ \E s \in Sems : Take(s) \/ Put(s) \/ Reset(s)
    \/ \E t \in Threads, s \in Sems : Block(t, s) \/ Grant(t, s) \/ TimeOut(t, s)
    \/ \E t \in Threads : Finish(t)
    \/ \E t \in Threads, s1, s2 \in Sems : PutAndWait(t, s1, s2)

SSpec == SInit /\ [][SNext]_svars
=============================================================================
