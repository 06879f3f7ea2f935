-------------------------------- MODULE Mutex --------------------------------
(***************************************************************************)
(* What lock_acquire and lock_release promise their callers: a recursive   *)
(* lock.  A thread enters a lock nobody is in, or once more the lock it is *)
(* in, and leaves it when it has released it as often as it has acquired   *)
(* it.  Each happens in one step, in which what the fields of the lock say *)
(* (owner, count) and where the callers are (inside) change together.      *)
(***************************************************************************)
EXTENDS Naturals

CONSTANTS Thread, Lock, NoThread

VARIABLES owner,    \* the thread the lock belongs to, as its fields tell
          count,    \* how often it has been acquired, as its fields tell
          inside    \* the threads whose callers are between acquire and release

mutexVars == <<owner, count, inside>>

MutexInit == /\ owner = [l \in Lock |-> NoThread]
             /\ count = [l \in Lock |-> 0]
             /\ inside = [l \in Lock |-> {}]

Enter(t, l) == /\ owner[l] = NoThread
               /\ inside[l] = {}
               /\ owner' = [owner EXCEPT ![l] = t]
               /\ count' = [count EXCEPT ![l] = 1]
               /\ inside' = [inside EXCEPT ![l] = {t}]

EnterAgain(t, l) == /\ owner[l] = t
                    /\ inside[l] = {t}
                    /\ count' = [count EXCEPT ![l] = @ + 1]
                    /\ UNCHANGED <<owner, inside>>

LeaveInner(t, l) == /\ owner[l] = t
                    /\ inside[l] = {t}
                    /\ count[l] > 1
                    /\ count' = [count EXCEPT ![l] = @ - 1]
                    /\ UNCHANGED <<owner, inside>>

Leave(t, l) == /\ owner[l] = t
               /\ inside[l] = {t}
               /\ count[l] = 1
               /\ owner' = [owner EXCEPT ![l] = NoThread]
               /\ count' = [count EXCEPT ![l] = 0]
               /\ inside' = [inside EXCEPT ![l] = {}]

MutexNext == \E t \in Thread, l \in Lock :
               Enter(t, l) \/ EnterAgain(t, l) \/ LeaveInner(t, l) \/ Leave(t, l)

MutexSpec == MutexInit /\ [][MutexNext]_mutexVars
=============================================================================
