----------------------------- MODULE SyncProofs -----------------------------
(***************************************************************************)
(* Proofs, for any set of threads, any set of locks and any bound on       *)
(* recursion, of the safety properties of Sync.                            *)
(***************************************************************************)
EXTENDS Sync, TLAPS

(* What holds at each label of lock_acquire and lock_release.  The fields  *)
(* of a lock are written by its owner alone, and between lock_acquire's    *)
(* last and lock_release's first step they say what the owner has done.    *)
Phases ==
  \A t \in Thread :
    /\ pc[t] \in {"down", "woken"} => depth[t] = 0
    /\ pc[t] \in {"acquire", "again"} => depth[t] < MaxDepth
    /\ pc[t] \in {"again", "release"} => depth[t] > 0
    /\ pc[t] \in {"own", "first", "clear", "up"} => depth[t] = 1
    /\ depth[t] > 0 /\ pc[t] \in {"run", "acquire", "again", "release"}
         => holder[arg[t]] = t /\ repeat[arg[t]] = depth[t]
    /\ pc[t] = "first" => holder[arg[t]] = t
    /\ pc[t] \in {"own", "clear", "up"} => holder[arg[t]] = NoThread
    /\ pc[t] \in {"own", "first", "up"} => repeat[arg[t]] = 0

(* A lock nobody owns looks as lock_init has left it.                      *)
FreeLocks ==
  \A l \in Lock : (\A t \in Thread : ~ Owns(t, l))
                    => holder[l] = NoThread /\ repeat[l] = 0

(* A thread that does not exist yet is at the start of its client code.    *)
Unborn == \A t \in Thread : status[t] = "UNBORN"
                              => pc[t] = "run" /\ depth[t] = 0 /\ mode[t]

(* The flag sema_down will restore is the client's.                        *)
OldKept == \A t \in Thread : pc[t] = "woken" => old[t] = mode[t]

(* What the lists say of their members: OneList, without the claim that a  *)
(* blocked thread is among the waiters of some lock.  A thread may also    *)
(* block elsewhere, as ioq_wait does, and the rest of the invariant holds  *)
(* of the locks all the same.                                              *)
Listed ==
  /\ \A t \in Thread : status[t] = "RUNNING" <=> t = current
  /\ \A t \in Thread : status[t] = "READY" <=> node_find(ready, t)
  /\ \A t \in Thread, l \in Lock : node_find(waiters[l], t)
                                     => Waiting(t, l) /\ status[t] = "BLOCKED"
  /\ IsInjective(ready)
  /\ \A l \in Lock : IsInjective(waiters[l])

(* The invariant of the locks, whatever else threads block on.             *)
Core == /\ TypeOK /\ NoPanic
        /\ Listed
        /\ MutualExclusion
        /\ Phases /\ FreeLocks
        /\ NoLostWakeup
        /\ Unborn /\ IntrKept /\ OldKept

(* The inductive invariant of Sync.                                        *)
Accounted == \A t \in Thread : status[t] = "BLOCKED"
                                 => \E l \in Lock : node_find(waiters[l], t)
IInv == Core /\ Accounted

(* A step leaves no thread blocked that is in no list, unless it was so    *)
(* before.                                                                 *)
StillFound ==
  \A t \in Thread : status'[t] = "BLOCKED"
    => \/ \E l \in Lock : node_find(waiters'[l], t)
       \/ /\ status[t] = "BLOCKED"
          /\ \A l \in Lock : ~ node_find(waiters[l], t)
-----------------------------------------------------------------------------
(* Sequences without repetitions, as the kernel's lists are.               *)

(* Appending adds exactly the new node.                                    *)
LEMMA AppendRange ==
  ASSUME NEW S, NEW s \in Seq(S), NEW x \in S
  PROVE  /\ list_append(s, x) \in Seq(S)
         /\ Range(list_append(s, x)) = Range(s) \cup {x}
         /\ list_append(s, x) # <<>>
         /\ IsInjective(s) /\ x \notin Range(s) => IsInjective(list_append(s, x))
<1> DEFINE q == Append(s, x)
<1>1. /\ q \in Seq(S) /\ Len(q) = Len(s) + 1 /\ DOMAIN q = 1..(Len(s) + 1)
      /\ DOMAIN s = 1..Len(s) /\ Len(s) \in Nat
      /\ \A i \in 1..Len(s) : q[i] = s[i]
      /\ q[Len(s) + 1] = x
  OBVIOUS
<1>2. Range(q) = Range(s) \cup {x}
  <2>1. ASSUME NEW y \in Range(q) PROVE y \in Range(s) \cup {x}
    <3>1. PICK i \in 1..(Len(s) + 1) : y = q[i]
      BY <1>1 DEF Range
    <3>2. i \in 1..Len(s) \/ i = Len(s) + 1
      BY <1>1
    <3> QED BY <1>1, <3>1, <3>2 DEF Range
  <2>2. ASSUME NEW y \in Range(s) PROVE y \in Range(q)
    <3>1. PICK i \in 1..Len(s) : y = s[i]
      BY <1>1 DEF Range
    <3> QED BY <1>1, <3>1 DEF Range
  <2>3. x \in Range(q)
    BY <1>1 DEF Range
  <2> QED BY <2>1, <2>2, <2>3
<1>3. q # <<>>
  BY <1>1
<1>4. ASSUME IsInjective(s), x \notin Range(s) PROVE IsInjective(q)
  <2> SUFFICES ASSUME NEW a \in 1..(Len(s) + 1), NEW b \in 1..(Len(s) + 1), q[a] = q[b]
               PROVE  a = b
    BY <1>1 DEF IsInjective
  <2>1. CASE a \in 1..Len(s) /\ b \in 1..Len(s)
    BY <1>1, <1>4, <2>1 DEF IsInjective
  <2>2. CASE a = Len(s) + 1 /\ b \in 1..Len(s)
    BY <1>1, <1>4, <2>2 DEF Range
  <2>3. CASE b = Len(s) + 1 /\ a \in 1..Len(s)
    BY <1>1, <1>4, <2>3 DEF Range
  <2> QED BY <1>1, <2>1, <2>2, <2>3
<1> QED BY <1>1, <1>2, <1>3, <1>4 DEF list_append

(* So does pushing.                                                        *)
LEMMA PushRange ==
  ASSUME NEW S, NEW s \in Seq(S), NEW x \in S
  PROVE  /\ list_push(s, x) \in Seq(S)
         /\ Range(list_push(s, x)) = Range(s) \cup {x}
         /\ IsInjective(s) /\ x \notin Range(s) => IsInjective(list_push(s, x))
<1> DEFINE q == <<x>> \o s
<1>1. /\ q \in Seq(S) /\ Len(q) = Len(s) + 1 /\ DOMAIN q = 1..(Len(s) + 1)
      /\ DOMAIN s = 1..Len(s) /\ Len(s) \in Nat
      /\ q[1] = x
      /\ \A i \in 2..(Len(s) + 1) : q[i] = s[i - 1]
  OBVIOUS
<1>2. Range(q) = Range(s) \cup {x}
  <2>1. ASSUME NEW y \in Range(q) PROVE y \in Range(s) \cup {x}
    <3>1. PICK i \in 1..(Len(s) + 1) : y = q[i]
      BY <1>1 DEF Range
    <3>2. i = 1 \/ (i \in 2..(Len(s) + 1) /\ i - 1 \in 1..Len(s))
      BY <1>1
    <3> QED BY <1>1, <3>1, <3>2 DEF Range
  <2>2. ASSUME NEW y \in Range(s) PROVE y \in Range(q)
    <3>1. PICK i \in 1..Len(s) : y = s[i]
      BY <1>1 DEF Range
    <3>2. i + 1 \in 2..(Len(s) + 1) /\ (i + 1) - 1 = i
      BY <1>1
    <3>3. q[i + 1] = y /\ i + 1 \in DOMAIN q
      BY <1>1, <3>1, <3>2
    <3> QED BY <3>3 DEF Range
  <2>3. x \in Range(q)
    BY <1>1 DEF Range
  <2> QED BY <2>1, <2>2, <2>3
<1>3. ASSUME IsInjective(s), x \notin Range(s) PROVE IsInjective(q)
  <2> SUFFICES ASSUME NEW a \in 1..(Len(s) + 1), NEW b \in 1..(Len(s) + 1), q[a] = q[b]
               PROVE  a = b
    BY <1>1 DEF IsInjective
  <2>1. CASE a = 1 /\ b = 1
    BY <2>1
  <2>2. CASE a = 1 /\ b \in 2..(Len(s) + 1)
    <3>1. b - 1 \in 1..Len(s) BY <1>1, <2>2
    <3> QED BY <1>1, <1>3, <2>2, <3>1 DEF Range
  <2>3. CASE b = 1 /\ a \in 2..(Len(s) + 1)
    <3>1. a - 1 \in 1..Len(s) BY <1>1, <2>3
    <3> QED BY <1>1, <1>3, <2>3, <3>1 DEF Range
  <2>4. CASE a \in 2..(Len(s) + 1) /\ b \in 2..(Len(s) + 1)
    <3>1. a - 1 \in 1..Len(s) /\ b - 1 \in 1..Len(s) BY <1>1, <2>4
    <3>2. s[a - 1] = s[b - 1] BY <1>1, <2>4
    <3>3. a - 1 = b - 1 BY <1>1, <1>3, <3>1, <3>2 DEF IsInjective
    <3> QED BY <1>1, <3>3, <2>4
  <2> QED BY <1>1, <2>1, <2>2, <2>3, <2>4
<1> QED BY <1>1, <1>2, <1>3 DEF list_push

(* Popping the first node of a list without repetitions removes it.        *)
LEMMA PopRange ==
  ASSUME NEW S, NEW s \in Seq(S), s # <<>>, IsInjective(s)
  PROVE  /\ Head(s) \in S /\ Head(s) \in Range(s)
         /\ Tail(s) \in Seq(S)
         /\ Range(Tail(s)) = Range(s) \ {Head(s)}
         /\ IsInjective(Tail(s))
<1> DEFINE q == Tail(s)
<1>1. /\ q \in Seq(S) /\ Len(s) \in Nat \ {0} /\ Len(q) = Len(s) - 1
      /\ DOMAIN q = 1..(Len(s) - 1) /\ DOMAIN s = 1..Len(s)
      /\ Head(s) = s[1]
      /\ \A i \in 1..(Len(s) - 1) : q[i] = s[i + 1]
  OBVIOUS
<1>2. 1 \in DOMAIN s /\ Head(s) \in S /\ Head(s) \in Range(s)
  BY <1>1 DEF Range
<1>3. ASSUME NEW y \in Range(q) PROVE y \in Range(s) /\ y # Head(s)
  <2>1. PICK i \in 1..(Len(s) - 1) : y = q[i]
    BY <1>1, <1>3 DEF Range
  <2>2. i + 1 \in 1..Len(s) /\ i + 1 # 1 /\ y = s[i + 1]
    BY <1>1, <2>1
  <2> QED BY <1>1, <1>2, <2>2 DEF Range, IsInjective
<1>4. ASSUME NEW y \in Range(s), y # Head(s) PROVE y \in Range(q)
  <2>1. PICK i \in 1..Len(s) : y = s[i]
    BY <1>1, <1>4 DEF Range
  <2>2. i # 1 /\ i - 1 \in 1..(Len(s) - 1)
    BY <1>1, <1>4, <2>1
  <2>3. q[i - 1] = y
    BY <1>1, <2>1, <2>2
  <2> QED BY <1>1, <2>2, <2>3 DEF Range
<1>5. IsInjective(q)
  <2> SUFFICES ASSUME NEW a \in 1..(Len(s) - 1), NEW b \in 1..(Len(s) - 1), q[a] = q[b]
               PROVE  a = b
    BY <1>1 DEF IsInjective
  <2>1. a + 1 \in 1..Len(s) /\ b + 1 \in 1..Len(s) /\ s[a + 1] = s[b + 1]
    BY <1>1
  <2>2. a + 1 = b + 1
    BY <1>1, <2>1 DEF IsInjective
  <2> QED BY <1>1, <2>2
<1> QED BY <1>1, <1>2, <1>3, <1>4, <1>5

(* The empty list contains nothing, any other contains something.          *)
LEMMA EmptyRange ==
  ASSUME NEW S, NEW s \in Seq(S)
  PROVE  /\ s = <<>> <=> Range(s) = {}
         /\ Range(s) \subseteq S
<1>1. DOMAIN s = 1..Len(s) /\ Len(s) \in Nat /\ \A i \in 1..Len(s) : s[i] \in S
  OBVIOUS
<1>2. s = <<>> => Range(s) = {}
  BY <1>1 DEF Range
<1>3. s # <<>> => Range(s) # {}
  <2> SUFFICES ASSUME s # <<>> PROVE \E y : y \in Range(s)
    OBVIOUS
  <2>1. 1 \in DOMAIN s
    BY <1>1
  <2> QED BY <2>1 DEF Range
<1> QED BY <1>1, <1>2, <1>3 DEF Range
-----------------------------------------------------------------------------
(* The thread that has the CPU is in no list.                              *)
LEMMA CurrentFree ==
  ASSUME Core
  PROVE  /\ status[current] = "RUNNING"
         /\ current \notin Range(ready)
         /\ \A l \in Lock : current \notin Range(waiters[l])
BY DEF Core, TypeOK, SchedTypeOK, Listed, node_find

(* The second half of the invariant determines the owner of a lock from    *)
(* its fields.                                                             *)
LEMMA HolderOwner == Core => HolderIsOwner
<1> SUFFICES ASSUME Core PROVE HolderIsOwner
  OBVIOUS
<1>1. ASSUME NEW l \in Lock, holder[l] # NoThread PROVE Owns(holder[l], l)
  <2>1. PICK u \in Thread : Owns(u, l)
    BY <1>1 DEF Core, FreeLocks
  <2>2. pc[u] \in Label /\ arg[u] = l /\ depth[u] > 0
    BY <2>1 DEF Core, TypeOK, Owns
  <2>3. holder[l] = u
    BY <1>1, <2>2 DEF Core, Phases, Label
  <2> QED BY <2>1, <2>3
<1>2. ASSUME NEW t \in Thread, pc[t] = "run", depth[t] > 0
      PROVE  holder[arg[t]] = t /\ repeat[arg[t]] = depth[t]
  BY <1>2 DEF Core, Phases
<1> QED BY <1>1, <1>2 DEF HolderIsOwner

(* A step that leaves the lists alone keeps them consistent, as long as the *)
(* threads other than the running one wait for what they waited for.       *)
LEMMA ListedKept ==
  ASSUME Core, UNCHANGED <<current, ready, status, waiters>>,
         \A u \in Thread, k \in Lock : u # current /\ Waiting(u, k) => Waiting(u, k)'
  PROVE  Listed'
<1>1. \A u \in Thread, k \in Lock :
        u \in Range(waiters[k]) => Waiting(u, k)' /\ status[u] = "BLOCKED"
  BY CurrentFree DEF Core, Listed, node_find
<1>2. Listed
  BY DEF Core
<1> QED BY <1>1, <1>2 DEF Listed, node_find

(* and loses nobody.                                                       *)
LEMMA QuietFound ==
  ASSUME UNCHANGED <<status, waiters>>
  PROVE  StillFound
BY DEF StillFound

(* A step that changes no owner and no value keeps exclusion.              *)
LEMMA ExclusionKept ==
  ASSUME Core, UNCHANGED value,
         \A u \in Thread, k \in Lock : Owns(u, k)' <=> Owns(u, k)
  PROVE  MutualExclusion'
BY DEF Core, MutualExclusion

(* A call of lock_acquire preserves the invariant.                         *)
LEMMA CallAcquireStep ==
  ASSUME Core, NEW t \in Thread, NEW l \in Lock, CallAcquire(t, l)
  PROVE  Core' /\ StillFound
<1> USE LockAssumption DEF At, Goto, schedVars, lockVars, CallAcquire
<1>0. \A u \in Thread, k \in Lock : Owns(u, k)' <=> Owns(u, k)
  BY DEF Core, TypeOK, Owns, Phases
<1>1. TypeOK' /\ NoPanic'
  BY <1>0 DEF Core, TypeOK, SchedTypeOK, NoPanic, Phases, Label
<1>2. Listed'
  <2>1. UNCHANGED <<current, ready, status, waiters>>
    OBVIOUS
  <2>2. \A u \in Thread, k \in Lock : u # current /\ Waiting(u, k) => Waiting(u, k)'
    BY DEF Core, TypeOK, Waiting
  <2> QED BY <2>1, <2>2, ListedKept
<1>3. MutualExclusion'
  BY <1>0, ExclusionKept
<1>4. Phases'
  BY <1>0 DEF Core, TypeOK, SchedTypeOK, MutualExclusion, Owns, Phases, FreeLocks
<1>5. FreeLocks'
  BY <1>0 DEF Core, TypeOK, SchedTypeOK, MutualExclusion, Owns, Phases, FreeLocks
<1>6. NoLostWakeup'
  BY <1>0 DEF Core, TypeOK, SchedTypeOK, NoLostWakeup, Waiting
<1>7. Unborn' /\ IntrKept' /\ OldKept'
  BY <1>0, CurrentFree DEF Core, TypeOK, SchedTypeOK, Unborn, IntrKept, OldKept
<1>8. StillFound
  BY QuietFound
<1> QED BY <1>1, <1>2, <1>3, <1>4, <1>5, <1>6, <1>7, <1>8 DEF Core

(* So does the test of holder,                                             *)
LEMMA TestHolderStep ==
  ASSUME Core, NEW t \in Thread, TestHolder(t)
  PROVE  Core' /\ StillFound
<1> USE LockAssumption DEF At, Goto, schedVars, lockVars, TestHolder
<1>0. holder[arg[t]] = t => depth[t] > 0
  BY HolderOwner DEF Core, TypeOK, HolderIsOwner, Owns
<1>1. TypeOK' /\ NoPanic'
  BY <1>0 DEF Core, TypeOK, SchedTypeOK, NoPanic, Phases, Label
<1>2. Listed'
  <2>1. UNCHANGED <<current, ready, status, waiters>>
    OBVIOUS
  <2>2. \A u \in Thread, k \in Lock : u # current /\ Waiting(u, k) => Waiting(u, k)'
    BY DEF Core, TypeOK, Waiting
  <2> QED BY <2>1, <2>2, ListedKept
<1>3. MutualExclusion'
  <2>1. \A u \in Thread, k \in Lock : Owns(u, k)' <=> Owns(u, k)
    BY DEF Core, TypeOK, Owns
  <2> QED BY <2>1, ExclusionKept
<1>4. Phases'
  BY <1>0 DEF Core, TypeOK, SchedTypeOK, MutualExclusion, Owns, Phases, FreeLocks
<1>5. FreeLocks'
  BY <1>0 DEF Core, TypeOK, SchedTypeOK, MutualExclusion, Owns, Phases, FreeLocks
<1>6. NoLostWakeup'
  BY <1>0 DEF Core, TypeOK, SchedTypeOK, NoLostWakeup, Waiting
<1>7. Unborn' /\ IntrKept' /\ OldKept'
  BY <1>0, CurrentFree DEF Core, TypeOK, SchedTypeOK, Unborn, IntrKept, OldKept
<1>8. StillFound
  BY QuietFound
<1> QED BY <1>1, <1>2, <1>3, <1>4, <1>5, <1>6, <1>7, <1>8 DEF Core

(* the count of an inner acquisition,                                      *)
LEMMA AcquireAgainStep ==
  ASSUME Core, NEW t \in Thread, AcquireAgain(t)
  PROVE  Core' /\ StillFound
<1> USE LockAssumption DEF At, Goto, schedVars, lockVars, AcquireAgain
<1>0. \A u \in Thread, k \in Lock : Owns(u, k)' <=> Owns(u, k)
  BY DEF Core, TypeOK, Owns, Phases
<1>1. TypeOK' /\ NoPanic'
  BY DEF Core, TypeOK, SchedTypeOK, NoPanic, Phases, Label
<1>2. Listed'
  <2>1. UNCHANGED <<current, ready, status, waiters>>
    OBVIOUS
  <2>2. \A u \in Thread, k \in Lock : u # current /\ Waiting(u, k) => Waiting(u, k)'
    BY DEF Core, TypeOK, Waiting
  <2> QED BY <2>1, <2>2, ListedKept
<1>3. MutualExclusion'
  BY <1>0, ExclusionKept
<1>4. Phases'
  <2>1. /\ pc[t] = "again" /\ depth[t] > 0 /\ depth[t] < MaxDepth
        /\ arg[t] \in Lock /\ holder[arg[t]] = t /\ repeat[arg[t]] = depth[t]
    BY DEF Core, TypeOK, Phases
  <2>2. \A u \in Thread : u # t /\ depth[u] > 0 => arg[u] # arg[t]
    BY <2>1 DEF Core, MutualExclusion, Owns
  <2> SUFFICES ASSUME NEW u \in Thread
               PROVE  Phases!(u)'
    BY DEF Phases
  <2> QED BY <2>1, <2>2 DEF Core, TypeOK, Phases
<1>5. FreeLocks'
  BY <1>0 DEF Core, TypeOK, SchedTypeOK, MutualExclusion, Owns, Phases, FreeLocks
<1>6. NoLostWakeup'
  BY <1>0 DEF Core, TypeOK, SchedTypeOK, NoLostWakeup, Waiting
<1>7. Unborn' /\ IntrKept' /\ OldKept'
  BY <1>0, CurrentFree DEF Core, TypeOK, SchedTypeOK, Unborn, IntrKept, OldKept
<1>8. StillFound
  BY QuietFound
<1> QED BY <1>1, <1>2, <1>3, <1>4, <1>5, <1>6, <1>7, <1>8 DEF Core

(* the assignment to holder,                                               *)
LEMMA SetHolderStep ==
  ASSUME Core, NEW t \in Thread, SetHolder(t)
  PROVE  Core' /\ StillFound
<1> USE LockAssumption DEF At, Goto, schedVars, lockVars, SetHolder
<1>1. TypeOK' /\ NoPanic'
  BY DEF Core, TypeOK, SchedTypeOK, NoPanic, Phases, Label
<1>2. Listed'
  <2>1. UNCHANGED <<current, ready, status, waiters>>
    OBVIOUS
  <2>2. \A u \in Thread, k \in Lock : u # current /\ Waiting(u, k) => Waiting(u, k)'
    BY DEF Core, TypeOK, Waiting
  <2> QED BY <2>1, <2>2, ListedKept
<1>3. MutualExclusion'
  <2>1. \A u \in Thread, k \in Lock : Owns(u, k)' <=> Owns(u, k)
    BY DEF Core, TypeOK, Owns
  <2> QED BY <2>1, ExclusionKept
<1>4. Phases'
  <2>1. /\ pc[t] = "own" /\ depth[t] = 1
        /\ arg[t] \in Lock /\ repeat[arg[t]] = 0
    BY DEF Core, TypeOK, Phases
  <2>2. \A u \in Thread : u # t /\ depth[u] > 0 => arg[u] # arg[t]
    BY <2>1 DEF Core, MutualExclusion, Owns
  <2> SUFFICES ASSUME NEW u \in Thread
               PROVE  Phases!(u)'
    BY DEF Phases
  <2> QED BY <2>1, <2>2 DEF Core, TypeOK, Phases
<1>5. FreeLocks'
  BY DEF Core, TypeOK, SchedTypeOK, MutualExclusion, Owns, Phases, FreeLocks
<1>6. NoLostWakeup'
  BY DEF Core, TypeOK, SchedTypeOK, NoLostWakeup, Waiting
<1>7. Unborn' /\ IntrKept' /\ OldKept'
  BY CurrentFree DEF Core, TypeOK, SchedTypeOK, Unborn, IntrKept, OldKept
<1>8. StillFound
  BY QuietFound
<1> QED BY <1>1, <1>2, <1>3, <1>4, <1>5, <1>6, <1>7, <1>8 DEF Core

(* the first count, whose assertion holds,                                 *)
LEMMA FirstRepeatStep ==
  ASSUME Core, NEW t \in Thread, FirstRepeat(t)
  PROVE  Core' /\ StillFound
<1> USE LockAssumption DEF At, Goto, schedVars, lockVars
<1>0. /\ At(t, "first") /\ arg[t] \in Lock
      /\ repeat' = [repeat EXCEPT ![arg[t]] = 1]
      /\ Goto(t, "run")
      /\ UNCHANGED <<schedVars, value, waiters, holder, arg, old, depth, mode>>
  BY DEF Core, TypeOK, Phases, FirstRepeat
<1>1. TypeOK' /\ NoPanic'
  BY <1>0 DEF Core, TypeOK, SchedTypeOK, NoPanic, Phases, Label
<1>2. Listed'
  <2>1. UNCHANGED <<current, ready, status, waiters>>
    BY <1>0
  <2>2. \A u \in Thread, k \in Lock : u # current /\ Waiting(u, k) => Waiting(u, k)'
    BY <1>0 DEF Core, TypeOK, Waiting
  <2> QED BY <2>1, <2>2, ListedKept
<1>3. MutualExclusion'
  <2>1. \A u \in Thread, k \in Lock : Owns(u, k)' <=> Owns(u, k)
    BY <1>0 DEF Core, TypeOK, Owns
  <2> QED BY <1>0, <2>1, ExclusionKept
<1>4. Phases'
  BY <1>0 DEF Core, TypeOK, SchedTypeOK, MutualExclusion, Owns, Phases, FreeLocks
<1>5. FreeLocks'
  BY <1>0 DEF Core, TypeOK, SchedTypeOK, MutualExclusion, Owns, Phases, FreeLocks
<1>6. NoLostWakeup'
  BY <1>0 DEF Core, TypeOK, SchedTypeOK, NoLostWakeup, Waiting
<1>7. Unborn' /\ IntrKept' /\ OldKept'
  BY <1>0, CurrentFree DEF Core, TypeOK, SchedTypeOK, Unborn, IntrKept, OldKept
<1>8. StillFound
  BY <1>0, QuietFound
<1> QED BY <1>1, <1>2, <1>3, <1>4, <1>5, <1>6, <1>7, <1>8 DEF Core

(* a call of lock_release,                                                 *)
LEMMA CallReleaseStep ==
  ASSUME Core, NEW t \in Thread, CallRelease(t)
  PROVE  Core' /\ StillFound
<1> USE LockAssumption DEF At, Goto, schedVars, lockVars, CallRelease
<1>1. TypeOK' /\ NoPanic'
  BY DEF Core, TypeOK, SchedTypeOK, NoPanic, Phases, Label
<1>2. Listed'
  <2>1. UNCHANGED <<current, ready, status, waiters>>
    OBVIOUS
  <2>2. \A u \in Thread, k \in Lock : u # current /\ Waiting(u, k) => Waiting(u, k)'
    BY DEF Core, TypeOK, Waiting
  <2> QED BY <2>1, <2>2, ListedKept
<1>3. MutualExclusion'
  <2>1. \A u \in Thread, k \in Lock : Owns(u, k)' <=> Owns(u, k)
    BY DEF Core, TypeOK, Owns
  <2> QED BY <2>1, ExclusionKept
<1>4. Phases'
  BY DEF Core, TypeOK, SchedTypeOK, MutualExclusion, Owns, Phases, FreeLocks
<1>5. FreeLocks'
  BY DEF Core, TypeOK, SchedTypeOK, MutualExclusion, Owns, Phases, FreeLocks
<1>6. NoLostWakeup'
  BY DEF Core, TypeOK, SchedTypeOK, NoLostWakeup, Waiting
<1>7. Unborn' /\ IntrKept' /\ OldKept'
  BY CurrentFree DEF Core, TypeOK, SchedTypeOK, Unborn, IntrKept, OldKept
<1>8. StillFound
  BY QuietFound
<1> QED BY <1>1, <1>2, <1>3, <1>4, <1>5, <1>6, <1>7, <1>8 DEF Core

(* its assertions and its first assignment,                                *)
LEMMA ReleaseHolderStep ==
  ASSUME Core, NEW t \in Thread, ReleaseHolder(t)
  PROVE  Core' /\ StillFound
<1> USE LockAssumption DEF At, Goto, schedVars, lockVars
<1>0. /\ At(t, "release") /\ arg[t] \in Lock
      /\ holder[arg[t]] = t /\ repeat[arg[t]] = depth[t]
      /\ depth[t] \in 1..MaxDepth
      /\ UNCHANGED <<schedVars, value, waiters, arg, old, mode>>
  BY DEF Core, TypeOK, Phases, ReleaseHolder
<1>1. CASE repeat[arg[t]] > 1
  <2>0. /\ repeat' = [repeat EXCEPT ![arg[t]] = repeat[arg[t]] - 1]
        /\ depth' = [depth EXCEPT ![t] = depth[t] - 1]
        /\ pc' = [pc EXCEPT ![t] = "run"]
        /\ holder' = holder
        /\ repeat[arg[t]] - 1 \in 1..MaxDepth
    BY <1>0, <1>1 DEF ReleaseHolder
  <2>1. TypeOK' /\ NoPanic'
    BY <1>0, <2>0 DEF Core, TypeOK, SchedTypeOK, NoPanic, Label
  <2>2. \A u \in Thread, k \in Lock : Owns(u, k)' <=> Owns(u, k)
    BY <1>0, <2>0, SMTT(30) DEF Core, TypeOK, Owns
  <2>3. Listed'
    <3>1. \A u \in Thread, k \in Lock : u # current /\ Waiting(u, k) => Waiting(u, k)'
      BY <1>0, <2>0 DEF Core, TypeOK, Waiting
    <3> QED BY <1>0, <3>1, ListedKept
  <2>4. MutualExclusion'
    BY <1>0, <2>0, <2>2 DEF Core, TypeOK, SchedTypeOK, MutualExclusion
  <2>5. Phases'
    BY <1>0, <2>0 DEF Core, TypeOK, SchedTypeOK, MutualExclusion, Owns, Phases
  <2>6. FreeLocks'
    BY <1>0, <2>0, <2>2 DEF Core, TypeOK, SchedTypeOK, FreeLocks, Owns
  <2>7. NoLostWakeup'
    BY <1>0, <2>0 DEF Core, TypeOK, SchedTypeOK, NoLostWakeup, Waiting
  <2>8. Unborn' /\ IntrKept' /\ OldKept'
    BY <1>0, <2>0, CurrentFree DEF Core, TypeOK, SchedTypeOK, Unborn, IntrKept, OldKept
  <2>9. StillFound
    BY <1>0, QuietFound
  <2> QED BY <2>1, <2>3, <2>4, <2>5, <2>6, <2>7, <2>8, <2>9 DEF Core
<1>2. CASE ~ (repeat[arg[t]] > 1)
  <2>0. /\ holder' = [holder EXCEPT ![arg[t]] = NoThread]
        /\ pc' = [pc EXCEPT ![t] = "clear"]
        /\ repeat' = repeat /\ depth' = depth
        /\ depth[t] = 1
    BY <1>0, <1>2 DEF ReleaseHolder
  <2>1. TypeOK' /\ NoPanic'
    BY <1>0, <2>0 DEF Core, TypeOK, SchedTypeOK, NoPanic, Label
  <2>2. \A u \in Thread, k \in Lock : Owns(u, k)' <=> Owns(u, k)
    BY <1>0, <2>0, SMTT(30) DEF Core, TypeOK, Owns
  <2>3. Listed'
    <3>1. \A u \in Thread, k \in Lock : u # current /\ Waiting(u, k) => Waiting(u, k)'
      BY <1>0, <2>0 DEF Core, TypeOK, Waiting
    <3> QED BY <1>0, <3>1, ListedKept
  <2>4. MutualExclusion'
    BY <1>0, <2>0, <2>2 DEF Core, TypeOK, SchedTypeOK, MutualExclusion
  <2>5. Phases'
    BY <1>0, <2>0 DEF Core, TypeOK, SchedTypeOK, MutualExclusion, Owns, Phases
  <2>6. FreeLocks'
    BY <1>0, <2>0, <2>2 DEF Core, TypeOK, SchedTypeOK, FreeLocks, Owns
  <2>7. NoLostWakeup'
    BY <1>0, <2>0 DEF Core, TypeOK, SchedTypeOK, NoLostWakeup, Waiting
  <2>8. Unborn' /\ IntrKept' /\ OldKept'
    BY <1>0, <2>0, CurrentFree DEF Core, TypeOK, SchedTypeOK, Unborn, IntrKept, OldKept
  <2>9. StillFound
    BY <1>0, QuietFound
  <2> QED BY <2>1, <2>3, <2>4, <2>5, <2>6, <2>7, <2>8, <2>9 DEF Core
<1> QED BY <1>1, <1>2

(* the reset of the count,                                                 *)
LEMMA ClearRepeatStep ==
  ASSUME Core, NEW t \in Thread, ClearRepeat(t)
  PROVE  Core' /\ StillFound
<1> USE LockAssumption DEF At, Goto, schedVars, lockVars, ClearRepeat
<1>1. TypeOK' /\ NoPanic'
  BY DEF Core, TypeOK, SchedTypeOK, NoPanic, Phases, Label
<1>2. Listed'
  <2>1. UNCHANGED <<current, ready, status, waiters>>
    OBVIOUS
  <2>2. \A u \in Thread, k \in Lock : u # current /\ Waiting(u, k) => Waiting(u, k)'
    BY DEF Core, TypeOK, Waiting
  <2> QED BY <2>1, <2>2, ListedKept
<1>3. MutualExclusion'
  <2>1. \A u \in Thread, k \in Lock : Owns(u, k)' <=> Owns(u, k)
    BY DEF Core, TypeOK, Owns
  <2> QED BY <2>1, ExclusionKept
<1>4. Phases'
  <2>1. /\ pc[t] = "clear" /\ depth[t] = 1
        /\ arg[t] \in Lock /\ holder[arg[t]] = NoThread
    BY DEF Core, TypeOK, Phases
  <2>2. \A u \in Thread : u # t /\ depth[u] > 0 => arg[u] # arg[t]
    BY <2>1 DEF Core, MutualExclusion, Owns
  <2> SUFFICES ASSUME NEW u \in Thread
               PROVE  Phases!(u)'
    BY DEF Phases
  <2> QED BY <2>1, <2>2 DEF Core, TypeOK, Phases
<1>5. FreeLocks'
  BY DEF Core, TypeOK, SchedTypeOK, MutualExclusion, Owns, Phases, FreeLocks
<1>6. NoLostWakeup'
  BY DEF Core, TypeOK, SchedTypeOK, NoLostWakeup, Waiting
<1>7. Unborn' /\ IntrKept' /\ OldKept'
  BY CurrentFree DEF Core, TypeOK, SchedTypeOK, Unborn, IntrKept, OldKept
<1>8. StillFound
  BY QuietFound
<1> QED BY <1>1, <1>2, <1>3, <1>4, <1>5, <1>6, <1>7, <1>8 DEF Core

(* entering a section without interrupts,                                  *)
LEMMA EnterNoIntrStep ==
  ASSUME Core, NEW t \in Thread, EnterNoIntr(t)
  PROVE  Core' /\ StillFound
<1> USE LockAssumption DEF At, Goto, schedVars, lockVars, EnterNoIntr
<1>1. TypeOK' /\ NoPanic'
  BY DEF Core, TypeOK, SchedTypeOK, NoPanic, Phases, Label
<1>2. Listed'
  <2>1. UNCHANGED <<current, ready, status, waiters>>
    OBVIOUS
  <2>2. \A u \in Thread, k \in Lock : u # current /\ Waiting(u, k) => Waiting(u, k)'
    BY DEF Core, TypeOK, Waiting
  <2> QED BY <2>1, <2>2, ListedKept
<1>3. MutualExclusion'
  <2>1. \A u \in Thread, k \in Lock : Owns(u, k)' <=> Owns(u, k)
    BY DEF Core, TypeOK, Owns
  <2> QED BY <2>1, ExclusionKept
<1>4. Phases'
  BY DEF Core, TypeOK, SchedTypeOK, MutualExclusion, Owns, Phases, FreeLocks
<1>5. FreeLocks'
  BY DEF Core, TypeOK, SchedTypeOK, MutualExclusion, Owns, Phases, FreeLocks
<1>6. NoLostWakeup'
  BY DEF Core, TypeOK, SchedTypeOK, NoLostWakeup, Waiting
<1>7. Unborn' /\ IntrKept' /\ OldKept'
  <2>1. Unborn'
    BY CurrentFree DEF Core, TypeOK, SchedTypeOK, Unborn
  <2>2. IntrKept'
    BY DEF Core, TypeOK, SchedTypeOK, IntrKept
  <2>3. OldKept'
    BY DEF Core, TypeOK, SchedTypeOK, OldKept
  <2> QED BY <2>1, <2>2, <2>3
<1>8. StillFound
  BY QuietFound
<1> QED BY <1>1, <1>2, <1>3, <1>4, <1>5, <1>6, <1>7, <1>8 DEF Core

(* leaving it.                                                             *)
LEMMA LeaveNoIntrStep ==
  ASSUME Core, NEW t \in Thread, LeaveNoIntr(t)
  PROVE  Core' /\ StillFound
<1> USE LockAssumption DEF At, Goto, schedVars, lockVars, LeaveNoIntr
<1>1. TypeOK' /\ NoPanic'
  BY DEF Core, TypeOK, SchedTypeOK, NoPanic, Phases, Label
<1>2. Listed'
  <2>1. UNCHANGED <<current, ready, status, waiters>>
    OBVIOUS
  <2>2. \A u \in Thread, k \in Lock : u # current /\ Waiting(u, k) => Waiting(u, k)'
    BY DEF Core, TypeOK, Waiting
  <2> QED BY <2>1, <2>2, ListedKept
<1>3. MutualExclusion'
  <2>1. \A u \in Thread, k \in Lock : Owns(u, k)' <=> Owns(u, k)
    BY DEF Core, TypeOK, Owns
  <2> QED BY <2>1, ExclusionKept
<1>4. Phases'
  BY DEF Core, TypeOK, SchedTypeOK, MutualExclusion, Owns, Phases, FreeLocks
<1>5. FreeLocks'
  BY DEF Core, TypeOK, SchedTypeOK, MutualExclusion, Owns, Phases, FreeLocks
<1>6. NoLostWakeup'
  BY DEF Core, TypeOK, SchedTypeOK, NoLostWakeup, Waiting
<1>7. Unborn' /\ IntrKept' /\ OldKept'
  <2>1. Unborn'
    BY CurrentFree DEF Core, TypeOK, SchedTypeOK, Unborn
  <2>2. IntrKept'
    BY DEF Core, TypeOK, SchedTypeOK, IntrKept
  <2>3. OldKept'
    BY DEF Core, TypeOK, SchedTypeOK, OldKept
  <2> QED BY <2>1, <2>2, <2>3
<1>8. StillFound
  BY QuietFound
<1> QED BY <1>1, <1>2, <1>3, <1>4, <1>5, <1>6, <1>7, <1>8 DEF Core

(* A pass of the loop of sema_down: the thread waits, or takes the value.  *)
LEMMA SemaDownPass ==
  ASSUME Core, NEW t \in Thread, current = t, pc[t] \in {"down", "woken"},
         NEW saved \in BOOLEAN, saved = mode[t], sema_down(t, saved),
         value[arg[t]] = 0 => ready # <<>>
  PROVE  Core' /\ StillFound
<1> DEFINE l == arg[t]
<1>0. /\ l \in Lock /\ depth[t] = 0 /\ value[l] \in 0..1
      /\ old' = [old EXCEPT ![t] = mode[t]]
      /\ holder' = holder /\ repeat' = repeat /\ arg' = arg /\ mode' = mode
      /\ status[t] = "RUNNING" /\ t \notin Range(ready)
      /\ \A k \in Lock : t \notin Range(waiters[k])
  BY CurrentFree DEF Core, TypeOK, Phases, sema_down
<1>1. CASE value[l] = 0
  <2> DEFINE n == Head(ready)
             w == list_append(waiters[l], t)
  <2>1. /\ ready # <<>> /\ ready \in Seq(Thread) /\ IsInjective(ready)
        /\ waiters[l] \in Seq(Thread) /\ IsInjective(waiters[l])
    BY <1>0, <1>1 DEF Core, TypeOK, SchedTypeOK, Listed
  <2>2. /\ n \in Thread /\ n \in Range(ready) /\ Tail(ready) \in Seq(Thread)
        /\ Range(Tail(ready)) = Range(ready) \ {n}
        /\ IsInjective(Tail(ready))
    BY <2>1, PopRange
  <2>3. w \in Seq(Thread) /\ Range(w) = Range(waiters[l]) \cup {t} /\ IsInjective(w)
    <3> HIDE DEF l
    <3>1. t \notin Range(waiters[l]) /\ IsInjective(waiters[l]) /\ waiters[l] \in Seq(Thread)
      BY <1>0, <2>1
    <3>2. \A v \in Seq(Thread) :
            IsInjective(v) /\ t \notin Range(v)
              => /\ list_append(v, t) \in Seq(Thread) /\ IsInjective(list_append(v, t))
                 /\ Range(list_append(v, t)) = Range(v) \cup {t}
      BY AppendRange, ZenonT(30)
    <3> QED BY <3>1, <3>2
  <2>4. n # t /\ status[n] = "READY"
    BY <1>0, <2>2 DEF Core, Listed, node_find
  <2>5. /\ waiters' = [waiters EXCEPT ![l] = w]
        /\ pc' = [pc EXCEPT ![t] = "woken"]
        /\ value' = value /\ depth' = depth /\ ticks' = ticks /\ halted' = halted
        /\ ready' = Tail(ready) /\ current' = n
        /\ status' = [status EXCEPT ![t] = "BLOCKED", ![n] = "RUNNING"]
        /\ resume' = [resume EXCEPT ![t] = FALSE]
        /\ intr' = resume[n]
    <3>1. SemaWait(t) /\ ~ node_find(waiters[arg[t]], t)
      BY <1>0, <1>1 DEF sema_down, node_find
    <3>2. /\ waiters' = [waiters EXCEPT ![l] = w]
          /\ pc' = [pc EXCEPT ![t] = "woken"]
          /\ value' = value /\ depth' = depth
          /\ thread_block(FALSE)
      BY <1>0, <3>1 DEF SemaWait, Goto, Core, TypeOK
    <3>3. [status EXCEPT ![current] = "BLOCKED"][current] # "RUNNING"
      BY DEF Core, TypeOK, SchedTypeOK
    <3>4. /\ [resume EXCEPT ![t] = FALSE][n] = resume[n]
      BY <2>2, <2>4 DEF Core, TypeOK, SchedTypeOK
    <3> QED BY <2>1, <3>2, <3>3, <3>4 DEF thread_block, schedule
  <2>6. TypeOK' /\ NoPanic'
    BY <1>0, <1>1, <2>2, <2>3, <2>4, <2>5 DEF Core, TypeOK, SchedTypeOK, NoPanic, Label, Status
  <2>7. Listed'
    <3>1. \A u \in Thread : status'[u] = "RUNNING" <=> u = current'
      BY <1>0, <2>2, <2>4, <2>5 DEF Core, TypeOK, SchedTypeOK, Listed
    <3>2. \A u \in Thread : status'[u] = "READY" <=> u \in Range(ready')
      BY <1>0, <2>2, <2>4, <2>5 DEF Core, TypeOK, SchedTypeOK, Listed, node_find
    <3>3. \A u \in Thread, k \in Lock :
            u \in Range(waiters'[k]) <=> u \in Range(waiters[k]) \/ (u = t /\ k = l)
      BY <1>0, <2>3, <2>5 DEF Core, TypeOK
    <3>4. \A u \in Thread, k \in Lock : u \in Range(waiters'[k]) => Waiting(u, k)'
      BY <1>0, <2>5, <3>3 DEF Core, TypeOK, Listed, Waiting, node_find
    <3>5. \A u \in Thread, k \in Lock : u \in Range(waiters'[k]) => status'[u] = "BLOCKED"
      <4>1. \A u \in Thread : status'[u] = "BLOCKED" <=> status[u] = "BLOCKED" \/ u = t
        BY <1>0, <2>2, <2>4, <2>5 DEF Core, TypeOK, SchedTypeOK
      <4> QED BY <1>0, <3>3, <4>1 DEF Core, Listed, node_find
    <3>6. IsInjective(ready') /\ \A k \in Lock : IsInjective(waiters'[k])
      BY <1>0, <2>2, <2>3, <2>5 DEF Core, TypeOK, Listed
    <3> QED BY <3>1, <3>2, <3>4, <3>5, <3>6 DEF Listed, node_find
  <2>8. MutualExclusion'
    <3>1. \A u \in Thread, k \in Lock : Owns(u, k)' <=> Owns(u, k)
      BY <1>0, <2>5 DEF Owns
    <3> QED BY <2>5, <3>1, ExclusionKept
  <2>9. Phases'
    BY <1>0, <2>5 DEF Core, TypeOK, Phases
  <2>10. FreeLocks'
    BY <1>0, <1>1, <2>2, <2>3, <2>4, <2>5 DEF Core, TypeOK, SchedTypeOK, MutualExclusion, Owns, Phases, FreeLocks
  <2>11. NoLostWakeup'
    <3> HIDE DEF l, n, w
    <3> SUFFICES ASSUME NEW k \in Lock, value'[k] = 1, waiters'[k] # <<>>
                 PROVE  \E u \in Thread : Waiting(u, k)' /\ status'[u] # "BLOCKED"
      BY DEF NoLostWakeup
    <3>1. k # l /\ value[k] = 1 /\ waiters[k] # <<>>
      BY <1>0, <1>1, <2>5 DEF Core, TypeOK
    <3>2. PICK u \in Thread : Waiting(u, k) /\ status[u] # "BLOCKED"
      BY <3>1 DEF Core, NoLostWakeup
    <3>3. u # t
      BY <3>1, <3>2 DEF Waiting, l
    <3>4. Waiting(u, k)' /\ status'[u] # "BLOCKED"
      BY <1>0, <2>2, <2>5, <3>2, <3>3 DEF Core, TypeOK, SchedTypeOK, Waiting
    <3> QED BY <3>4
  <2>12. Unborn' /\ IntrKept' /\ OldKept'
    BY <1>0, <1>1, <2>2, <2>3, <2>4, <2>5 DEF Core, TypeOK, SchedTypeOK, Unborn, IntrKept, OldKept
  <2>13. StillFound
    <3>1. \A u \in Thread : status'[u] = "BLOCKED" => status[u] = "BLOCKED" \/ u = t
      BY <1>0, <2>2, <2>4, <2>5 DEF Core, TypeOK, SchedTypeOK
    <3>2. \A u \in Thread, k \in Lock :
            u \in Range(waiters'[k]) <=> u \in Range(waiters[k]) \/ (u = t /\ k = l)
      BY <1>0, <2>3, <2>5 DEF Core, TypeOK
    <3> QED BY <1>0, <3>1, <3>2 DEF StillFound, node_find
  <2> QED BY <2>6, <2>7, <2>8, <2>9, <2>10, <2>11, <2>12, <2>13 DEF Core
<1>2. CASE value[l] # 0
  <2>1. /\ value' = [value EXCEPT ![l] = 0] /\ value[l] = 1
        /\ depth' = [depth EXCEPT ![t] = 1]
        /\ pc' = [pc EXCEPT ![t] = "own"]
        /\ intr' = mode[t]
        /\ UNCHANGED <<current, ready, status, ticks, resume, halted, waiters>>
    BY <1>0, <1>2 DEF sema_down, SemaTake, Goto
  <2>2. TypeOK' /\ NoPanic'
    BY <1>0, <2>1, LockAssumption DEF Core, TypeOK, SchedTypeOK, NoPanic, Label, Status
  <2>3. Listed'
    BY <1>0, <2>1, LockAssumption DEF Core, TypeOK, SchedTypeOK, Listed, Waiting, node_find
  <2>4. MutualExclusion'
    BY <1>0, <2>1, LockAssumption DEF Core, TypeOK, SchedTypeOK, MutualExclusion, Owns, Phases
  <2>5. Phases'
    BY <1>0, <2>1, LockAssumption DEF Core, TypeOK, SchedTypeOK, MutualExclusion, Owns, Phases, FreeLocks
  <2>6. FreeLocks'
    BY <1>0, <2>1, LockAssumption DEF Core, TypeOK, SchedTypeOK, MutualExclusion, Owns, Phases, FreeLocks
  <2>7. NoLostWakeup'
    BY <1>0, <2>1, LockAssumption DEF Core, TypeOK, SchedTypeOK, NoLostWakeup, Waiting, Listed, node_find
  <2>8. Unborn' /\ IntrKept' /\ OldKept'
    BY <1>0, <2>1, LockAssumption DEF Core, TypeOK, SchedTypeOK, Unborn, IntrKept, OldKept
  <2>9. StillFound
    BY <2>1, QuietFound
  <2> QED BY <2>2, <2>3, <2>4, <2>5, <2>6, <2>7, <2>8, <2>9 DEF Core
<1> QED BY <1>1, <1>2

(* sema_up makes the first waiter ready and raises the value.              *)
LEMMA SemaUpStep ==
  ASSUME Core, NEW t \in Thread, sema_up(t)
  PROVE  Core' /\ StillFound
<1> DEFINE l == arg[t]
           w == Head(waiters[l])
<1>0. /\ l \in Lock /\ current = t /\ pc[t] = "up" /\ ~ halted
      /\ depth[t] = 1 /\ repeat[l] = 0 /\ holder[l] = NoThread /\ value[l] = 0
      /\ status[t] = "RUNNING" /\ t \notin Range(ready)
      /\ \A k \in Lock : t \notin Range(waiters[k])
      /\ waiters[l] \in Seq(Thread) /\ IsInjective(waiters[l])
      /\ ready \in Seq(Thread) /\ IsInjective(ready)
  <2>1. l \in Lock /\ current = t /\ pc[t] = "up" /\ ~ halted
    BY DEF Core, TypeOK, sema_up, At
  <2>2. depth[t] = 1 /\ repeat[l] = 0 /\ holder[l] = NoThread
    BY <2>1 DEF Core, Phases
  <2>3. value[l] = 0
    BY <2>1, <2>2 DEF Core, TypeOK, MutualExclusion, Owns
  <2>4. /\ waiters[l] \in Seq(Thread) /\ IsInjective(waiters[l])
        /\ ready \in Seq(Thread) /\ IsInjective(ready)
    BY <2>1 DEF Core, TypeOK, SchedTypeOK, Listed
  <2> QED BY <2>1, <2>2, <2>3, <2>4, CurrentFree
<1>1. CASE waiters[l] # <<>>
  <2>1. /\ w \in Thread /\ w \in Range(waiters[l]) /\ Tail(waiters[l]) \in Seq(Thread)
        /\ Range(Tail(waiters[l])) = Range(waiters[l]) \ {w}
        /\ IsInjective(Tail(waiters[l]))
    BY <1>0, <1>1, PopRange
  <2>2. status[w] = "BLOCKED" /\ w \notin Range(ready) /\ Waiting(w, l)
    BY <1>0, <2>1 DEF Core, Listed, node_find
  <2>3. /\ list_push(ready, w) \in Seq(Thread)
        /\ Range(list_push(ready, w)) = Range(ready) \cup {w}
        /\ IsInjective(list_push(ready, w))
    <3> HIDE DEF w
    <3>1. w \in Thread /\ w \notin Range(ready) /\ IsInjective(ready) /\ ready \in Seq(Thread)
      BY <1>0, <2>1, <2>2
    <3> QED BY <3>1, PushRange
  <2>4. /\ waiters' = [waiters EXCEPT ![l] = Tail(waiters[l])]
        /\ ready' = list_push(ready, w)
        /\ status' = [status EXCEPT ![w] = "READY"]
        /\ value' = [value EXCEPT ![l] = 1]
        /\ depth' = [depth EXCEPT ![t] = 0]
        /\ pc' = [pc EXCEPT ![t] = "run"]
        /\ UNCHANGED <<current, ticks, intr, resume, halted, holder, repeat, arg, old, mode>>
    BY <1>0, <1>1, <2>2 DEF sema_up, CanUnblock, node_find, thread_unblock, Goto
  <2>5. w # t /\ \A k \in Lock : w \in Range(waiters[k]) => k = l
    BY <1>0, <2>1, <2>2 DEF Core, Listed, node_find, Waiting
  <2>6. TypeOK' /\ NoPanic'
    <3>1. SchedTypeOK' /\ NoPanic'
      BY <2>1, <2>3, <2>4 DEF Core, TypeOK, SchedTypeOK, NoPanic, Status
    <3>2. value' \in [Lock -> 0..1] /\ waiters' \in [Lock -> Seq(Thread)]
      BY <1>0, <2>1, <2>4 DEF Core, TypeOK
    <3>3. pc' \in [Thread -> Label] /\ depth' \in [Thread -> 0..MaxDepth]
      BY <2>4, LockAssumption DEF Core, TypeOK, Label
    <3> QED BY <2>4, <3>1, <3>2, <3>3 DEF Core, TypeOK
  <2>7. Listed'
    <3>1. \A u \in Thread : status'[u] = "RUNNING" <=> u = current'
      BY <1>0, <2>2, <2>4 DEF Core, TypeOK, SchedTypeOK, Listed
    <3>2. \A u \in Thread : status'[u] = "READY" <=> u \in Range(ready')
      BY <2>1, <2>2, <2>3, <2>4 DEF Core, TypeOK, SchedTypeOK, Listed, node_find
    <3>3. \A u \in Thread, k \in Lock : u \in Range(waiters'[k]) <=> u \in Range(waiters[k]) /\ u # w
      BY <1>0, <2>1, <2>4, <2>5 DEF Core, TypeOK
    <3>4. \A u \in Thread, k \in Lock : u \in Range(waiters'[k]) => Waiting(u, k)'
      BY <1>0, <2>4, <3>3 DEF Core, TypeOK, Listed, Waiting, node_find
    <3>5. \A u \in Thread, k \in Lock : u \in Range(waiters'[k]) => status'[u] = "BLOCKED"
      <4>1. \A u \in Thread : status'[u] = "BLOCKED" <=> status[u] = "BLOCKED" /\ u # w
        BY <2>1, <2>4 DEF Core, TypeOK, SchedTypeOK
      <4> QED BY <3>3, <4>1 DEF Core, Listed, node_find
    <3>6. IsInjective(ready') /\ \A k \in Lock : IsInjective(waiters'[k])
      BY <1>0, <2>1, <2>3, <2>4 DEF Core, TypeOK, Listed
    <3> QED BY <3>1, <3>2, <3>4, <3>5, <3>6 DEF Listed, node_find
  <2>8. MutualExclusion'
    <3>1. \A u \in Thread, k \in Lock : Owns(u, k)' <=> Owns(u, k) /\ u # t
      BY <1>0, <2>4 DEF Core, TypeOK, Owns
    <3>2. Owns(t, l) /\ \A k \in Lock : Owns(t, k) => k = l
      BY <1>0 DEF Owns
    <3> QED BY <1>0, <2>4, <3>1, <3>2 DEF Core, TypeOK, MutualExclusion
  <2>9. Phases'
    <3> HIDE DEF l, w
    <3> SUFFICES ASSUME NEW u \in Thread
                 PROVE  Phases!(u)'
      BY DEF Phases
    <3> QED BY <1>0, <2>4 DEF Core, TypeOK, Phases
  <2>10. FreeLocks'
    BY <1>0, <1>1, <2>1, <2>2, <2>3, <2>4, <2>5 DEF Core, TypeOK, SchedTypeOK, MutualExclusion, Owns, Phases, FreeLocks
  <2>11. NoLostWakeup'
    <3> SUFFICES ASSUME NEW k \in Lock, value'[k] = 1, waiters'[k] # <<>>
                 PROVE  \E u \in Thread : Waiting(u, k)' /\ status'[u] # "BLOCKED"
      BY DEF NoLostWakeup
    <3>1. CASE k = l
      <4>1. PICK u \in Thread : u = w
        BY <2>1
      <4>2. Waiting(u, k)' /\ status'[u] # "BLOCKED"
        BY <1>0, <2>2, <2>4, <2>5, <3>1, <4>1 DEF Core, TypeOK, SchedTypeOK, Waiting
      <4> QED BY <4>2
    <3>2. CASE k # l
      <4>1. PICK u \in Thread : Waiting(u, k) /\ status[u] # "BLOCKED"
        BY <1>0, <2>4, <3>2 DEF Core, TypeOK, NoLostWakeup
      <4>2. Waiting(u, k)' /\ status'[u] # "BLOCKED"
        BY <1>0, <2>4, <4>1 DEF Core, TypeOK, SchedTypeOK, Waiting
      <4> QED BY <4>2
    <3> QED BY <3>1, <3>2
  <2>12. Unborn' /\ IntrKept' /\ OldKept'
    <3>1. Unborn'
      BY <1>0, <2>1, <2>2, <2>4 DEF Core, TypeOK, SchedTypeOK, Unborn
    <3>2. IntrKept'
      BY <1>0, <2>4 DEF Core, TypeOK, SchedTypeOK, IntrKept
    <3>3. OldKept'
      BY <1>0, <2>4 DEF Core, TypeOK, OldKept
    <3> QED BY <3>1, <3>2, <3>3
  <2>13. StillFound
    <3>1. \A u \in Thread : status'[u] = "BLOCKED" => status[u] = "BLOCKED" /\ u # w
      BY <2>1, <2>4 DEF Core, TypeOK, SchedTypeOK
    <3>2. \A u \in Thread, k \in Lock : u \in Range(waiters'[k]) <=> u \in Range(waiters[k]) /\ u # w
      BY <1>0, <2>1, <2>4, <2>5 DEF Core, TypeOK
    <3> QED BY <3>1, <3>2 DEF StillFound, node_find
  <2> QED BY <2>6, <2>7, <2>8, <2>9, <2>10, <2>11, <2>12, <2>13 DEF Core
<1>2. CASE waiters[l] = <<>>
  <2>1. /\ value' = [value EXCEPT ![l] = 1]
        /\ depth' = [depth EXCEPT ![t] = 0]
        /\ pc' = [pc EXCEPT ![t] = "run"]
        /\ UNCHANGED <<waiters, ready, status, current, ticks, intr, resume, halted,
                       holder, repeat, arg, old, mode>>
    BY <1>0, <1>2 DEF sema_up, Goto
  <2>2. TypeOK' /\ NoPanic'
    BY <1>0, <1>2, <2>1 DEF Core, TypeOK, SchedTypeOK, NoPanic, Label, Status
  <2>3. Listed'
    BY <1>0, <1>2, <2>1 DEF Core, TypeOK, SchedTypeOK, Listed, Waiting, node_find
  <2>4. MutualExclusion'
    BY <1>0, <1>2, <2>1 DEF Core, TypeOK, SchedTypeOK, MutualExclusion, Owns, Phases
  <2>5. Phases'
    BY <1>0, <1>2, <2>1 DEF Core, TypeOK, SchedTypeOK, MutualExclusion, Owns, Phases, FreeLocks
  <2>6. FreeLocks'
    BY <1>0, <1>2, <2>1 DEF Core, TypeOK, SchedTypeOK, MutualExclusion, Owns, Phases, FreeLocks
  <2>7. NoLostWakeup'
    <3>1. \A k \in Lock : value'[k] = 1 /\ waiters'[k] # <<>> => value[k] = 1 /\ waiters[k] # <<>>
      BY <1>0, <1>2, <2>1 DEF Core, TypeOK
    <3>2. \A u \in Thread, k \in Lock : Waiting(u, k) => Waiting(u, k)' /\ status'[u] = status[u]
      BY <1>0, <2>1 DEF Core, TypeOK, Waiting
    <3> QED BY <3>1, <3>2 DEF Core, NoLostWakeup
  <2>8. Unborn' /\ IntrKept' /\ OldKept'
    BY <1>0, <1>2, <2>1 DEF Core, TypeOK, SchedTypeOK, Unborn, IntrKept, OldKept
  <2>9. StillFound
    BY <2>1, QuietFound
  <2> QED BY <2>2, <2>3, <2>4, <2>5, <2>6, <2>7, <2>8, <2>9 DEF Core
<1> QED BY <1>1, <1>2

(* The timer handler counts the slice down or, at its end, puts the thread *)
(* behind the others.                                                      *)
LEMMA TimerStep ==
  ASSUME Core, Timer
  PROVE  Core' /\ StillFound
<1>0. /\ ~ halted /\ intr = TRUE /\ current \in Thread
      /\ status[current] = "RUNNING" /\ current \notin Range(ready)
      /\ \A k \in Lock : current \notin Range(waiters[k])
      /\ ready \in Seq(Thread) /\ IsInjective(ready)
      /\ UNCHANGED <<value, waiters, holder, repeat, pc, arg, old, depth, mode>>
  BY CurrentFree DEF Core, TypeOK, SchedTypeOK, Listed, Timer, intr_timer_handler, lockVars, clientVars
<1>1. CASE ticks[current] = 0
  <2> DEFINE q == list_append(ready, current)
             n == Head(q)
  <2>1. /\ q \in Seq(Thread) /\ q # <<>> /\ IsInjective(q)
        /\ Range(q) = Range(ready) \cup {current}
    BY <1>0, AppendRange
  <2>2. /\ n \in Thread /\ n \in Range(q) /\ Tail(q) \in Seq(Thread)
        /\ Range(Tail(q)) = Range(q) \ {n} /\ IsInjective(Tail(q))
    BY <2>1, PopRange
  <2>3. n = current \/ status[n] = "READY"
    BY <1>0, <2>1, <2>2 DEF Core, Listed, node_find
  <2>4. /\ ready' = Tail(q) /\ current' = n
        /\ status' = [status EXCEPT ![current] = "READY", ![n] = "RUNNING"]
        /\ ticks' = [ticks EXCEPT ![current] = Priority]
        /\ resume' = [resume EXCEPT ![current] = TRUE]
        /\ intr' = [resume EXCEPT ![current] = TRUE][n]
        /\ halted' = halted
    BY <1>0, <1>1, <2>1 DEF Timer, intr_timer_handler, schedule, node_find
  <2>5. TypeOK' /\ NoPanic'
    <3>a. ticks' \in [Thread -> 0..Priority]
      BY <2>4, ThreadAssumption DEF Core, TypeOK, SchedTypeOK
    <3>b. status' \in [Thread -> Status]
      BY <2>4 DEF Core, TypeOK, SchedTypeOK, Status
    <3>c. resume' \in [Thread -> BOOLEAN] /\ intr' \in BOOLEAN /\ halted' \in BOOLEAN
      BY <2>2, <2>4 DEF Core, TypeOK, SchedTypeOK
    <3>1. SchedTypeOK'
      BY <1>0, <2>2, <2>4, <3>a, <3>b, <3>c DEF SchedTypeOK
    <3> QED BY <1>0, <2>4, <3>1 DEF Core, TypeOK, NoPanic
  <2>6. Listed'
    <3>1. \A u \in Thread : status'[u] = "RUNNING" <=> u = current'
      BY <1>0, <2>2, <2>3, <2>4 DEF Core, TypeOK, SchedTypeOK, Listed
    <3>2. \A u \in Thread : status'[u] = "READY" <=> u \in Range(ready')
      BY <1>0, <2>1, <2>2, <2>3, <2>4 DEF Core, TypeOK, SchedTypeOK, Listed, node_find
    <3>3. \A u \in Thread : status'[u] = "BLOCKED" <=> status[u] = "BLOCKED"
      BY <1>0, <2>2, <2>3, <2>4 DEF Core, TypeOK, SchedTypeOK
    <3>4. \A u \in Thread, k \in Lock : Waiting(u, k)' <=> Waiting(u, k)
      BY <1>0 DEF Waiting
    <3>5. IsInjective(ready') /\ waiters' = waiters
      BY <1>0, <2>2, <2>4
    <3> QED BY <3>1, <3>2, <3>3, <3>4, <3>5 DEF Core, Listed, node_find
  <2>7. MutualExclusion'
    BY <1>0, <2>1, <2>2, <2>3, <2>4, ThreadAssumption DEF Core, TypeOK, SchedTypeOK, MutualExclusion, Owns, Phases
  <2>8. Phases'
    BY <1>0, <2>1, <2>2, <2>3, <2>4, ThreadAssumption DEF Core, TypeOK, SchedTypeOK, MutualExclusion, Owns, Phases, FreeLocks
  <2>9. FreeLocks'
    BY <1>0, <2>1, <2>2, <2>3, <2>4, ThreadAssumption DEF Core, TypeOK, SchedTypeOK, MutualExclusion, Owns, Phases, FreeLocks
  <2>10. NoLostWakeup'
    BY <1>0, <2>1, <2>2, <2>3, <2>4, ThreadAssumption DEF Core, TypeOK, SchedTypeOK, NoLostWakeup, Waiting, Listed, node_find
  <2>11. Unborn' /\ IntrKept' /\ OldKept'
    BY <1>0, <2>1, <2>2, <2>3, <2>4, ThreadAssumption DEF Core, TypeOK, SchedTypeOK, Unborn, IntrKept, OldKept
  <2>12. StillFound
    <3>1. \A u \in Thread : status'[u] = "BLOCKED" => status[u] = "BLOCKED"
      BY <1>0, <2>2, <2>3, <2>4 DEF Core, TypeOK, SchedTypeOK
    <3> QED BY <1>0, <3>1 DEF StillFound
  <2> QED BY <2>5, <2>6, <2>7, <2>8, <2>9, <2>10, <2>11, <2>12 DEF Core
<1>2. CASE ticks[current] # 0
  <2>1. /\ ticks' = [ticks EXCEPT ![current] = ticks[current] - 1]
        /\ UNCHANGED <<current, ready, status, intr, resume, halted>>
    BY <1>0, <1>2 DEF Timer, intr_timer_handler
  <2>2. TypeOK' /\ NoPanic'
    <3>1. ticks[current] - 1 \in 0..Priority
      BY <1>0, <1>2, ThreadAssumption DEF Core, TypeOK, SchedTypeOK
    <3>2. SchedTypeOK'
      BY <2>1, <3>1 DEF Core, TypeOK, SchedTypeOK
    <3> QED BY <1>0, <2>1, <3>2 DEF Core, TypeOK, NoPanic
  <2>3. Listed'
    BY <1>0, <1>2, <2>1, ThreadAssumption DEF Core, TypeOK, SchedTypeOK, Listed, Waiting, node_find
  <2>4. MutualExclusion'
    BY <1>0, <1>2, <2>1, ThreadAssumption DEF Core, TypeOK, SchedTypeOK, MutualExclusion, Owns, Phases
  <2>5. Phases'
    BY <1>0, <1>2, <2>1, ThreadAssumption DEF Core, TypeOK, SchedTypeOK, MutualExclusion, Owns, Phases, FreeLocks
  <2>6. FreeLocks'
    BY <1>0, <1>2, <2>1, ThreadAssumption DEF Core, TypeOK, SchedTypeOK, MutualExclusion, Owns, Phases, FreeLocks
  <2>7. NoLostWakeup'
    BY <1>0, <1>2, <2>1, ThreadAssumption DEF Core, TypeOK, SchedTypeOK, NoLostWakeup, Waiting, Listed, node_find
  <2>8. Unborn' /\ IntrKept' /\ OldKept'
    BY <1>0, <1>2, <2>1, ThreadAssumption DEF Core, TypeOK, SchedTypeOK, Unborn, IntrKept, OldKept
  <2>9. StillFound
    BY <1>0, <2>1, QuietFound
  <2> QED BY <2>2, <2>3, <2>4, <2>5, <2>6, <2>7, <2>8, <2>9 DEF Core
<1> QED BY <1>1, <1>2

(* A new thread goes to the end of the ready list.                         *)
LEMMA StartThreadStep ==
  ASSUME Core, NEW t \in Thread, NEW x \in Thread, StartThread(t, x)
  PROVE  Core' /\ StillFound
<1>0. /\ ~ halted /\ current = t /\ status[x] = "UNBORN" /\ x # current
      /\ status[current] = "RUNNING"
      /\ x \notin Range(ready) /\ ready \in Seq(Thread) /\ IsInjective(ready)
      /\ pc[x] = "run" /\ mode[x] = TRUE /\ depth[x] = 0
      /\ UNCHANGED <<value, waiters, holder, repeat, pc, arg, old, depth, mode>>
  BY CurrentFree DEF Core, TypeOK, SchedTypeOK, Listed, node_find, Unborn, StartThread, thread_start,
     At, lockVars, clientVars
<1>1. /\ list_append(ready, x) \in Seq(Thread)
      /\ Range(list_append(ready, x)) = Range(ready) \cup {x}
      /\ IsInjective(list_append(ready, x))
  BY <1>0, AppendRange
<1>2. /\ ready' = list_append(ready, x)
      /\ status' = [status EXCEPT ![x] = "READY"]
      /\ ticks' = [ticks EXCEPT ![x] = Priority]
      /\ resume' = [resume EXCEPT ![x] = TRUE]
      /\ UNCHANGED <<current, intr, halted>>
  BY <1>0 DEF StartThread, thread_start, node_find
<1>3. TypeOK' /\ NoPanic'
  <2>1. SchedTypeOK' /\ NoPanic'
    BY <1>0, <1>1, <1>2, ThreadAssumption DEF Core, TypeOK, SchedTypeOK, NoPanic, Status
  <2> QED BY <1>0, <2>1 DEF Core, TypeOK
<1>4. Listed'
  <2>1. \A u \in Thread : status'[u] = IF u = x THEN "READY" ELSE status[u]
    BY <1>2 DEF Core, TypeOK, SchedTypeOK
  <2>2. \A u \in Thread, k \in Lock : Waiting(u, k)' <=> Waiting(u, k)
    BY <1>0 DEF Waiting
  <2>3. \A u \in Thread : u \in Range(ready') <=> u \in Range(ready) \/ u = x
    BY <1>1, <1>2
  <2>4. IsInjective(ready') /\ waiters' = waiters /\ current' = current
    BY <1>0, <1>1, <1>2
  <2> QED BY <1>0, <2>1, <2>2, <2>3, <2>4 DEF Core, Listed, node_find
<1>5. MutualExclusion'
  <2>1. \A u \in Thread, k \in Lock : Owns(u, k)' <=> Owns(u, k)
    BY <1>0 DEF Owns
  <2> QED BY <1>0, <2>1, ExclusionKept
<1>6. Phases'
  BY <1>0 DEF Core, Phases
<1>7. FreeLocks'
  BY <1>0 DEF Core, FreeLocks, Owns
<1>8. NoLostWakeup'
  BY <1>0, <1>1, <1>2, ThreadAssumption DEF Core, TypeOK, SchedTypeOK, NoLostWakeup, Waiting, Listed, node_find
<1>9. Unborn' /\ IntrKept' /\ OldKept'
  BY <1>0, <1>1, <1>2, ThreadAssumption DEF Core, TypeOK, SchedTypeOK, Unborn, IntrKept, OldKept
<1>10. StillFound
  <2>1. \A u \in Thread : status'[u] = "BLOCKED" => status[u] = "BLOCKED"
    BY <1>2 DEF Core, TypeOK, SchedTypeOK
  <2> QED BY <1>0, <2>1 DEF StillFound
<1> QED BY <1>3, <1>4, <1>5, <1>6, <1>7, <1>8, <1>9, <1>10 DEF Core
-----------------------------------------------------------------------------
(* The invariant holds initially.                                          *)
LEMMA InitCore == Init => Core
<1> SUFFICES ASSUME Init PROVE Core
  OBVIOUS
<1> USE ThreadAssumption, LockAssumption DEF Init, SchedInit, lock_init
<1>1. Range(<<>>) = {} /\ IsInjective(<<>>)
  BY DEF Range, IsInjective
<1>2. SchedTypeOK
  <2>1. Priority \in 0..Priority
    OBVIOUS
  <2>2. ticks \in [Thread -> 0..Priority]
    BY <2>1
  <2>3. status \in [Thread -> Status]
    BY DEF Status
  <2>4. current \in Thread /\ ready \in Seq(Thread)
    OBVIOUS
  <2>5. intr \in BOOLEAN /\ halted \in BOOLEAN /\ resume \in [Thread -> BOOLEAN]
    OBVIOUS
  <2> HIDE DEF Init
  <2> QED BY <2>2, <2>3, <2>4, <2>5, Zenon DEF SchedTypeOK
<1>3. TypeOK /\ NoPanic
  BY <1>2 DEF TypeOK, NoPanic, Label
<1>4. Listed
  BY <1>1 DEF Listed, node_find
<1>5. MutualExclusion /\ Phases /\ FreeLocks
  BY DEF MutualExclusion, Phases, FreeLocks, Owns
<1>6. NoLostWakeup
  BY DEF NoLostWakeup
<1>7. Unborn /\ IntrKept /\ OldKept
  BY DEF Unborn, IntrKept, OldKept
<1> QED BY <1>3, <1>4, <1>5, <1>6, <1>7 DEF Core

(* Every step of the locks and of the scheduler keeps the invariant of the *)
(* locks and loses nobody, provided that a thread that has to wait for a   *)
(* lock leaves somebody behind who can run.                                *)
LEMMA LockStepCore ==
  ASSUME Core, NEW t \in Thread, LockStep(t),
         pc[t] \in {"down", "woken"} /\ current = t /\ value[arg[t]] = 0 => ready # <<>>
  PROVE  Core' /\ StillFound
<1>1. CASE SemaDown(t)
  <2>1. current = t /\ pc[t] = "down" /\ intr \in BOOLEAN /\ intr = mode[t] /\ sema_down(t, intr)
    BY <1>1 DEF SemaDown, At, Core, TypeOK, SchedTypeOK, IntrKept
  <2> QED BY <2>1, SemaDownPass
<1>2. CASE SemaWoken(t)
  <2>1. current = t /\ pc[t] = "woken" /\ old[t] \in BOOLEAN /\ old[t] = mode[t] /\ sema_down(t, old[t])
    BY <1>2 DEF SemaWoken, At, Core, TypeOK, OldKept
  <2> QED BY <2>1, SemaDownPass
<1> QED BY <1>1, <1>2, TestHolderStep, AcquireAgainStep, SetHolderStep, FirstRepeatStep,
           ReleaseHolderStep, ClearRepeatStep, SemaUpStep DEF LockStep

(* So does a step that changes nothing.                                    *)
LEMMA StutterCore ==
  ASSUME Core, UNCHANGED vars
  PROVE  Core' /\ StillFound
<1> USE DEF vars, schedVars, lockVars, clientVars
<1>1. TypeOK' /\ NoPanic' /\ Unborn' /\ IntrKept' /\ OldKept' /\ Phases'
  BY DEF Core, TypeOK, SchedTypeOK, NoPanic, Unborn, IntrKept, OldKept, Phases
<1>2. Listed' /\ NoLostWakeup'
  BY DEF Core, Listed, NoLostWakeup, Waiting, node_find
<1>3. MutualExclusion' /\ FreeLocks'
  BY DEF Core, MutualExclusion, FreeLocks, Owns
<1>4. StillFound
  BY QuietFound
<1> QED BY <1>1, <1>2, <1>3, <1>4 DEF Core
-----------------------------------------------------------------------------
(* Whoever waits for a lock leaves somebody behind who can run: the owner, *)
(* who is not the waiter, does not wait and so is ready.                   *)
LEMMA OwnerReady ==
  ASSUME IInv, NEW l \in Lock, value[l] = 0, depth[current] = 0
  PROVE  ready # <<>>
<1>1. PICK u \in Thread : Owns(u, l)
  BY DEF IInv, Core, MutualExclusion
<1>2. u # current /\ depth[u] > 0
  BY <1>1 DEF IInv, Core, TypeOK, SchedTypeOK, Owns
<1>3. status[u] # "BLOCKED"
  <2>1. status[u] = "BLOCKED" => pc[u] = "woken"
    BY DEF IInv, Core, Listed, Accounted, Waiting
  <2> QED BY <1>2, <2>1 DEF IInv, Core, TypeOK, Phases
<1>4. status[u] = "READY"
  BY <1>2, <1>3 DEF IInv, Core, TypeOK, SchedTypeOK, Status, Listed, Unborn
<1>5. u \in Range(ready)
  BY <1>4 DEF IInv, Core, Listed, node_find
<1> QED BY <1>5, EmptyRange DEF IInv, Core, TypeOK, SchedTypeOK

(* The inductive invariant of Sync holds initially,                        *)
LEMMA InitIInv == Init => IInv
<1>1. Init => Accounted
  BY DEF Init, SchedInit, Accounted
<1> QED BY <1>1, InitCore DEF IInv

(* and every step preserves it.                                            *)
LEMMA NextIInv == IInv /\ [Next]_vars => IInv'
<1> SUFFICES ASSUME IInv, [Next]_vars PROVE IInv'
  OBVIOUS
<1>0. Core
  BY DEF IInv
<1>1. Core' /\ StillFound
  <2>1. CASE Timer
    BY <1>0, <2>1, TimerStep
  <2>2. ASSUME NEW t \in Thread, ThreadStep(t) PROVE Core' /\ StillFound
    <3>1. CASE LockStep(t)
      <4>1. pc[t] \in {"down", "woken"} /\ current = t /\ value[arg[t]] = 0 => ready # <<>>
        BY OwnerReady DEF IInv, Core, TypeOK, Phases
      <4> QED BY <1>0, <3>1, <4>1, LockStepCore
    <3>2. CASE \E l \in Lock : CallAcquire(t, l)
      BY <1>0, <3>2, CallAcquireStep
    <3>3. CASE CallRelease(t)
      BY <1>0, <3>3, CallReleaseStep
    <3>4. CASE EnterNoIntr(t) \/ LeaveNoIntr(t)
      BY <1>0, <3>4, EnterNoIntrStep, LeaveNoIntrStep
    <3>5. CASE \E u \in Thread : StartThread(t, u)
      BY <1>0, <3>5, StartThreadStep
    <3> QED BY <2>2, <3>1, <3>2, <3>3, <3>4, <3>5 DEF ThreadStep
  <2>3. CASE UNCHANGED vars
    BY <1>0, <2>3, StutterCore
  <2> QED BY <2>1, <2>2, <2>3 DEF Next
<1>2. Accounted'
  BY <1>1 DEF IInv, Accounted, StillFound
<1> QED BY <1>1, <1>2 DEF IInv

(* It implies the consistency of all the lists.                            *)
LEMMA ListsOne == IInv => OneList
BY DEF IInv, Core, Listed, Accounted, OneList

(* The inductive invariant holds in every reachable state.                 *)
THEOREM Invariance == Spec => []IInv
BY InitIInv, NextIInv, PTL DEF Spec

(* Every variable keeps its type, for any number of threads and locks.     *)
THEOREM TypeCorrect == Spec => []TypeOK
<1>1. IInv => TypeOK
  BY DEF IInv, Core
<1> QED BY <1>1, Invariance, PTL

(* The scheduler's lists and the waiters' lists are disjoint, without      *)
(* repetitions, and agree with the statuses (schedule, thread_block,       *)
(* thread_unblock, sema_down, sema_up).                                    *)
THEOREM ListsConsistent == Spec => []OneList
BY ListsOne, Invariance, PTL

(* lock_acquire grants a lock to one thread at a time.                     *)
THEOREM LockExclusive == Spec => []MutualExclusion
<1>1. IInv => MutualExclusion
  BY DEF IInv, Core
<1> QED BY <1>1, Invariance, PTL

(* lock_acquire's and lock_release's reads of holder and                   *)
(* holder_repeat_cnt, outside any critical section, are right.             *)
THEOREM HolderRight == Spec => []HolderIsOwner
<1>1. IInv => HolderIsOwner
  BY HolderOwner DEF IInv
<1> QED BY <1>1, Invariance, PTL

(* sema_up loses no wakeup.                                                *)
THEOREM WakeupKept == Spec => []NoLostWakeup
<1>1. IInv => NoLostWakeup
  BY DEF IInv, Core
<1> QED BY <1>1, Invariance, PTL

(* No assertion fails: schedule always finds a ready thread, the lists     *)
(* never hold a thread twice, the counts are what lock_acquire, sema_up    *)
(* and lock_release assert.                                                *)
THEOREM NeverPanics == Spec => []NoPanic
<1>1. IInv => NoPanic
  BY DEF IInv, Core
<1> QED BY <1>1, Invariance, PTL

(* Blocking, waking and preemption restore the interrupt flag.             *)
THEOREM FlagKept == Spec => []IntrKept
<1>1. IInv => IntrKept
  BY DEF IInv, Core
<1> QED BY <1>1, Invariance, PTL

-----------------------------------------------------------------------------
(***************************************************************************)
(* The refinement: lock_acquire and lock_release of Sync implement the     *)
(* recursive lock of Mutex, under the refinement mapping M of Sync.  The   *)
(* last step of lock_acquire is Enter or EnterAgain, the first of          *)
(* lock_release is Leave or LeaveInner, and every other step, of any       *)
(* thread, changes nothing the callers of the lock can see.                *)
(***************************************************************************)

(* A thread that is a caller of a lock is its only one, and the fields of  *)
(* the lock name it and count what it has acquired.                        *)
LEMMA OnlyCaller ==
  ASSUME IInv, NEW t \in Thread, depth[t] > 0,
         pc[t] \in {"run", "acquire", "again", "release"}
  PROVE  /\ Callers(arg[t]) = {t}
         /\ holder[arg[t]] = t /\ repeat[arg[t]] = depth[t]
         /\ arg[t] \in Lock /\ depth[t] \in Nat /\ t # NoThread
<1>1. holder[arg[t]] = t /\ repeat[arg[t]] = depth[t]
  BY DEF IInv, Core, Phases
<1>2. arg[t] \in Lock /\ depth[t] \in Nat /\ t # NoThread
  BY LockAssumption DEF IInv, Core, TypeOK
<1>3. ASSUME NEW u \in Callers(arg[t]) PROVE u = t
  BY <1>2, <1>3 DEF IInv, Core, MutualExclusion, Owns, Callers
<1>4. t \in Callers(arg[t])
  BY DEF Callers
<1> QED BY <1>1, <1>2, <1>3, <1>4

(* While a thread is on its way into or out of a lock, the lock has no     *)
(* caller.                                                                 *)
LEMMA NoCaller ==
  ASSUME IInv, NEW t \in Thread, pc[t] \in {"own", "first", "clear", "up"}
  PROVE  Callers(arg[t]) = {} /\ arg[t] \in Lock /\ t # NoThread
<1>1. arg[t] \in Lock /\ depth[t] > 0 /\ t # NoThread
  BY LockAssumption DEF IInv, Core, TypeOK, Phases
<1>2. ASSUME NEW u \in Callers(arg[t]) PROVE FALSE
  BY <1>1, <1>2 DEF IInv, Core, MutualExclusion, Owns, Callers
<1> QED BY <1>1, <1>2

(* The refinement mapping.                                                 *)
Owner == [k \in Lock |-> IF repeat[k] = 0 THEN NoThread ELSE holder[k]]
Times == [k \in Lock |-> IF holder[k] = NoThread THEN 0 ELSE repeat[k]]
Inside == [k \in Lock |-> Callers(k)]

(* What the callers of the locks see does not change.                      *)
Quiet == /\ \A l \in Lock : Callers(l)' = Callers(l)
         /\ \A l \in Lock : \/ holder'[l] = holder[l] /\ repeat'[l] = repeat[l]
                            \/ repeat[l] = 0 /\ repeat'[l] = 0
                            \/ holder[l] = NoThread /\ holder'[l] = NoThread

(* Then nothing of the abstract lock changes.                              *)
LEMMA QuietStutters == Quiet => UNCHANGED M!mutexVars
BY DEF Quiet, M!mutexVars

(* Threads that change neither their place nor what they own change no     *)
(* set of callers.                                                         *)
LEMMA SamePlaces ==
  ASSUME UNCHANGED <<pc, arg, depth, holder, repeat>>
  PROVE  Quiet
BY DEF Quiet, Callers
-----------------------------------------------------------------------------
(* lock_acquire before it is granted.                                      *)
LEMMA CallAcquireQuiet ==
  ASSUME IInv, NEW t \in Thread, NEW l \in Lock, CallAcquire(t, l)
  PROVE  Quiet
<1> USE DEF CallAcquire, At, Goto, lockVars
<1>1. \A k \in Lock : Callers(k)' = Callers(k)
  BY DEF IInv, Core, TypeOK, Callers
<1> QED BY <1>1 DEF Quiet

(* A client that owns the lock finds itself the holder.                    *)
LEMMA TestHolderQuiet ==
  ASSUME IInv, NEW t \in Thread, TestHolder(t)
  PROVE  Quiet
<1> USE DEF TestHolder, At, Goto, lockVars
<1>1. depth[t] > 0 => holder[arg[t]] = t
  BY OnlyCaller
<1>2. \A k \in Lock : Callers(k)' = Callers(k)
  BY <1>1 DEF IInv, Core, TypeOK, Callers
<1> QED BY <1>2 DEF Quiet

(* A pass of sema_down, whether it blocks, takes the value or panics.      *)
LEMMA SemaDownQuiet ==
  ASSUME IInv, NEW t \in Thread, NEW saved, pc[t] \in {"down", "woken"},
         sema_down(t, saved)
  PROVE  Quiet
<1>0. depth[t] = 0 /\ pc \in [Thread -> Label] /\ depth \in [Thread -> 0..MaxDepth]
  BY DEF IInv, Core, TypeOK, Phases
<1>1. UNCHANGED <<holder, repeat, arg>>
  BY DEF sema_down
<1>2. \/ UNCHANGED <<pc, depth>>
      \/ pc' = [pc EXCEPT ![t] = "woken"] /\ UNCHANGED depth
      \/ pc' = [pc EXCEPT ![t] = "own"] /\ depth' = [depth EXCEPT ![t] = 1]
  BY DEF sema_down, SemaWait, SemaTake, Goto
<1>3. \A k \in Lock : Callers(k)' = Callers(k)
  BY <1>0, <1>1, <1>2 DEF Callers
<1> QED BY <1>1, <1>3 DEF Quiet

(* holder is set while holder_repeat_cnt is still 0.                       *)
LEMMA SetHolderQuiet ==
  ASSUME IInv, NEW t \in Thread, SetHolder(t)
  PROVE  Quiet
<1> USE DEF SetHolder, At, Goto
<1>1. \A k \in Lock : Callers(k)' = Callers(k)
  BY DEF IInv, Core, TypeOK, Callers
<1>2. repeat[arg[t]] = 0 /\ arg[t] \in Lock
  BY DEF IInv, Core, TypeOK, Phases
<1>3. \A k \in Lock : k # arg[t] => holder'[k] = holder[k]
  BY DEF IInv, Core, TypeOK
<1> QED BY <1>1, <1>2, <1>3 DEF Quiet

(* lock_release before its first access to the lock.                      *)
LEMMA CallReleaseQuiet ==
  ASSUME IInv, NEW t \in Thread, CallRelease(t)
  PROVE  Quiet
<1> USE DEF CallRelease, At, Goto, lockVars
<1>1. \A k \in Lock : Callers(k)' = Callers(k)
  BY DEF IInv, Core, TypeOK, Callers
<1> QED BY <1>1 DEF Quiet

(* holder_repeat_cnt is reset when holder already is NULL.                 *)
LEMMA ClearRepeatQuiet ==
  ASSUME IInv, NEW t \in Thread, ClearRepeat(t)
  PROVE  Quiet
<1> USE DEF ClearRepeat, At, Goto
<1>1. \A k \in Lock : Callers(k)' = Callers(k)
  BY DEF IInv, Core, TypeOK, Callers
<1>2. holder[arg[t]] = NoThread /\ arg[t] \in Lock
  BY DEF IInv, Core, TypeOK, Phases
<1>3. \A k \in Lock : k # arg[t] => repeat'[k] = repeat[k]
  BY DEF IInv, Core, TypeOK
<1> QED BY <1>1, <1>2, <1>3 DEF Quiet

(* sema_up gives back what the callers had given back before.              *)
LEMMA SemaUpQuiet ==
  ASSUME IInv, NEW t \in Thread, sema_up(t)
  PROVE  Quiet
<1>0. pc[t] = "up" /\ pc \in [Thread -> Label] /\ depth \in [Thread -> 0..MaxDepth]
  BY DEF sema_up, At, IInv, Core, TypeOK
<1>1. UNCHANGED <<holder, repeat, arg>>
  BY DEF sema_up, lockVars, clientVars
<1>2. \/ UNCHANGED <<pc, depth>>
      \/ pc' = [pc EXCEPT ![t] = "run"] /\ depth' = [depth EXCEPT ![t] = 0]
  BY DEF sema_up, Goto, clientVars
<1>3. \A k \in Lock : Callers(k)' = Callers(k)
  BY <1>0, <1>1, <1>2 DEF Callers
<1> QED BY <1>1, <1>3 DEF Quiet
-----------------------------------------------------------------------------
(* The else branch of lock_acquire is EnterAgain.                          *)
LEMMA AcquireAgainEnters ==
  ASSUME IInv, NEW t \in Thread, NEW l \in Lock, arg[t] = l, AcquireAgain(t)
  PROVE  M!EnterAgain(t, l)
<1>1. pc[t] = "again" /\ depth[t] > 0
  BY DEF AcquireAgain, At, IInv, Core, Phases
<1>2. /\ Callers(l) = {t} /\ holder[l] = t /\ repeat[l] = depth[t]
      /\ depth[t] \in Nat /\ t # NoThread
  BY <1>1, OnlyCaller
<1>3. /\ repeat' = [repeat EXCEPT ![l] = @ + 1] /\ UNCHANGED <<holder, arg>>
      /\ depth' = [depth EXCEPT ![t] = @ + 1] /\ pc' = [pc EXCEPT ![t] = "run"]
  BY DEF AcquireAgain, Goto
<1>4. /\ repeat \in [Lock -> 0..MaxDepth] /\ depth \in [Thread -> 0..MaxDepth]
      /\ pc \in [Thread -> Label] /\ MaxDepth \in Nat
  BY LockAssumption DEF IInv, Core, TypeOK
<1>5. \A k \in Lock : Callers(k)' = Callers(k)
  BY <1>1, <1>3, <1>4 DEF Callers
<1>6. \A k \in Lock : repeat'[k] = IF k = l THEN repeat[l] + 1 ELSE repeat[k]
  BY <1>3, <1>4
<1>7. Owner[l] = t
  BY <1>1, <1>2 DEF Owner
<1>8. Inside[l] = {t}
  BY <1>2 DEF Inside
<1>9. Owner' = Owner
  BY <1>1, <1>2, <1>3, <1>6 DEF Owner
<1>10. Inside' = Inside
  BY <1>5 DEF Inside
<1>11. Times' = [Times EXCEPT ![l] = Times[l] + 1]
  BY <1>1, <1>2, <1>3, <1>6 DEF Times
<1> QED BY <1>7, <1>8, <1>9, <1>10, <1>11 DEF M!EnterAgain, Owner, Times, Inside

(* The assignment to holder_repeat_cnt is Enter: its assertion holds.      *)
LEMMA FirstRepeatEnters ==
  ASSUME IInv, NEW t \in Thread, NEW l \in Lock, arg[t] = l, FirstRepeat(t)
  PROVE  M!Enter(t, l)
<1>1. pc[t] = "first" /\ depth[t] = 1 /\ repeat[l] = 0 /\ holder[l] = t
  BY DEF FirstRepeat, At, IInv, Core, Phases
<1>2. Callers(l) = {} /\ t # NoThread
  BY <1>1, NoCaller
<1>3. /\ repeat' = [repeat EXCEPT ![l] = 1] /\ UNCHANGED <<holder, arg, depth>>
      /\ pc' = [pc EXCEPT ![t] = "run"]
  BY <1>1 DEF FirstRepeat, Goto
<1>4. repeat \in [Lock -> 0..MaxDepth] /\ pc \in [Thread -> Label]
  BY DEF IInv, Core, TypeOK
<1>5. \A k \in Lock : Callers(k)' = IF k = l THEN {t} ELSE Callers(k)
  BY <1>1, <1>2, <1>3, <1>4 DEF Callers
<1>6. \A k \in Lock : repeat'[k] = IF k = l THEN 1 ELSE repeat[k]
  BY <1>3, <1>4
<1>7. Owner[l] = NoThread
  BY <1>1 DEF Owner
<1>8. Inside[l] = {}
  BY <1>2 DEF Inside
<1>9. Owner' = [Owner EXCEPT ![l] = t]
  <2>1. repeat'[l] = 1 /\ holder'[l] = t /\ holder' = holder
    BY <1>1, <1>3, <1>6
  <2>2. \A k \in Lock : Owner'[k] = IF k = l THEN t ELSE Owner[k]
    BY <1>6, <2>1 DEF Owner
  <2> QED BY <2>2 DEF Owner
<1>10. Inside' = [Inside EXCEPT ![l] = {t}]
  BY <1>5 DEF Inside
<1>11. Times' = [Times EXCEPT ![l] = 1]
  BY <1>1, <1>2, <1>3, <1>6 DEF Times
<1> QED BY <1>7, <1>8, <1>9, <1>10, <1>11 DEF M!Enter, Owner, Times, Inside
-----------------------------------------------------------------------------
(* The first step of lock_release is LeaveInner when the lock has been     *)
(* acquired more than once, and Leave when it has not: the assertions of   *)
(* lock_release hold.                                                      *)
LEMMA ReleaseHolderLeaves ==
  ASSUME IInv, NEW t \in Thread, NEW l \in Lock, arg[t] = l, ReleaseHolder(t)
  PROVE  M!LeaveInner(t, l) \/ M!Leave(t, l)
<1>1. pc[t] = "release" /\ depth[t] > 0
  BY DEF ReleaseHolder, At, IInv, Core, Phases
<1>2. /\ Callers(l) = {t} /\ holder[l] = t /\ repeat[l] = depth[t]
      /\ depth[t] \in Nat /\ t # NoThread
  BY <1>1, OnlyCaller
<1>3. /\ repeat \in [Lock -> 0..MaxDepth] /\ depth \in [Thread -> 0..MaxDepth]
      /\ holder \in [Lock -> Thread \cup {NoThread}]
      /\ pc \in [Thread -> Label] /\ MaxDepth \in Nat
  BY LockAssumption DEF IInv, Core, TypeOK
<1>4. CASE repeat[l] > 1
  <2>1. /\ repeat' = [repeat EXCEPT ![l] = @ - 1] /\ UNCHANGED <<holder, arg>>
        /\ depth' = [depth EXCEPT ![t] = @ - 1] /\ pc' = [pc EXCEPT ![t] = "run"]
    BY <1>1, <1>2, <1>4 DEF ReleaseHolder, Goto
  <2>2. \A k \in Lock : Callers(k)' = Callers(k)
    BY <1>1, <1>2, <1>3, <1>4, <2>1 DEF Callers
  <2>3. \A k \in Lock : repeat'[k] = IF k = l THEN repeat[l] - 1 ELSE repeat[k]
    BY <1>3, <2>1
  <2>4. Owner[l] = t
    BY <1>1, <1>2 DEF Owner
  <2>5. Inside[l] = {t}
    BY <1>2 DEF Inside
  <2>6. Times[l] > 1
    BY <1>2, <1>4 DEF Times
  <2>7. Owner' = Owner
    BY <1>1, <1>2, <1>4, <2>1, <2>3 DEF Owner
  <2>8. Inside' = Inside
    BY <2>2 DEF Inside
  <2>9. Times' = [Times EXCEPT ![l] = Times[l] - 1]
    BY <1>1, <1>2, <2>1, <2>3 DEF Times
  <2> QED BY <2>4, <2>5, <2>6, <2>7, <2>8, <2>9 DEF M!LeaveInner, Owner, Times, Inside
<1>5. CASE ~ (repeat[l] > 1)
  <2>1. /\ holder' = [holder EXCEPT ![l] = NoThread]
        /\ UNCHANGED <<repeat, depth, arg>> /\ pc' = [pc EXCEPT ![t] = "clear"]
    BY <1>1, <1>2, <1>5 DEF ReleaseHolder, Goto
  <2>2. repeat[l] = 1
    BY <1>1, <1>2, <1>5
  <2>3. \A k \in Lock : Callers(k)' = IF k = l THEN {} ELSE Callers(k)
    BY <1>1, <1>2, <1>3, <2>1 DEF Callers
  <2>4. \A k \in Lock : holder'[k] = IF k = l THEN NoThread ELSE holder[k]
    BY <1>3, <2>1
  <2>5. Owner[l] = t
    BY <1>1, <1>2 DEF Owner
  <2>6. Inside[l] = {t}
    BY <1>2 DEF Inside
  <2>7. Times[l] = 1
    BY <1>2, <2>2 DEF Times
  <2>8. Owner' = [Owner EXCEPT ![l] = NoThread]
    BY <2>1, <2>4 DEF Owner
  <2>9. Inside' = [Inside EXCEPT ![l] = {}]
    BY <2>3 DEF Inside
  <2>10. Times' = [Times EXCEPT ![l] = 0]
    BY <2>1, <2>4 DEF Times
  <2> QED BY <2>5, <2>6, <2>7, <2>8, <2>9, <2>10 DEF M!Leave, Owner, Times, Inside
<1> QED BY <1>4, <1>5
-----------------------------------------------------------------------------
(* lock_init leaves every lock free.                                       *)
LEMMA InitMutex == Init => M!MutexInit
<1> SUFFICES ASSUME Init PROVE M!MutexInit
  OBVIOUS
<1>1. \A l \in Lock : Callers(l) = {}
  BY DEF Init, Callers
<1> QED BY <1>1 DEF Init, lock_init, M!MutexInit

(* Every step of Sync is a step of the recursive lock or changes nothing   *)
(* its callers see.                                                        *)
LEMMA NextMutex == IInv /\ [Next]_vars => [M!MutexNext]_(M!mutexVars)
<1> SUFFICES ASSUME IInv, [Next]_vars PROVE Quiet \/ M!MutexNext
  BY QuietStutters
<1> USE DEF lockVars, clientVars
<1>1. CASE UNCHANGED vars
  BY <1>1, SamePlaces DEF vars
<1>2. CASE Timer
  BY <1>2, SamePlaces DEF Timer
<1>3. ASSUME NEW t \in Thread, ThreadStep(t) PROVE Quiet \/ M!MutexNext
  <2> DEFINE l == arg[t]
  <2>0. l \in Lock
    BY DEF IInv, Core, TypeOK
  <2>1. CASE \E k \in Lock : CallAcquire(t, k)
    BY <2>1, CallAcquireQuiet
  <2>2. CASE TestHolder(t)
    BY <2>2, TestHolderQuiet
  <2>3. CASE AcquireAgain(t)
    BY <2>0, <2>3, AcquireAgainEnters DEF M!MutexNext
  <2>4. CASE SemaDown(t)
    BY <2>4, SemaDownQuiet DEF SemaDown, At
  <2>5. CASE SemaWoken(t)
    BY <2>5, SemaDownQuiet DEF SemaWoken, At
  <2>6. CASE SetHolder(t)
    BY <2>6, SetHolderQuiet
  <2>7. CASE FirstRepeat(t)
    BY <2>0, <2>7, FirstRepeatEnters DEF M!MutexNext
  <2>8. CASE CallRelease(t)
    BY <2>8, CallReleaseQuiet
  <2>9. CASE ReleaseHolder(t)
    BY <2>0, <2>9, ReleaseHolderLeaves DEF M!MutexNext
  <2>10. CASE ClearRepeat(t)
    BY <2>10, ClearRepeatQuiet
  <2>11. CASE sema_up(t)
    BY <2>11, SemaUpQuiet
  <2>12. CASE EnterNoIntr(t) \/ LeaveNoIntr(t)
    BY <2>12, SamePlaces DEF EnterNoIntr, LeaveNoIntr
  <2>13. CASE \E u \in Thread : StartThread(t, u)
    BY <2>13, SamePlaces DEF StartThread
  <2> QED BY <1>3, <2>1, <2>2, <2>3, <2>4, <2>5, <2>6, <2>7, <2>8, <2>9, <2>10,
             <2>11, <2>12, <2>13 DEF ThreadStep, LockStep
<1> QED BY <1>1, <1>2, <1>3 DEF Next

(* lock_acquire and lock_release, interleaved in any way the scheduler     *)
(* allows, are a recursive lock: for any number of threads and locks the   *)
(* detailed specification implements the abstract one.                     *)
THEOREM LockImplementsMutex == Spec => IsMutex
BY InitMutex, NextMutex, Invariance, PTL DEF Spec, IsMutex, M!MutexSpec
=============================================================================
