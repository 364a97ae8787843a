----------------------- MODULE AndroidServicesProofs -----------------------
(***************************************************************************)
(* Proofs about AndroidServices, for every set of threads, activities,     *)
(* locks and addresses.  IInv is inductive: to the properties it adds what *)
(* holds in the middle of a call, for the statics no two calls stored in   *)
(* at a time.                                                              *)
(***************************************************************************)
EXTENDS AndroidServices, TLAPS

(* What a thread has in hand goes with where it is.                        *)
ArgInv ==
    \A t \in Threads :
        /\ pc[t] = "store" => arg[t] \in Locks
        /\ pc[t] = "test" => arg[t] \in Addresses \cup {None}

(* No two calls are at these points.                                       *)
Alone(points) ==
    \A t, u \in Threads : pc[t] \in points /\ pc[u] \in points => t = u

ActivityInv ==
    "activity" \notin raced =>
        /\ Alone(Finding)
        /\ \A a \in Activities : refs[a] = IF a = instance THEN 1 ELSE 0
        /\ Busy(Finding) => instance = None

(* The library's reference to the lock it has, and what is held.           *)
LockShape ==
    /\ \A l \in Locks :
           /\ refs[l] = IF l = lock /\ ~Busy({"clear"}) THEN 1 ELSE 0
           /\ held[l] > 0 => \/ l \in nested
                             \/ l = lock /\ ~Busy({"delete", "clear"})
    /\ lock # None => held[lock] > 0 \/ Busy({"hold", "delete", "clear"})
    /\ Busy({"store"}) => lock = None
    /\ Busy({"hold", "unhold", "delete", "clear"}) => lock # None

LockInv == "lock" \notin raced => Alone(Locking) /\ LockShape

(* A lock that is held twice was acquired while it was held.               *)
NestedInv == \A l \in Locks : held[l] > 1 => l \in nested

AddressInv ==
    "address" \notin raced =>
        /\ Alone(Asking)
        /\ \A t \in Threads :
               /\ pc[t] = "test" => ip = arg[t]
               /\ pc[t] = "copy" /\ sdk >= 31 => ip # None /\ private_ip(ip)

IInv ==
    /\ TypeOK /\ ArgInv /\ NestedInv
    /\ ActivityInv /\ LockInv /\ AddressInv
    /\ AbortOnlyKnown

-----------------------------------------------------------------------------
(* What the proofs use of the constants.                                   *)
LEMMA Constants ==
    /\ None \notin Objects
    /\ \A l \in Locks : l \notin Activities
    /\ MaxHeld \in Nat /\ LocalRefs \in Nat
BY ServicesAssumption

-----------------------------------------------------------------------------
(* Entering a call keeps the count of local references.                    *)
LEMMA EnterType ==
  ASSUME TypeOK, NEW t \in Threads, Enter(t)
  PROVE  locals' \in [Threads -> 0 .. LocalRefs]
<1>1. locals \in [Threads -> 0 .. LocalRefs] /\ LocalRefs \in Nat
  BY Constants DEF TypeOK
<1>2. locals[t] + 1 \in 0 .. LocalRefs
  BY <1>1 DEF Enter
<1>. QED
  BY <1>1, <1>2 DEF Enter

(* What is held is counted.                                                *)
LEMMA HeldType ==
  ASSUME TypeOK
  PROVE  /\ held \in [Locks -> 0 .. MaxHeld]
         /\ \A l \in Locks : held[l] \in Nat
<1>1. held \in [Locks -> 0 .. MaxHeld] /\ MaxHeld \in Nat
  BY Constants DEF TypeOK
<1>. QED
  BY <1>1

(* A call that begins keeps the types of what it changes.                  *)
LEMMA BeginType ==
  ASSUME TypeOK, NEW t \in Threads, NEW where \in Points, NEW points,
         NEW static \in {"activity", "lock", "address"},
         NEW x \in Locks \cup Addresses \cup {None},
         Begin(t, where, x, static, points)
  PROVE  /\ pc' \in [Threads -> Points]
         /\ arg' \in [Threads -> Locks \cup Addresses \cup {None}]
         /\ raced' \subseteq {"activity", "lock", "address"}
         /\ nested' \subseteq Locks
BY DEF TypeOK, Begin, Goto

(* Every step keeps the types.                                             *)
LEMMA TypeStep ==
  ASSUME TypeOK, ArgInv, [Next]_vars PROVE TypeOK'
<1>1. ASSUME NEW a \in Activities, Create(a) PROVE TypeOK'
  BY <1>1, Constants
     DEF Create, TypeOK, ArgInv, Points, Finding, Locking, Asking, Queries,
         Objects, platform, statics, calls, threads, ghosts
<1>2. ASSUME Destroy PROVE TypeOK'
  BY <1>2, Constants
     DEF Destroy, TypeOK, ArgInv, Points, Finding, Locking, Asking, Queries,
         Objects, platform, statics, calls, threads, ghosts
<1>3. ASSUME NEW t \in Threads, Return(t)
      PROVE  TypeOK'
  <2>1. locals' \in [Threads -> 0 .. LocalRefs]
    <3>1. locals \in [Threads -> 0 .. LocalRefs] /\ LocalRefs \in Nat
      BY Constants DEF TypeOK
    <3>2. 0 \in 0 .. LocalRefs
      BY <3>1
    <3>. QED
      BY <1>3, <3>1, <3>2 DEF Return
  <2>. QED
    BY <1>3, <2>1 DEF Return, TypeOK, platform, statics, calls, ghosts
<1>4. ASSUME NEW t \in Threads, TableFull(t)
      PROVE  TypeOK'
  BY <1>4, Constants
     DEF TableFull, Abort, TypeOK, ArgInv, Points, Finding, Locking, Asking,
         Queries, Objects, platform, statics, calls, threads, ghosts
<1>5. ASSUME NEW t \in Threads, GetActivity(t)
      PROVE  TypeOK'
  <2>1. "find" \in Points
    BY DEF Points, Finding, Locking, Asking
  <2>. QED
    BY <1>5, <2>1, EnterType, BeginType
       DEF GetActivity, Missing, TypeOK, platform, statics
<1>6. ASSUME NEW t \in Threads, FindActivity(t)
      PROVE  TypeOK'
  <2>1. refs' \in [Objects -> Nat]
    <3>1. CASE main = None
      BY <1>6, <3>1 DEF FindActivity, TypeOK
    <3>2. CASE main \in Activities
      <4>1. main \in Objects /\ main # None /\ refs \in [Objects -> Nat]
        BY <3>2, Constants DEF TypeOK, Objects
      <4>. QED
        BY <1>6, <4>1 DEF FindActivity, Ref
    <3>. QED
      BY <3>1, <3>2 DEF TypeOK
  <2>. QED
    BY <1>6, <2>1
       DEF FindActivity, TypeOK, Done, Goto, Points, platform, ghosts
<1>7. ASSUME NEW t \in Threads, NEW l \in Locks, AcquireNew(t, l)
      PROVE  TypeOK'
  <2>1. "store" \in Points
    BY DEF Points, Finding, Locking, Asking
  <2>. QED
    BY <1>7, <2>1, EnterType, BeginType
       DEF AcquireNew, TypeOK, platform, statics
<1>8. ASSUME NEW t \in Threads, StoreLock(t)
      PROVE  TypeOK'
  <2>1. arg[t] \in Locks /\ arg[t] \in Objects
    BY <1>8 DEF StoreLock, ArgInv, Objects
  <2>2. refs' \in [Objects -> Nat]
    <3>1. refs \in [Objects -> Nat]
      BY DEF TypeOK
    <3>. QED
      BY <1>8, <2>1, <3>1 DEF StoreLock, Ref
  <2>. QED
    BY <1>8, <2>1, <2>2
       DEF StoreLock, TypeOK, Goto, Points, Locking, platform, ghosts
<1>9. ASSUME NEW t \in Threads, AcquireAgain(t)
      PROVE  TypeOK'
  <2>1. "hold" \in Points
    BY DEF Points, Finding, Locking, Asking
  <2>. QED
    BY <1>9, <2>1, EnterType, BeginType
       DEF AcquireAgain, TypeOK, platform, statics
<1>10. ASSUME NEW t \in Threads, Hold(t)
      PROVE  TypeOK'
  <2>1. lock \in Locks /\ held' \in [Locks -> 0 .. MaxHeld]
    <3>1. lock \in Locks /\ held[lock] \in 0 .. MaxHeld
      BY <1>10 DEF Hold, Usable, TypeOK
    <3>2. held[lock] + 1 \in 0 .. MaxHeld
      BY <1>10, <3>1, Constants DEF Hold
    <3>. QED
      BY <1>10, <3>1, <3>2 DEF Hold, TypeOK
  <2>. QED
    BY <1>10, <2>1 DEF Hold, TypeOK, Done, Goto, Points, statics
<1>11. ASSUME NEW t \in Threads, Release(t)
      PROVE  TypeOK'
  <2>1. "unhold" \in Points
    BY DEF Points, Finding, Locking, Asking
  <2>. QED
    BY <1>11, <2>1, EnterType, BeginType
       DEF Release, ReleaseAt, TypeOK, platform, statics
<1>12. ASSUME NEW t \in Threads, Unhold(t)
      PROVE  TypeOK'
  <2>1. held' \in [Locks -> 0 .. MaxHeld]
    <3>1. lock \in Locks /\ held[lock] \in 0 .. MaxHeld
      BY <1>12 DEF Unhold, Usable, TypeOK
    <3>2. (IF held[lock] > 0 THEN held[lock] - 1 ELSE 0) \in 0 .. MaxHeld
      BY <3>1, Constants
    <3>. QED
      BY <1>12, <3>1, <3>2 DEF Unhold, TypeOK
  <2>. QED
    BY <1>12, <2>1
       DEF Unhold, TypeOK, Goto, Points, Locking, statics, ghosts
<1>13. ASSUME NEW t \in Threads, DeleteRef(t)
      PROVE  TypeOK'
  <2>1. refs' \in [Objects -> Nat]
    <3>1. CASE lock = None
      BY <1>13, <3>1 DEF DeleteRef, Deleted, TypeOK
    <3>2. CASE lock # None
      <4>1. lock \in Objects /\ refs[lock] \in Nat /\ refs[lock] > 0
        BY <1>13, <3>2 DEF DeleteRef, Deleted, Usable, TypeOK, Objects
      <4>2. refs[lock] - 1 \in Nat
        BY <4>1
      <4>. QED
        BY <1>13, <3>2, <4>1, <4>2 DEF DeleteRef, Deleted, TypeOK
    <3>. QED
      BY <3>1, <3>2
  <2>. QED
    BY <1>13, <2>1
       DEF DeleteRef, Deleted, TypeOK, Goto, Points, Locking, platform, statics, ghosts
<1>14. ASSUME NEW t \in Threads, ClearLock(t)
      PROVE  TypeOK'
  BY <1>14, Constants
     DEF ClearLock, Done, Goto, TypeOK, ArgInv, Points, Finding, Locking,
         Asking, Queries, Objects, platform, statics, calls, threads, ghosts
<1>15. ASSUME NEW t \in Threads, LockGone(t)
      PROVE  TypeOK'
  BY <1>15, Constants
     DEF LockGone, Usable, Done, Abort, Goto, TypeOK, ArgInv, Points, Finding,
         Locking, Asking, Queries, Objects, platform, statics, calls, threads,
         ghosts
<1>16. ASSUME NEW t \in Threads, GetAddress(t)
      PROVE  TypeOK'
  <2>1. {"parse", "copy"} \subseteq Points
    BY DEF Points, Asking
  <2>2. ip' \in Addresses \cup {None}
    BY <1>16 DEF GetAddress, TypeOK
  <2>. QED
    BY <1>16, <2>1, <2>2, EnterType, BeginType
       DEF GetAddress, TypeOK, platform
<1>17. ASSUME NEW t \in Threads, NEW a \in Addresses \cup {None}, Parse(t, a)
      PROVE  TypeOK'
  BY <1>17, Constants
     DEF Parse, Goto, TypeOK, ArgInv, Points, Finding, Locking, Asking,
         Queries, Objects, platform, statics, calls, threads, ghosts
<1>18. ASSUME NEW t \in Threads, Test(t)
      PROVE  TypeOK'
  BY <1>18, Constants
     DEF Test, Goto, TypeOK, ArgInv, Points, Finding, Locking, Asking, Queries,
         Objects, platform, statics, calls, threads, ghosts
<1>19. ASSUME NEW t \in Threads, Answer(t)
      PROVE  TypeOK'
  BY <1>19, Constants
     DEF Answer, Done, Goto, TypeOK, ArgInv, Points, Finding, Locking, Asking,
         Queries, Objects, platform, statics, calls, threads, ghosts
<1>20. ASSUME NEW t \in Threads, NEW q \in Queries, Query(t, q)
      PROVE  TypeOK'
  <2>1. aborted' \in Queries \cup {"no", "local references", "lock"}
    BY <1>20 DEF Query, Abort, TypeOK
  <2>. QED
    BY <1>20, <2>1, EnterType
       DEF Query, Abort, TypeOK, platform, statics, calls, ghosts
<1>21. ASSUME UNCHANGED vars PROVE TypeOK'
  BY <1>21 DEF TypeOK, ArgInv, Points, Finding, Locking, Asking, Queries,
     Objects, vars, platform, statics, calls, threads, ghosts
<1>. QED
  BY <1>1, <1>2, <1>3, <1>4, <1>5, <1>6, <1>7, <1>8, <1>9, <1>10, <1>11, <1>12,
     <1>13, <1>14, <1>15, <1>16, <1>17, <1>18, <1>19, <1>20, <1>21
     DEF Next, Application, Thread, Aborted

(* Every step keeps what a thread has in hand.                             *)
LEMMA ArgStep ==
  ASSUME TypeOK, ArgInv, [Next]_vars PROVE ArgInv'
<1>1. ASSUME NEW a \in Activities, Create(a) PROVE ArgInv'
  BY <1>1
     DEF Create, TypeOK, ArgInv, platform, statics, calls, threads, ghosts
<1>2. ASSUME Destroy PROVE ArgInv'
  BY <1>2
     DEF Destroy, TypeOK, ArgInv, platform, statics, calls, threads, ghosts
<1>3. ASSUME NEW t \in Threads, Return(t)
      PROVE  ArgInv'
  BY <1>3
     DEF Return, TypeOK, ArgInv, platform, statics, calls, threads, ghosts
<1>4. ASSUME NEW t \in Threads, TableFull(t)
      PROVE  ArgInv'
  BY <1>4
     DEF TableFull, Abort, TypeOK, ArgInv, platform, statics, calls, threads,
         ghosts
<1>5. ASSUME NEW t \in Threads, GetActivity(t)
      PROVE  ArgInv'
  BY <1>5
     DEF GetActivity, Missing, Enter, Begin, Goto, TypeOK, ArgInv, platform, statics,
         calls, threads, ghosts
<1>6. ASSUME NEW t \in Threads, FindActivity(t)
      PROVE  ArgInv'
  BY <1>6
     DEF FindActivity, Done, Goto, Ref, TypeOK, ArgInv, platform, statics,
         calls, threads, ghosts
<1>7. ASSUME NEW t \in Threads, NEW l \in Locks, AcquireNew(t, l)
      PROVE  ArgInv'
  BY <1>7
     DEF AcquireNew, Enter, Begin, Goto, TypeOK, ArgInv, platform, statics,
         calls, threads, ghosts
<1>8. ASSUME NEW t \in Threads, StoreLock(t)
      PROVE  ArgInv'
  BY <1>8
     DEF StoreLock, Ref, Goto, TypeOK, ArgInv, platform, statics, calls,
         threads, ghosts
<1>9. ASSUME NEW t \in Threads, AcquireAgain(t)
      PROVE  ArgInv'
  BY <1>9
     DEF AcquireAgain, Enter, Begin, Goto, TypeOK, ArgInv, platform, statics,
         calls, threads, ghosts
<1>10. ASSUME NEW t \in Threads, Hold(t)
      PROVE  ArgInv'
  BY <1>10
     DEF Hold, Usable, Done, Goto, TypeOK, ArgInv, platform, statics, calls,
         threads, ghosts
<1>11. ASSUME NEW t \in Threads, Release(t)
      PROVE  ArgInv'
  BY <1>11
     DEF Release, ReleaseAt, Enter, Begin, Goto, TypeOK, ArgInv, platform, statics, calls,
         threads, ghosts
<1>12. ASSUME NEW t \in Threads, Unhold(t)
      PROVE  ArgInv'
  BY <1>12
     DEF Unhold, Usable, Goto, TypeOK, ArgInv, platform, statics, calls,
         threads, ghosts
<1>13. ASSUME NEW t \in Threads, DeleteRef(t)
      PROVE  ArgInv'
  BY <1>13
     DEF DeleteRef, Deleted, Usable, Goto, TypeOK, ArgInv, platform, statics, calls,
         threads, ghosts
<1>14. ASSUME NEW t \in Threads, ClearLock(t)
      PROVE  ArgInv'
  BY <1>14
     DEF ClearLock, Done, Goto, TypeOK, ArgInv, platform, statics, calls,
         threads, ghosts
<1>15. ASSUME NEW t \in Threads, LockGone(t)
      PROVE  ArgInv'
  BY <1>15
     DEF LockGone, Usable, Done, Abort, Goto, TypeOK, ArgInv, platform,
         statics, calls, threads, ghosts
<1>16. ASSUME NEW t \in Threads, GetAddress(t)
      PROVE  ArgInv'
  BY <1>16
     DEF GetAddress, Enter, Begin, Goto, TypeOK, ArgInv, platform, statics,
         calls, threads, ghosts
<1>17. ASSUME NEW t \in Threads, NEW a \in Addresses \cup {None}, Parse(t, a)
      PROVE  ArgInv'
  BY <1>17
     DEF Parse, Goto, TypeOK, ArgInv, platform, statics, calls, threads, ghosts
<1>18. ASSUME NEW t \in Threads, Test(t)
      PROVE  ArgInv'
  BY <1>18
     DEF Test, Goto, TypeOK, ArgInv, platform, statics, calls, threads, ghosts
<1>19. ASSUME NEW t \in Threads, Answer(t)
      PROVE  ArgInv'
  BY <1>19
     DEF Answer, Done, Goto, TypeOK, ArgInv, platform, statics, calls, threads,
         ghosts
<1>20. ASSUME NEW t \in Threads, NEW q \in Queries, Query(t, q)
      PROVE  ArgInv'
  BY <1>20
     DEF Query, Enter, Abort, Unguarded, Queries, TypeOK, ArgInv, platform,
         statics, calls, threads, ghosts
<1>21. ASSUME UNCHANGED vars PROVE ArgInv'
  BY <1>21 DEF TypeOK, ArgInv, vars, platform, statics, calls, threads, ghosts
<1>. QED
  BY <1>1, <1>2, <1>3, <1>4, <1>5, <1>6, <1>7, <1>8, <1>9, <1>10, <1>11, <1>12,
     <1>13, <1>14, <1>15, <1>16, <1>17, <1>18, <1>19, <1>20, <1>21
     DEF Next, Application, Thread, Aborted

(* Found once, the activity is kept.                                       *)
LEMMA ActivityStep ==
  ASSUME TypeOK, ArgInv, ActivityInv, [Next]_vars PROVE ActivityInv'
<1>1. ASSUME NEW a \in Activities, Create(a) PROVE ActivityInv'
  BY <1>1, Constants
     DEF Create, TypeOK, ArgInv, ActivityInv, Alone, Busy, Finding, Objects,
         platform, statics, calls, threads, ghosts
<1>2. ASSUME Destroy PROVE ActivityInv'
  BY <1>2, Constants
     DEF Destroy, TypeOK, ArgInv, ActivityInv, Alone, Busy, Finding, Objects,
         platform, statics, calls, threads, ghosts
<1>3. ASSUME NEW t \in Threads, Return(t)
      PROVE  ActivityInv'
  BY <1>3, Constants
     DEF Return, TypeOK, ArgInv, ActivityInv, Alone, Busy, Finding, Objects,
         platform, statics, calls, threads, ghosts
<1>4. ASSUME NEW t \in Threads, TableFull(t)
      PROVE  ActivityInv'
  BY <1>4, Constants
     DEF TableFull, Abort, TypeOK, ArgInv, ActivityInv, Alone, Busy, Finding,
         Objects, platform, statics, calls, threads, ghosts
<1>5. ASSUME NEW t \in Threads, GetActivity(t)
      PROVE  ActivityInv'
  BY <1>5, Constants
     DEF GetActivity, Missing, Enter, Begin, Goto, TypeOK, ArgInv, ActivityInv, Alone,
         Busy, Finding, Objects, platform, statics, calls, threads, ghosts
<1>6. ASSUME NEW t \in Threads, FindActivity(t)
      PROVE  ActivityInv'
  <2>. SUFFICES ASSUME "activity" \notin raced PROVE ActivityInv'
    BY <1>6 DEF ActivityInv, FindActivity, ghosts
  <2>1. \A u \in Threads : pc'[u] # "find"
    BY <1>6 DEF FindActivity, Done, Goto, TypeOK, ActivityInv, Alone, Finding
  <2>2. \A a \in Activities : refs[a] = 0
    BY <1>6, Constants
       DEF FindActivity, ActivityInv, Busy, Finding, Objects
  <2>3. ASSUME NEW a \in Activities
        PROVE  refs'[a] = IF a = main THEN 1 ELSE 0
    <3>1. CASE main = None
      BY <1>6, <2>2, <3>1, Constants DEF FindActivity, Objects
    <3>2. CASE main # None
      <4>1. refs \in [Objects -> Nat] /\ a \in Objects /\ main \in Objects
        BY <3>2 DEF TypeOK, Objects
      <4>. QED
        BY <1>6, <2>2, <3>2, <4>1 DEF FindActivity, Ref
    <3>. QED
      BY <3>1, <3>2
  <2>. QED
    BY <1>6, <2>1, <2>3
       DEF FindActivity, ActivityInv, Alone, Busy, Finding
<1>7. ASSUME NEW t \in Threads, NEW l \in Locks, AcquireNew(t, l)
      PROVE  ActivityInv'
  BY <1>7, Constants
     DEF AcquireNew, Enter, Begin, Goto, TypeOK, ArgInv, ActivityInv, Alone,
         Busy, Finding, Objects, platform, statics, calls, threads, ghosts
<1>8. ASSUME NEW t \in Threads, StoreLock(t)
      PROVE  ActivityInv'
  BY <1>8, Constants
     DEF StoreLock, Ref, Goto, TypeOK, ArgInv, ActivityInv, Alone, Busy,
         Finding, Objects, platform, statics, calls, threads, ghosts
<1>9. ASSUME NEW t \in Threads, AcquireAgain(t)
      PROVE  ActivityInv'
  BY <1>9, Constants
     DEF AcquireAgain, Enter, Begin, Goto, TypeOK, ArgInv, ActivityInv, Alone,
         Busy, Finding, Objects, platform, statics, calls, threads, ghosts
<1>10. ASSUME NEW t \in Threads, Hold(t)
      PROVE  ActivityInv'
  BY <1>10, Constants
     DEF Hold, Usable, Done, Goto, TypeOK, ArgInv, ActivityInv, Alone, Busy,
         Finding, Objects, platform, statics, calls, threads, ghosts
<1>11. ASSUME NEW t \in Threads, Release(t)
      PROVE  ActivityInv'
  BY <1>11, Constants
     DEF Release, ReleaseAt, Enter, Begin, Goto, TypeOK, ArgInv, ActivityInv, Alone, Busy,
         Finding, Objects, platform, statics, calls, threads, ghosts
<1>12. ASSUME NEW t \in Threads, Unhold(t)
      PROVE  ActivityInv'
  BY <1>12, Constants
     DEF Unhold, Usable, Goto, TypeOK, ArgInv, ActivityInv, Alone, Busy,
         Finding, Objects, platform, statics, calls, threads, ghosts
<1>13. ASSUME NEW t \in Threads, DeleteRef(t)
      PROVE  ActivityInv'
  BY <1>13, Constants
     DEF DeleteRef, Deleted, Usable, Goto, TypeOK, ArgInv, ActivityInv, Alone, Busy,
         Finding, Objects, platform, statics, calls, threads, ghosts
<1>14. ASSUME NEW t \in Threads, ClearLock(t)
      PROVE  ActivityInv'
  BY <1>14, Constants
     DEF ClearLock, Done, Goto, TypeOK, ArgInv, ActivityInv, Alone, Busy,
         Finding, Objects, platform, statics, calls, threads, ghosts
<1>15. ASSUME NEW t \in Threads, LockGone(t)
      PROVE  ActivityInv'
  BY <1>15, Constants
     DEF LockGone, Usable, Done, Abort, Goto, TypeOK, ArgInv, ActivityInv,
         Alone, Busy, Finding, Objects, platform, statics, calls, threads,
         ghosts
<1>16. ASSUME NEW t \in Threads, GetAddress(t)
      PROVE  ActivityInv'
  BY <1>16, Constants
     DEF GetAddress, Enter, Begin, Goto, TypeOK, ArgInv, ActivityInv, Alone,
         Busy, Finding, Objects, platform, statics, calls, threads, ghosts
<1>17. ASSUME NEW t \in Threads, NEW a \in Addresses \cup {None}, Parse(t, a)
      PROVE  ActivityInv'
  BY <1>17, Constants
     DEF Parse, Goto, TypeOK, ArgInv, ActivityInv, Alone, Busy, Finding,
         Objects, platform, statics, calls, threads, ghosts
<1>18. ASSUME NEW t \in Threads, Test(t)
      PROVE  ActivityInv'
  BY <1>18, Constants
     DEF Test, Goto, TypeOK, ArgInv, ActivityInv, Alone, Busy, Finding,
         Objects, platform, statics, calls, threads, ghosts
<1>19. ASSUME NEW t \in Threads, Answer(t)
      PROVE  ActivityInv'
  BY <1>19, Constants
     DEF Answer, Done, Goto, TypeOK, ArgInv, ActivityInv, Alone, Busy, Finding,
         Objects, platform, statics, calls, threads, ghosts
<1>20. ASSUME NEW t \in Threads, NEW q \in Queries, Query(t, q)
      PROVE  ActivityInv'
  BY <1>20, Constants
     DEF Query, Enter, Abort, Unguarded, Queries, TypeOK, ArgInv, ActivityInv,
         Alone, Busy, Finding, Objects, platform, statics, calls, threads,
         ghosts
<1>21. ASSUME UNCHANGED vars PROVE ActivityInv'
  BY <1>21 DEF TypeOK, ArgInv, ActivityInv, Alone, Busy, Finding, Objects,
     vars, platform, statics, calls, threads, ghosts
<1>. QED
  BY <1>1, <1>2, <1>3, <1>4, <1>5, <1>6, <1>7, <1>8, <1>9, <1>10, <1>11, <1>12,
     <1>13, <1>14, <1>15, <1>16, <1>17, <1>18, <1>19, <1>20, <1>21
     DEF Next, Application, Thread, Aborted

(* Only acquire and release change what is held.                           *)
LEMMA NestedStep ==
  ASSUME TypeOK, NestedInv, [Next]_vars PROVE NestedInv'
<1>1. ASSUME NEW t \in Threads, Hold(t) PROVE NestedInv'
  <2>1. lock \in Locks /\ held[lock] \in Nat
    BY <1>1, HeldType DEF Hold, Usable, TypeOK
  <2>2. \A l \in Locks : held'[l] = IF l = lock THEN held[l] + 1 ELSE held[l]
    BY <1>1, <2>1 DEF Hold, TypeOK
  <2>. QED
    BY <1>1, <2>1, <2>2 DEF Hold, NestedInv
<1>2. ASSUME NEW t \in Threads, Unhold(t) PROVE NestedInv'
  <2>1. lock \in Locks /\ \A l \in Locks : held[l] \in Nat
    BY <1>2, HeldType DEF Unhold, Usable, TypeOK
  <2>2. \A l \in Locks : held'[l] \in Nat /\ held'[l] <= held[l]
    BY <1>2, <2>1, HeldType DEF Unhold
  <2>. QED
    BY <1>2, <2>1, <2>2 DEF Unhold, NestedInv, ghosts
<1>3. ASSUME UNCHANGED << held, nested >> PROVE NestedInv'
  BY <1>3 DEF NestedInv
<1>. QED
  BY <1>1, <1>2, <1>3
     DEF Next, Application, Thread, Aborted, vars, Create, Destroy, Return,
         TableFull, GetActivity, Missing, FindActivity, AcquireNew, StoreLock,
         AcquireAgain, Release, ReleaseAt, DeleteRef, Deleted, ClearLock, LockGone, GetAddress,
         Parse, Test, Answer, Query, Begin, Abort, platform, ghosts

(* What is about to be copied passed the test, unless another call asks.   *)
LEMMA AddressStep ==
  ASSUME TypeOK, AddressInv, [Next]_vars PROVE AddressInv'
<1>1. ASSUME NEW a \in Activities, Create(a) PROVE AddressInv'
  BY <1>1
     DEF Create, TypeOK, AddressInv, Alone, Busy, Asking, platform, statics,
         calls, threads, ghosts
<1>2. ASSUME Destroy PROVE AddressInv'
  BY <1>2
     DEF Destroy, TypeOK, AddressInv, Alone, Busy, Asking, platform, statics,
         calls, threads, ghosts
<1>3. ASSUME NEW t \in Threads, Return(t)
      PROVE  AddressInv'
  BY <1>3
     DEF Return, TypeOK, AddressInv, Alone, Busy, Asking, platform, statics,
         calls, threads, ghosts
<1>4. ASSUME NEW t \in Threads, TableFull(t)
      PROVE  AddressInv'
  BY <1>4
     DEF TableFull, Abort, TypeOK, AddressInv, Alone, Busy, Asking, platform,
         statics, calls, threads, ghosts
<1>5. ASSUME NEW t \in Threads, GetActivity(t)
      PROVE  AddressInv'
  BY <1>5
     DEF GetActivity, Missing, Enter, Begin, Goto, TypeOK, AddressInv, Alone, Busy,
         Asking, platform, statics, calls, threads, ghosts
<1>6. ASSUME NEW t \in Threads, FindActivity(t)
      PROVE  AddressInv'
  BY <1>6
     DEF FindActivity, Done, Goto, Ref, TypeOK, AddressInv, Alone, Busy,
         Asking, platform, statics, calls, threads, ghosts
<1>7. ASSUME NEW t \in Threads, NEW l \in Locks, AcquireNew(t, l)
      PROVE  AddressInv'
  BY <1>7
     DEF AcquireNew, Enter, Begin, Goto, TypeOK, AddressInv, Alone, Busy,
         Asking, platform, statics, calls, threads, ghosts
<1>8. ASSUME NEW t \in Threads, StoreLock(t)
      PROVE  AddressInv'
  BY <1>8
     DEF StoreLock, Ref, Goto, TypeOK, AddressInv, Alone, Busy, Asking,
         platform, statics, calls, threads, ghosts
<1>9. ASSUME NEW t \in Threads, AcquireAgain(t)
      PROVE  AddressInv'
  BY <1>9
     DEF AcquireAgain, Enter, Begin, Goto, TypeOK, AddressInv, Alone, Busy,
         Asking, platform, statics, calls, threads, ghosts
<1>10. ASSUME NEW t \in Threads, Hold(t)
      PROVE  AddressInv'
  BY <1>10
     DEF Hold, Usable, Done, Goto, TypeOK, AddressInv, Alone, Busy, Asking,
         platform, statics, calls, threads, ghosts
<1>11. ASSUME NEW t \in Threads, Release(t)
      PROVE  AddressInv'
  BY <1>11
     DEF Release, ReleaseAt, Enter, Begin, Goto, TypeOK, AddressInv, Alone, Busy, Asking,
         platform, statics, calls, threads, ghosts
<1>12. ASSUME NEW t \in Threads, Unhold(t)
      PROVE  AddressInv'
  BY <1>12
     DEF Unhold, Usable, Goto, TypeOK, AddressInv, Alone, Busy, Asking,
         platform, statics, calls, threads, ghosts
<1>13. ASSUME NEW t \in Threads, DeleteRef(t)
      PROVE  AddressInv'
  BY <1>13
     DEF DeleteRef, Deleted, Usable, Goto, TypeOK, AddressInv, Alone, Busy, Asking,
         platform, statics, calls, threads, ghosts
<1>14. ASSUME NEW t \in Threads, ClearLock(t)
      PROVE  AddressInv'
  BY <1>14
     DEF ClearLock, Done, Goto, TypeOK, AddressInv, Alone, Busy, Asking,
         platform, statics, calls, threads, ghosts
<1>15. ASSUME NEW t \in Threads, LockGone(t)
      PROVE  AddressInv'
  BY <1>15
     DEF LockGone, Usable, Done, Abort, Goto, TypeOK, AddressInv, Alone, Busy,
         Asking, platform, statics, calls, threads, ghosts
<1>16. ASSUME NEW t \in Threads, GetAddress(t)
      PROVE  AddressInv'
  <2>. SUFFICES ASSUME "address" \notin raced' PROVE AddressInv'
    BY DEF AddressInv
  <2>1. "address" \notin raced /\ ~Busy(Asking)
    BY <1>16 DEF GetAddress, Begin, TypeOK
  <2>2. /\ \A u \in Threads : u # t => pc'[u] = pc[u] /\ pc[u] \notin Asking
        /\ pc'[t] # "test" /\ (pc'[t] = "copy" => sdk < 31) /\ sdk' = sdk
        /\ sdk \in Nat
    <3>1. pc \in [Threads -> Points] /\ sdk \in Nat
      BY ServicesAssumption DEF TypeOK
    <3>2. \A u \in Threads : pc[u] \notin Asking
      BY <2>1 DEF Busy
    <3>. QED
      BY <1>16, <3>1, <3>2 DEF GetAddress, Begin, Goto, platform
  <2>3. \A u \in Threads : pc'[u] # "test" /\ (pc'[u] \in Asking => u = t)
    BY <2>2 DEF Asking
  <2>4. \A u \in Threads : pc'[u] = "copy" => ~(sdk' >= 31)
    BY <2>2, <2>3 DEF Asking
  <2>. QED
    BY <2>3, <2>4 DEF AddressInv, Alone
<1>17. ASSUME NEW t \in Threads, NEW a \in Addresses \cup {None}, Parse(t, a)
      PROVE  AddressInv'
  BY <1>17
     DEF Parse, Goto, TypeOK, AddressInv, Alone, Busy, Asking, platform,
         statics, calls, threads, ghosts
<1>18. ASSUME NEW t \in Threads, Test(t)
      PROVE  AddressInv'
  BY <1>18
     DEF Test, Goto, TypeOK, AddressInv, Alone, Busy, Asking, platform,
         statics, calls, threads, ghosts
<1>19. ASSUME NEW t \in Threads, Answer(t)
      PROVE  AddressInv'
  BY <1>19
     DEF Answer, Done, Goto, TypeOK, AddressInv, Alone, Busy, Asking, platform,
         statics, calls, threads, ghosts
<1>20. ASSUME NEW t \in Threads, NEW q \in Queries, Query(t, q)
      PROVE  AddressInv'
  BY <1>20
     DEF Query, Enter, Abort, Unguarded, Queries, TypeOK, AddressInv, Alone,
         Busy, Asking, platform, statics, calls, threads, ghosts
<1>21. ASSUME UNCHANGED vars PROVE AddressInv'
  BY <1>21 DEF TypeOK, AddressInv, Alone, Busy, Asking, vars, platform,
     statics, calls, threads, ghosts
<1>. QED
  BY <1>1, <1>2, <1>3, <1>4, <1>5, <1>6, <1>7, <1>8, <1>9, <1>10, <1>11, <1>12,
     <1>13, <1>14, <1>15, <1>16, <1>17, <1>18, <1>19, <1>20, <1>21
     DEF Next, Application, Thread, Aborted

(* Each step of acquire and release leaves the lock in a known shape.      *)
LEMMA LockStep ==
  ASSUME TypeOK, ArgInv, LockInv, NestedInv, [Next]_vars PROVE LockInv'
<1>1. ASSUME NEW a \in Activities, Create(a) PROVE LockInv'
  BY <1>1, Constants
     DEF Create, TypeOK, ArgInv, LockInv, LockShape, NestedInv, Alone, Busy,
         Locking, Objects, platform, statics, calls, threads, ghosts
<1>2. ASSUME Destroy PROVE LockInv'
  BY <1>2, Constants
     DEF Destroy, TypeOK, ArgInv, LockInv, LockShape, NestedInv, Alone, Busy,
         Locking, Objects, platform, statics, calls, threads, ghosts
<1>3. ASSUME NEW t \in Threads, Return(t)
      PROVE  LockInv'
  BY <1>3, Constants
     DEF Return, TypeOK, ArgInv, LockInv, LockShape, NestedInv, Alone, Busy,
         Locking, Objects, platform, statics, calls, threads, ghosts
<1>4. ASSUME NEW t \in Threads, TableFull(t)
      PROVE  LockInv'
  BY <1>4, Constants
     DEF TableFull, Abort, TypeOK, ArgInv, LockInv, LockShape, NestedInv,
         Alone, Busy, Locking, Objects, platform, statics, calls, threads,
         ghosts
<1>5. ASSUME NEW t \in Threads, GetActivity(t)
      PROVE  LockInv'
  BY <1>5, Constants
     DEF GetActivity, Missing, Enter, Begin, Goto, TypeOK, ArgInv, LockInv, LockShape,
         NestedInv, Alone, Busy, Locking, Objects, platform, statics, calls,
         threads, ghosts
<1>6. ASSUME NEW t \in Threads, FindActivity(t)
      PROVE  LockInv'
  <2>. SUFFICES ASSUME "lock" \notin raced PROVE LockInv'
    BY <1>6 DEF LockInv, FindActivity, ghosts
  <2>1. \A u \in Threads, p \in Locking : pc'[u] = p <=> pc[u] = p
    BY <1>6 DEF FindActivity, Done, Goto, TypeOK, Locking
  <2>2. \A l \in Locks : refs'[l] = refs[l]
    BY <1>6, Constants DEF FindActivity, Ref, TypeOK, Objects
  <2>. QED
    BY <1>6, <2>1, <2>2
       DEF FindActivity, LockInv, LockShape, Alone, Busy, Locking, platform,
           ghosts
<1>7. ASSUME NEW t \in Threads, NEW l \in Locks, AcquireNew(t, l)
      PROVE  LockInv'
  BY <1>7, Constants
     DEF AcquireNew, Enter, Begin, Goto, TypeOK, ArgInv, LockInv, LockShape,
         NestedInv, Alone, Busy, Locking, Objects, platform, statics, calls,
         threads, ghosts
<1>8. ASSUME NEW t \in Threads, StoreLock(t)
      PROVE  LockInv'
  <2>. SUFFICES ASSUME "lock" \notin raced PROVE LockInv'
    BY <1>8 DEF LockInv, StoreLock, ghosts
  <2>1. /\ \A u \in Threads : pc'[u] = (IF u = t THEN "hold" ELSE pc[u])
        /\ arg[t] \in Locks /\ arg[t] # None /\ lock = None
    BY <1>8, Constants
       DEF StoreLock, Goto, TypeOK, ArgInv, LockInv, LockShape, Busy, Objects
  <2>2. \A u \in Threads : u # t => pc[u] \notin Locking
    BY <1>8 DEF StoreLock, LockInv, Alone, Locking
  <2>3. \A l \in Locks : refs[l] = 0 /\ (held[l] > 0 => l \in nested)
    BY <2>1, Constants DEF LockInv, LockShape, Objects
  <2>4. \A l \in Locks : refs'[l] = IF l = arg[t] THEN 1 ELSE 0
    <3>1. refs \in [Objects -> Nat] /\ Locks \subseteq Objects
      BY DEF TypeOK, Objects
    <3>. QED
      BY <1>8, <2>1, <2>3, <3>1 DEF StoreLock, Ref
  <2>. QED
    BY <1>8, <2>1, <2>2, <2>3, <2>4
       DEF StoreLock, LockInv, LockShape, Alone, Busy, Locking, platform,
           ghosts
<1>9. ASSUME NEW t \in Threads, AcquireAgain(t)
      PROVE  LockInv'
  BY <1>9, Constants
     DEF AcquireAgain, Enter, Begin, Goto, TypeOK, ArgInv, LockInv, LockShape,
         NestedInv, Alone, Busy, Locking, Objects, platform, statics, calls,
         threads, ghosts
<1>10. ASSUME NEW t \in Threads, Hold(t)
      PROVE  LockInv'
  <2>. SUFFICES ASSUME "lock" \notin raced PROVE LockInv'
    BY <1>10 DEF LockInv, Hold, ghosts
  <2>1. /\ \A u \in Threads : pc'[u] = (IF u = t THEN "idle" ELSE pc[u])
        /\ lock \in Locks /\ lock # None /\ held[lock] \in Nat
    BY <1>10, HeldType DEF Hold, Usable, Done, Goto, TypeOK
  <2>2. \A u \in Threads : u # t => pc[u] \notin Locking
    BY <1>10 DEF Hold, LockInv, Alone, Locking
  <2>3. \A l \in Locks : refs[l] = IF l = lock THEN 1 ELSE 0
    BY <1>10, <2>2 DEF Hold, LockInv, LockShape, Busy, Locking
  <2>4. \A l \in Locks : held'[l] = IF l = lock THEN held[l] + 1 ELSE held[l]
    BY <1>10, <2>1 DEF Hold, TypeOK
  <2>5. \A u \in Threads : pc'[u] \notin Locking
    BY <2>1, <2>2 DEF Locking
  <2>6. \A l \in Locks : held'[l] > 0 => l \in nested' \/ l = lock
    BY <1>10, <2>1, <2>4 DEF Hold, LockInv, LockShape
  <2>. QED
    BY <1>10, <2>1, <2>3, <2>4, <2>5, <2>6
       DEF Hold, LockInv, LockShape, Alone, Busy, Locking, statics
<1>11. ASSUME NEW t \in Threads, Release(t)
      PROVE  LockInv'
  BY <1>11, Constants
     DEF Release, ReleaseAt, Enter, Begin, Goto, TypeOK, ArgInv, LockInv, LockShape,
         NestedInv, Alone, Busy, Locking, Objects, platform, statics, calls,
         threads, ghosts
<1>12. ASSUME NEW t \in Threads, Unhold(t)
      PROVE  LockInv'
  <2>. SUFFICES ASSUME "lock" \notin raced PROVE LockInv'
    BY <1>12 DEF LockInv, Unhold, ghosts
  <2>1. /\ \A u \in Threads : pc'[u] = (IF u = t THEN "delete" ELSE pc[u])
        /\ lock \in Locks /\ lock # None /\ pc'[t] = "delete"
        /\ \A l \in Locks : held[l] \in Nat
    BY <1>12, HeldType DEF Unhold, Usable, Goto, TypeOK
  <2>2. \A u \in Threads : u # t => pc'[u] \notin Locking
    BY <1>12, <2>1 DEF Unhold, LockInv, Alone, Locking
  <2>3. \A l \in Locks : refs[l] = IF l = lock THEN 1 ELSE 0
    BY <1>12, <2>1, <2>2 DEF Unhold, LockInv, LockShape, Busy, Locking
  <2>4. ASSUME NEW l \in Locks, held'[l] > 0 PROVE l \in nested
    <3>1. CASE l = lock
      BY <1>12, <2>1, <2>4, <3>1, HeldType DEF Unhold, NestedInv
    <3>2. CASE l # lock
      BY <1>12, <2>1, <2>4, <3>2 DEF Unhold, TypeOK, LockInv, LockShape
    <3>. QED
      BY <3>1, <3>2
  <2>. QED
    BY <1>12, <2>1, <2>2, <2>3, <2>4
       DEF Unhold, LockInv, LockShape, Alone, Busy, Locking, statics, ghosts
<1>13. ASSUME NEW t \in Threads, DeleteRef(t)
      PROVE  LockInv'
  <2>. SUFFICES ASSUME "lock" \notin raced PROVE LockInv'
    BY <1>13 DEF LockInv, DeleteRef, Deleted, ghosts
  <2>1. /\ \A u \in Threads : pc'[u] = (IF u = t THEN "clear" ELSE pc[u])
        /\ pc'[t] = "clear" /\ pc[t] = "delete"
    BY <1>13 DEF DeleteRef, Deleted, Goto, TypeOK
  <2>2. \A u \in Threads : u # t => pc[u] \notin Locking
    BY <2>1 DEF LockInv, Alone, Locking
  <2>3. lock # None /\ lock \in Locks /\ lock \in Objects
    BY <2>1 DEF LockInv, LockShape, Busy, TypeOK, Objects
  <2>4. \A l \in Locks : refs[l] = IF l = lock THEN 1 ELSE 0
    BY <2>1, <2>2 DEF LockInv, LockShape, Busy, Locking
  <2>5. \A l \in Locks : refs'[l] = 0
    <3>1. refs \in [Objects -> Nat] /\ Locks \subseteq Objects
      BY DEF TypeOK, Objects
    <3>. QED
      BY <1>13, <2>3, <2>4, <3>1 DEF DeleteRef, Deleted
  <2>6. \A l \in Locks : held[l] > 0 => l \in nested
    BY <2>1 DEF LockInv, LockShape, Busy
  <2>. QED
    BY <1>13, <2>1, <2>2, <2>3, <2>5, <2>6
       DEF DeleteRef, Deleted, LockInv, LockShape, Alone, Busy, Locking, platform,
           statics, ghosts
<1>14. ASSUME NEW t \in Threads, ClearLock(t)
      PROVE  LockInv'
  BY <1>14, Constants
     DEF ClearLock, Done, Goto, TypeOK, ArgInv, LockInv, LockShape, NestedInv,
         Alone, Busy, Locking, Objects, platform, statics, calls, threads,
         ghosts
<1>15. ASSUME NEW t \in Threads, LockGone(t)
      PROVE  LockInv'
  BY <1>15, Constants
     DEF LockGone, Usable, Done, Abort, Goto, TypeOK, ArgInv, LockInv,
         LockShape, NestedInv, Alone, Busy, Locking, Objects, platform,
         statics, calls, threads, ghosts
<1>16. ASSUME NEW t \in Threads, GetAddress(t)
      PROVE  LockInv'
  <2>1. \A u \in Threads, p \in Locking : pc'[u] = p <=> pc[u] = p
    BY <1>16 DEF GetAddress, Enter, Begin, Goto, TypeOK, Locking
  <2>2. "lock" \in raced' <=> "lock" \in raced
    BY <1>16 DEF GetAddress, Begin
  <2>3. UNCHANGED << lock, refs, held, nested >>
    BY <1>16 DEF GetAddress, Begin, platform
  <2>. QED
    BY <2>1, <2>2, <2>3 DEF LockInv, LockShape, Alone, Busy, Locking
<1>17. ASSUME NEW t \in Threads, NEW a \in Addresses \cup {None}, Parse(t, a)
      PROVE  LockInv'
  BY <1>17, Constants
     DEF Parse, Goto, TypeOK, ArgInv, LockInv, LockShape, NestedInv, Alone,
         Busy, Locking, Objects, platform, statics, calls, threads, ghosts
<1>18. ASSUME NEW t \in Threads, Test(t)
      PROVE  LockInv'
  <2>1. \A u \in Threads, p \in Locking : pc'[u] = p <=> pc[u] = p
    BY <1>18 DEF Test, Goto, TypeOK, Locking
  <2>. QED
    BY <1>18, <2>1
       DEF Test, LockInv, LockShape, Alone, Busy, Locking, platform, ghosts
<1>19. ASSUME NEW t \in Threads, Answer(t)
      PROVE  LockInv'
  BY <1>19, Constants
     DEF Answer, Done, Goto, TypeOK, ArgInv, LockInv, LockShape, NestedInv,
         Alone, Busy, Locking, Objects, platform, statics, calls, threads,
         ghosts
<1>20. ASSUME NEW t \in Threads, NEW q \in Queries, Query(t, q)
      PROVE  LockInv'
  BY <1>20, Constants
     DEF Query, Enter, Abort, Unguarded, Queries, TypeOK, ArgInv, LockInv,
         LockShape, NestedInv, Alone, Busy, Locking, Objects, platform,
         statics, calls, threads, ghosts
<1>21. ASSUME UNCHANGED vars PROVE LockInv'
  BY <1>21 DEF TypeOK, ArgInv, LockInv, LockShape, NestedInv, Alone, Busy,
     Locking, Objects, vars, platform, statics, calls, threads, ghosts
<1>. QED
  BY <1>1, <1>2, <1>3, <1>4, <1>5, <1>6, <1>7, <1>8, <1>9, <1>10, <1>11, <1>12,
     <1>13, <1>14, <1>15, <1>16, <1>17, <1>18, <1>19, <1>20, <1>21
     DEF Next, Application, Thread, Aborted

(* The platform ends the process for no other reason.                      *)
LEMMA AbortStep ==
  ASSUME TypeOK, LockInv, AbortOnlyKnown, [Next]_vars PROVE AbortOnlyKnown'
<1>1. CASE aborted # "no"
  <2>1. UNCHANGED << sdk, instance, locals, aborted, raced >>
    BY <1>1 DEF Next, Aborted, vars, platform, statics, threads, ghosts
  <2>. QED
    BY <2>1 DEF AbortOnlyKnown
<1>2. CASE aborted = "no"
  <2>1. ASSUME NEW t \in Threads, TableFull(t) PROVE AbortOnlyKnown'
    BY <2>1 DEF TableFull, Abort, AbortOnlyKnown, platform
  <2>2. ASSUME NEW t \in Threads, LockGone(t) PROVE AbortOnlyKnown'
    <3>. SUFFICES ASSUME aborted' = "lock" PROVE "lock" \in raced'
      BY <1>2, <2>2 DEF LockGone, Abort, AbortOnlyKnown
    <3>1. SUFFICES ASSUME "lock" \notin raced PROVE FALSE
      BY <1>2, <2>2 DEF LockGone, Abort, ghosts
    <3>2. pc[t] \in {"hold", "unhold", "delete"} /\ ~Usable
      BY <2>2 DEF LockGone
    <3>3. lock # None /\ lock \in Locks
      BY <3>1, <3>2 DEF LockInv, LockShape, Busy, TypeOK
    <3>4. \A u \in Threads : pc[u] # "clear"
      BY <3>1, <3>2 DEF LockInv, Alone, Locking
    <3>. QED
      BY <3>1, <3>2, <3>3, <3>4 DEF LockInv, LockShape, Busy, Usable
  <2>3. ASSUME NEW t \in Threads, NEW q \in Queries, Query(t, q)
        PROVE  AbortOnlyKnown'
    BY <1>2, <2>3
       DEF Query, Unguarded, Abort, AbortOnlyKnown, statics
  <2>4. ASSUME aborted' = aborted PROVE AbortOnlyKnown'
    BY <1>2, <2>4 DEF AbortOnlyKnown
  <2>. QED
    BY <1>2, <2>1, <2>2, <2>3, <2>4
       DEF Next, Application, Thread, Aborted, vars, Create, Destroy, Return,
           GetActivity, Missing, FindActivity, AcquireNew, StoreLock, AcquireAgain,
           Hold, Release, ReleaseAt, Unhold, DeleteRef, Deleted, ClearLock, GetAddress, Parse,
           Test, Answer
<1>. QED
  BY <1>1, <1>2

-----------------------------------------------------------------------------
(* The inductive invariant holds, of every behaviour.                      *)
THEOREM ServicesInductive == Spec => []IInv
<1>1. Init => IInv
  <2>. SUFFICES ASSUME Init PROVE IInv
    OBVIOUS
  <2>1. /\ TypeOK
        /\ \A points : "idle" \notin points => ~Busy(points) /\ Alone(points)
    BY Constants DEF Init, TypeOK, Points, Busy, Alone, Objects
  <2>2. "idle" \notin Finding \cup Locking \cup Asking
    BY DEF Finding, Locking, Asking
  <2>. QED
    BY <2>1, <2>2, Constants
       DEF Init, IInv, ArgInv, NestedInv, ActivityInv, LockInv, LockShape,
           AddressInv, AbortOnlyKnown, Objects
<1>2. IInv /\ [Next]_vars => IInv'
  BY TypeStep, ArgStep, NestedStep, ActivityStep, LockStep, AddressStep,
     AbortStep DEF IInv
<1>. QED
  BY <1>1, <1>2, PTL DEF Spec

(* Type correctness.                                                       *)
THEOREM ServicesType == Spec => []TypeOK
<1>1. IInv => TypeOK
  BY DEF IInv
<1>. QED
  BY <1>1, ServicesInductive, PTL

(* Unless calls overlap, each global reference is held by the static that  *)
(* stands for it: nothing is leaked and nothing dangles                    *)
(* (android/common.c:76-95, android/net.c:250-268, 301-303).               *)
THEOREM ServicesRefsOwned == Spec => []RefsOwned
<1>1. IInv => RefsOwned
  BY DEF IInv, ActivityInv, LockInv, LockShape, RefsOwned, LockQuiet, Busy,
         Locking
<1>. QED
  BY <1>1, ServicesInductive, PTL

(* Unless calls overlap, a lock that is held and that the library no       *)
(* longer has was acquired while it was held (android/net.c:280, 301-303). *)
THEOREM ServicesLostOnlyNested == Spec => []LostOnlyNested
<1>1. IInv => LostOnlyNested
  BY DEF IInv, LockInv, LockShape, LostOnlyNested, LockQuiet, Busy, Locking
<1>. QED
  BY <1>1, ServicesInductive, PTL

(* The platform ends the process for a call on an activity that was not    *)
(* looked up, for overlapping calls on the lock, or for local references   *)
(* that were never deleted, and for nothing else (android/net.c:57-62,     *)
(* android/dirs.c:82-94, android/display.c:42-59,                          *)
(* android/permissions.c:112-118).                                         *)
THEOREM ServicesAbortOnlyKnown == Spec => []AbortOnlyKnown
<1>1. IInv => AbortOnlyKnown
  BY DEF IInv
<1>. QED
  BY <1>1, ServicesInductive, PTL

(* From version 31 on the address returned is in a private range of RFC    *)
(* 1918, unless two threads asked at a time (android/net.c:78-105,         *)
(* 185-201).                                                               *)
THEOREM ServicesAddressPrivate == Spec => []AddressPrivate
<1>1. IInv => AddressPrivate
  <2>. SUFFICES ASSUME IInv, sdk >= 31, "address" \notin raced,
                       NEW t \in Threads, pc[t] = "copy"
                PROVE  LET n == 256 * ip[1] + ip[2]
                       IN  \/ n \in 10 * 256 .. 10 * 256 + 255
                           \/ n \in 172 * 256 + 16 .. 172 * 256 + 31
                           \/ n = 192 * 256 + 168
    BY DEF AddressPrivate, Busy
  <2>1. ip # None /\ private_ip(ip) /\ ip \in Addresses
    BY DEF IInv, AddressInv, TypeOK
  <2>2. ip[1] \in 0 .. 255 /\ ip[2] \in 0 .. 255
    BY <2>1, ServicesAssumption
  <2>. QED
    BY <2>1, <2>2 DEF private_ip
<1>. QED
  BY <1>1, ServicesInductive, PTL
=============================================================================
