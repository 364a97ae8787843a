--------------------------- MODULE AndroidServices ---------------------------
(***************************************************************************)
(* What the Android library keeps for the process beside its cameras: the  *)
(* activity it looked up first (android/common.c), the multicast lock and  *)
(* the text of the last address (android/net.c), all in static variables.  *)
(* Everything else it asks of the platform, permissions, directories, the  *)
(* display, goes through that activity.                                    *)
(*                                                                         *)
(* Threads of the client call at any time: ctypes lets another thread run  *)
(* during a call, and nothing here is locked.  A call that stores in a     *)
(* static variable is split where it tests, uses and stores it.            *)
(***************************************************************************)
EXTENDS Integers

CONSTANTS
    Threads,        \* threads of the client
    JavaThreads,    \* those that return to Java between two calls
    Activities,     \* activities the application goes through
    Locks,          \* locks createMulticastLock may give
    None,           \* the null reference
    Sdks,           \* versions of the platform
    Addresses,      \* IPv4 addresses, by their first two bytes
    MaxHeld,        \* bound: acquisitions the platform counts on a lock
    LocalRefs       \* bound: calls before a thread returns to Java, those
                    \* that fill its table of local references

Objects == Activities \cup Locks

ASSUME ServicesAssumption ==
    /\ JavaThreads \subseteq Threads
    /\ None \notin Objects \cup Addresses
    /\ Activities \cap Locks = {}
    /\ Sdks \subseteq Nat
    /\ Addresses \subseteq (0 .. 255) \X (0 .. 255)
    /\ MaxHeld \in Nat /\ LocalRefs \in Nat

VARIABLES
    sdk,        \* _sdk
    main,       \* the application's activity, in the field it keeps it in
    instance,   \* _activity.instance
    lock,       \* _al_multicast_lock
    ip,         \* _al_ip, None when it is empty
    refs,       \* global references to each object
    held,       \* acquisitions of each lock the platform counts
    pc,         \* per thread: where it is in a call
    arg,        \* per thread: the lock or the address it has in hand
    locals,     \* per thread: calls whose local references remain
    aborted,    \* why the platform ended the process
    raced,      \* ghost: the statics that two calls stored in at a time
    nested      \* ghost: locks acquired again while held

platform == << sdk, held >>
statics == << instance, lock, ip >>
calls == << pc, arg >>
threads == << calls, locals >>
ghosts == << raced, nested >>
vars == << platform, main, statics, refs, threads, aborted, ghosts >>

(* JNI_OnLoad, and statics that are NULL.                                  *)
Init ==
    /\ sdk \in Sdks
    /\ main = None /\ instance = None /\ lock = None /\ ip = None
    /\ refs = [o \in Objects |-> 0]
    /\ held = [l \in Locks |-> 0]
    /\ pc = [t \in Threads |-> "idle"]
    /\ arg = [t \in Threads |-> None]
    /\ locals = [t \in Threads |-> 0]
    /\ aborted = "no"
    /\ raced = {} /\ nested = {}

-----------------------------------------------------------------------------
(* The application: an activity comes, goes, and another comes.            *)

Create(a) ==
    /\ main = None
    /\ main' = a
    /\ UNCHANGED << platform, statics, refs, threads, aborted, ghosts >>

Destroy ==
    /\ main # None
    /\ main' = None
    /\ UNCHANGED << platform, statics, refs, threads, aborted, ghosts >>

(* Local references go when the thread returns to Java; one that was       *)
(* attached by _jnienv, or runs a native main, never does.                 *)
Return(t) ==
    /\ t \in JavaThreads /\ pc[t] = "idle"
    /\ locals' = [locals EXCEPT ![t] = 0]
    /\ UNCHANGED << platform, main, statics, refs, calls, aborted, ghosts >>

-----------------------------------------------------------------------------
(* The steps of a call                                                     *)

(* A call that makes local references, which no code deletes.              *)
Enter(t) ==
    /\ pc[t] = "idle"
    /\ locals[t] < LocalRefs
    /\ locals' = [locals EXCEPT ![t] = @ + 1]

Abort(why) ==
    /\ aborted' = why
    /\ UNCHANGED << platform, main, statics, refs, calls, ghosts >>

(* Before version 26 the table of a thread's local references has an end.  *)
TableFull(t) ==
    /\ sdk < 26
    /\ pc[t] = "idle"
    /\ locals[t] = LocalRefs
    /\ Abort("local references")
    /\ UNCHANGED locals

Goto(t, where, x) ==
    /\ pc' = [pc EXCEPT ![t] = where]
    /\ arg' = [arg EXCEPT ![t] = x]
Done(t) == Goto(t, "idle", None)
Ref(o) == refs' = [refs EXCEPT ![o] = @ + 1]

Finding == {"find"}
Locking == {"store", "hold", "unhold", "delete", "clear"}
Asking == {"parse", "test", "copy"}

(* Some thread is at one of the points of a call.                          *)
Busy(points) == \E t \in Threads : pc[t] \in points

(* A call starts to use a static variable, perhaps beside another.         *)
Begin(t, where, x, static, points) ==
    /\ Goto(t, where, x)
    /\ raced' = IF Busy(points) THEN raced \cup {static} ELSE raced
    /\ UNCHANGED nested

(* Slip: the activity is looked up whenever names are given.               *)
MissingAlways == TRUE

Missing == instance = None

(* _getactivity, with names; without them it only answers.                 *)
GetActivity(t) ==
    /\ Missing
    /\ Enter(t)
    /\ Begin(t, "find", None, "activity", Finding)
    /\ UNCHANGED << platform, main, statics, refs, aborted >>

(* NewGlobalRef of NULL is NULL: the next call looks again.                *)
FindActivity(t) ==
    /\ pc[t] = "find"
    /\ instance' = main
    /\ IF main = None THEN UNCHANGED refs ELSE Ref(main)
    /\ Done(t)
    /\ UNCHANGED << platform, main, lock, ip, locals, aborted, ghosts >>

-----------------------------------------------------------------------------
(* The multicast lock                                                      *)

(* al_android_multicast_lock_acquire makes a lock when there is none; with *)
(* no service, or no lock from it, it returns AL_ERROR.                    *)
AcquireNew(t, l) ==
    /\ lock = None /\ instance # None
    /\ refs[l] = 0 /\ held[l] = 0 /\ \A u \in Threads : arg[u] # l
    /\ Enter(t)
    /\ Begin(t, "store", l, "lock", Locking)
    /\ UNCHANGED << platform, main, statics, refs, aborted >>

StoreLock(t) ==
    /\ pc[t] = "store"
    /\ lock' = arg[t]
    /\ Ref(arg[t])
    /\ Goto(t, "hold", None)
    /\ UNCHANGED << platform, main, instance, ip, locals, aborted, ghosts >>

AcquireAgain(t) ==
    /\ lock # None
    /\ Enter(t)
    /\ Begin(t, "hold", None, "lock", Locking)
    /\ UNCHANGED << platform, main, statics, refs, aborted >>

(* A method can be called on the lock: it is not NULL and not deleted.     *)
Usable == lock # None /\ refs[lock] > 0

Hold(t) ==
    /\ pc[t] = "hold"
    /\ Usable
    /\ held[lock] < MaxHeld
    /\ held' = [held EXCEPT ![lock] = @ + 1]
    /\ nested' = IF held[lock] > 0 THEN nested \cup {lock} ELSE nested
    /\ Done(t)
    /\ UNCHANGED << sdk, main, statics, refs, locals, aborted, raced >>

(* Slip: the reference goes, the lock stays held.                          *)
ReleaseAtReference == "delete"

ReleaseAt == "unhold"

(* al_android_multicast_lock_release                                       *)
Release(t) ==
    /\ lock # None
    /\ Enter(t)
    /\ Begin(t, ReleaseAt, None, "lock", Locking)
    /\ UNCHANGED << platform, main, statics, refs, aborted >>

(* The platform refuses to release a lock that is not held.                *)
Unhold(t) ==
    /\ pc[t] = "unhold"
    /\ Usable
    /\ held' = [held EXCEPT ![lock] = IF @ > 0 THEN @ - 1 ELSE 0]
    /\ Goto(t, "delete", None)
    /\ UNCHANGED << sdk, main, statics, refs, locals, aborted, ghosts >>

(* Slip: the reference is deleted a second time.                           *)
DeletedTwice(l) == [refs EXCEPT ![l] = @ - 2]

Deleted(l) == [refs EXCEPT ![l] = @ - 1]

(* DeleteGlobalRef of NULL does nothing.                                   *)
DeleteRef(t) ==
    /\ pc[t] = "delete"
    /\ lock = None \/ Usable
    /\ refs' = IF lock = None THEN refs ELSE Deleted(lock)
    /\ Goto(t, "clear", None)
    /\ UNCHANGED << platform, main, statics, locals, aborted, ghosts >>

ClearLock(t) ==
    /\ pc[t] = "clear"
    /\ lock' = None
    /\ Done(t)
    /\ UNCHANGED << platform, main, instance, ip, refs, locals, aborted,
                    ghosts >>

(* Another call released the lock first: the test of al_android_           *)
(* multicast_lock_acquire sees it, or the platform does.                   *)
LockGone(t) ==
    /\ pc[t] \in {"hold", "unhold", "delete"}
    /\ ~Usable
    /\ \/ /\ pc[t] = "hold" /\ lock = None
          /\ Done(t)
          /\ UNCHANGED << platform, main, statics, refs, aborted, ghosts >>
       \/ /\ pc[t] = "delete" => lock # None
          /\ Abort("lock")
    /\ UNCHANGED locals

-----------------------------------------------------------------------------
(* The address                                                             *)

(* Slip: the last bound is off by one.                                     *)
private_ip_wide(a) == a[1] = 10 \/ (a[1] = 172 /\ a[2] >= 16 /\ a[2] <= 32)

private_ip(a) ==
    \/ a[1] = 10
    \/ a[1] = 172 /\ a[2] >= 16 /\ a[2] <= 31
    \/ a[1] = 192 /\ a[2] = 168

(* al_net_get_local_ip_address: from version 31 on a loop over the link    *)
(* addresses, before it whatever address the Wi-Fi has, even 0.0.0.0.      *)
GetAddress(t) ==
    /\ instance # None
    /\ Enter(t)
    /\ \/ /\ sdk >= 31
          /\ Begin(t, "parse", None, "address", Asking)
          /\ UNCHANGED ip
       \/ /\ sdk < 31
          /\ Begin(t, "copy", None, "address", Asking)
          /\ ip' \in Addresses
    /\ UNCHANGED << platform, main, instance, lock, refs, aborted >>

(* parse_ip of the next address, which may be one of version 6.            *)
Parse(t, a) ==
    /\ pc[t] = "parse"
    /\ ip' = a
    /\ Goto(t, "test", a)
    /\ UNCHANGED << platform, main, instance, lock, refs, locals, aborted,
                    ghosts >>

(* inet_addr of anything but four numbers is not private; the text is      *)
(* parsed again before it is copied.                                       *)
Test(t) ==
    /\ pc[t] = "test"
    /\ IF ip # None /\ private_ip(ip)
       THEN ip' = arg[t] /\ Goto(t, "copy", None)
       ELSE Goto(t, "parse", None) /\ UNCHANGED ip
    /\ UNCHANGED << platform, main, instance, lock, refs, locals, aborted,
                    ghosts >>

(* The caller gets a copy of _al_ip, or NULL at the end of the list.       *)
Answer(t) ==
    /\ pc[t] \in {"parse", "copy"}
    /\ Done(t)
    /\ UNCHANGED << platform, main, statics, refs, locals, aborted, ghosts >>

-----------------------------------------------------------------------------
(* Calls that store nothing                                                *)

(* Slip: al_datadir does not look whether there is a context.              *)
UnguardedDirs == {"datadir", "libdir"}

(* al_datadir and al_permissions_have look whether the activity is there;  *)
(* before version 23 al_permissions_request gives it to a Java library.    *)
(* The platform ends a process that calls a method on NULL.                *)
Unguarded ==
    {"libdir", "orientation", "address", "acquire"}
        \cup (IF sdk < 23 THEN {} ELSE {"request"})

(* A call that only asks, or ends where there is no activity or service.   *)
Query(t, q) ==
    /\ q = "acquire" => lock = None
    /\ Enter(t)
    /\ IF instance = None /\ q \in Unguarded
       THEN Abort(q)
       ELSE UNCHANGED << platform, main, statics, refs, calls, aborted,
                         ghosts >>

Queries == {"datadir", "libdir", "orientation", "have", "request", "address",
            "acquire"}

-----------------------------------------------------------------------------
Application == Destroy \/ \E a \in Activities : Create(a)

Thread(t) ==
    \/ GetActivity(t) \/ FindActivity(t)
    \/ \E l \in Locks : AcquireNew(t, l)
    \/ AcquireAgain(t) \/ StoreLock(t) \/ Hold(t)
    \/ Release(t) \/ Unhold(t) \/ DeleteRef(t) \/ ClearLock(t) \/ LockGone(t)
    \/ GetAddress(t) \/ Test(t) \/ Answer(t)
    \/ \E a \in Addresses \cup {None} : Parse(t, a)
    \/ \E q \in Queries : Query(t, q)
    \/ Return(t) \/ TableFull(t)

Aborted == aborted # "no" /\ UNCHANGED vars

Next == \/ aborted = "no" /\ (Application \/ \E t \in Threads : Thread(t))
        \/ Aborted

Spec == Init /\ [][Next]_vars

-----------------------------------------------------------------------------
(* Properties                                                              *)

Points == {"idle"} \cup Finding \cup Locking \cup Asking

(* Every variable has its type.                                            *)
TypeOK ==
    /\ sdk \in Sdks
    /\ main \in Activities \cup {None}
    /\ instance \in Activities \cup {None}
    /\ lock \in Locks \cup {None}
    /\ ip \in Addresses \cup {None}
    /\ refs \in [Objects -> Nat]
    /\ held \in [Locks -> 0 .. MaxHeld]
    /\ pc \in [Threads -> Points]
    /\ arg \in [Threads -> Locks \cup Addresses \cup {None}]
    /\ locals \in [Threads -> 0 .. LocalRefs]
    /\ aborted \in Queries \cup {"no", "local references", "lock"}
    /\ raced \subseteq {"activity", "lock", "address"}
    /\ nested \subseteq Locks

LockQuiet == "lock" \notin raced /\ ~Busy(Locking)

(* Unless two threads looked for it at a time, the library holds one       *)
(* global reference to the activity it found, over any number of           *)
(* re-creations, and none to another; on the same terms and between two    *)
(* calls it holds one to the lock it has: none is leaked and neither       *)
(* static dangles (android/common.c:76-95, android/net.c:250-268,          *)
(* 301-303).                                                               *)
RefsOwned ==
    /\ "activity" \notin raced =>
           \A a \in Activities : refs[a] = IF a = instance THEN 1 ELSE 0
    /\ LockQuiet =>
           \A l \in Locks : refs[l] = IF l = lock THEN 1 ELSE 0

(* On the same terms the platform holds the lock the library has, and no   *)
(* other but one that was acquired again before it was released: its       *)
(* reference went with the first release, and nothing can release it any   *)
(* more (android/net.c:280, 301-303).                                      *)
LostOnlyNested ==
    LockQuiet =>
        /\ lock # None => held[lock] > 0
        /\ \A l \in Locks : held[l] > 0 => l = lock \/ l \in nested

(* The platform ends the process only for: a call that uses the activity   *)
(* before one was found, which al_datadir and al_permissions_have look for *)
(* and the others do not; calls on the lock that overlapped; and, on an    *)
(* old platform, the local references of a thread, which nothing here      *)
(* deletes (android/net.c:57-62, android/dirs.c:82-94,                     *)
(* android/display.c:42-59, android/permissions.c:112-118).                *)
AbortOnlyKnown ==
    \/ aborted = "no"
    \/ /\ aborted \in {"acquire", "address", "libdir", "orientation",
                       "request"}
       /\ instance = None
    \/ aborted = "lock" /\ "lock" \in raced
    \/ /\ aborted = "local references"
       /\ sdk < 26 /\ \E t \in Threads : locals[t] = LocalRefs

(* From version 31 on the address a call is about to return is one of the  *)
(* ranges RFC 1918 keeps for private networks, 10/8, 172.16/12 and         *)
(* 192.168/16, unless two threads asked at a time and wrote the text the   *)
(* other was to copy (android/net.c:78-105, 185-201).                      *)
AddressPrivate ==
    /\ sdk >= 31 /\ "address" \notin raced
    /\ Busy({"copy"})
    =>
        LET n == 256 * ip[1] + ip[2]
        IN  \/ n \in 10 * 256 .. 10 * 256 + 255
            \/ n \in 172 * 256 + 16 .. 172 * 256 + 31
            \/ n = 192 * 256 + 168
=============================================================================
