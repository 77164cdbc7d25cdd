------------------------------ MODULE PteAttr ------------------------------
(* Attribute objects of the POSIX threads library, and the parameters of    *)
(* the threads made with them: pthread_attr_*, pthread_mutexattr_*,         *)
(* pthread_condattr_*, pthread_rwlockattr_*, pthread_barrierattr_*,         *)
(* pthread_{get,set}schedparam, pthread_{get,set}concurrency,               *)
(* pthread_setcanceltype and pthread_getattr_np.                            *)
(*                                                                          *)
(* An object is used by one thread at a time, so a call is one step.  Its   *)
(* answer is a result, the object it leaves and the value it stores for the *)
(* caller.  asked is what the caller was told: the value of the last call   *)
(* that answered 0 for each setting, or the documented default.             *)
EXTENDS Integers, FiniteSets, TLC

CONSTANTS
  NULL, NoValue,
  Priorities,           \* priorities callers try
  PTE_MIN_PRIORITY, PTE_MAX_PRIORITY,
  STACK_SIZE            \* the stack every thread of the kernel gets

ASSUME AttrAssumption ==
  /\ Priorities \subseteq Int /\ PTE_MIN_PRIORITY \in Nat
  /\ PTE_MAX_PRIORITY \in Nat /\ PTE_MIN_PRIORITY <= PTE_MAX_PRIORITY

VARIABLES
  object,     \* the attribute object of each kind, NULL when there is none
  asked,      \* what its owner was told it holds
  thread,     \* a thread made by pthread_create, NULL when there is none
  own,        \* what the calling thread was told its own parameters are
  self,       \* its structure: sched_priority, cancelType; pte_concurrency
  reply       \* the last value a call stored for its caller
atVars == <<object, asked, thread, own, self, reply>>

Kinds == {"attr", "mutexattr", "condattr", "rwlockattr", "barrierattr"}
Simple == Kinds \ {"attr"}

\* ---- Answers ----
Refused(o, error) == [result |-> error, object |-> o, value |-> NoValue]
Left(o) == [result |-> "0", object |-> o, value |-> NoValue]
Got(o, v) == [result |-> "0", object |-> o, value |-> v]
Stored(o, field, v) == Left([o EXCEPT ![field] = v])
If(ok, answer, error, o) == IF ok THEN answer ELSE Refused(o, error)

\* ---- pthread_attr_t ----
pte_is_attr(a) == a # NULL /\ a.valid

DefaultPriority == (PTE_MIN_PRIORITY + PTE_MAX_PRIORITY) \div 2
AttrDefaults ==
  [stacksize |-> 0, stackaddr |-> "NULL", detachstate |-> "JOINABLE",
   priority |-> DefaultPriority, inheritsched |-> "EXPLICIT", contentionscope |-> "SYSTEM"]
pthread_attr_init == Left(AttrDefaults @@ [valid |-> TRUE])
pthread_attr_destroy(a) == If(pte_is_attr(a), Left(NULL), "EINVAL", a)

pthread_attr_setdetachstate(a, v) ==
  If(pte_is_attr(a) /\ v \in {"JOINABLE", "DETACHED"}, Stored(a, "detachstate", v), "EINVAL", a)
pthread_attr_setinheritsched(a, v) ==
  If(pte_is_attr(a) /\ v \in {"INHERIT", "EXPLICIT"}, Stored(a, "inheritsched", v), "EINVAL", a)
sched_get_priority_min == PTE_MIN_PRIORITY
sched_get_priority_max == PTE_MAX_PRIORITY
pthread_attr_setschedparam(a, v) ==
  If(pte_is_attr(a) /\ v >= sched_get_priority_min /\ v <= sched_get_priority_max,
     Stored(a, "priority", v), "EINVAL", a)
pthread_attr_setschedpolicy(a, v) ==
  IF ~pte_is_attr(a) THEN Refused(a, "EINVAL") ELSE If(v = "OTHER", Left(a), "ENOTSUP", a)
\* No look at valid: a NULL object is not survived.
pthread_attr_setscope(a, v) ==
  CASE v = "SYSTEM" -> Stored(a, "contentionscope", v)
    [] v = "PROCESS" -> Refused(a, "ENOTSUP")
    [] OTHER -> Refused(a, "EINVAL")
pthread_attr_setstackaddr(a, v) == If(pte_is_attr(a), Stored(a, "stackaddr", v), "EINVAL", a)
pthread_attr_setstacksize(a, v) == If(pte_is_attr(a), Stored(a, "stacksize", v), "EINVAL", a)

pthread_attr_getdetachstate(a) ==
  IF pte_is_attr(a) THEN Got(a, a.detachstate)
  ELSE [Refused(a, "EINVAL") EXCEPT !.value = "DETACHED"]
pthread_attr_getinheritsched(a) == If(pte_is_attr(a), Got(a, a.inheritsched), "EINVAL", a)
pthread_attr_getschedparam(a) == If(pte_is_attr(a), Got(a, a.priority), "EINVAL", a)
pthread_attr_getschedpolicy(a) == If(pte_is_attr(a), Got(a, "OTHER"), "EINVAL", a)
pthread_attr_getscope(a) == Got(a, a.contentionscope)
pthread_attr_getstackaddr(a) == If(pte_is_attr(a), Got(a, a.stackaddr), "EINVAL", a)
pthread_attr_getstacksize(a) == If(pte_is_attr(a), Got(a, a.stacksize), "EINVAL", a)
\* The address goes to a parameter of the function and is lost.
pthread_attr_getstack(a) ==
  IF a = NULL THEN Refused(a, "EACCES")
  ELSE IF pthread_attr_getstackaddr(a).result # "0" THEN Refused(a, "-1")
  ELSE pthread_attr_getstacksize(a)

\* ---- The attributes of mutexes, condition variables, locks and barriers ----
pthread_mutexattr_init == Left([pshared |-> "PRIVATE", kind |-> "DEFAULT"])
pthread_condattr_init == Left([pshared |-> "PRIVATE"])
pthread_rwlockattr_init == Left([pshared |-> "PRIVATE"])
pthread_barrierattr_init == Left([pshared |-> "PRIVATE"])

FreeOf(a) == If(a # NULL, Left(NULL), "EINVAL", a)
pthread_mutexattr_destroy(a) == FreeOf(a)
pthread_condattr_destroy(a) == FreeOf(a)
pthread_rwlockattr_destroy(a) == FreeOf(a)
pthread_barrierattr_destroy(a) == FreeOf(a)

\* _POSIX_THREAD_PROCESS_SHARED is defined (as -1), so SHARED is stored.
Pshared(a, v) == If(a # NULL /\ v \in {"SHARED", "PRIVATE"}, Stored(a, "pshared", v), "EINVAL", a)
pthread_mutexattr_setpshared(a, v) == Pshared(a, v)
pthread_condattr_setpshared(a, v) == Pshared(a, v)
pthread_rwlockattr_setpshared(a, v) == Pshared(a, v)
pthread_barrierattr_setpshared(a, v) == Pshared(a, v)

PsharedOf(a) == If(a # NULL, Got(a, a.pshared), "EINVAL", a)
pthread_mutexattr_getpshared(a) == PsharedOf(a)
pthread_condattr_getpshared(a) == PsharedOf(a)
pthread_rwlockattr_getpshared(a) == PsharedOf(a)
pthread_barrierattr_getpshared(a) == PsharedOf(a)

\* DEFAULT, NORMAL and FAST_NP are one value.
pthread_mutexattr_settype(a, v) ==
  If(a # NULL /\ v \in {"DEFAULT", "RECURSIVE", "ERRORCHECK"}, Stored(a, "kind", v), "EINVAL", a)
pthread_mutexattr_gettype(a) == If(a # NULL, Got(a, a.kind), "EINVAL", a)
pthread_mutexattr_setkind_np(a, v) == pthread_mutexattr_settype(a, v)
pthread_mutexattr_getkind_np(a) == pthread_mutexattr_gettype(a)

\* ---- Threads made with the attributes ----
\* pthread_create takes the object as it is; without one the priority is what
\* pte_new stored.  pte_osThreadCreate records the priority, while the stack
\* size goes nowhere: create_thread has no parameter for it.
pthread_create(a) ==
  IF a = NULL
    THEN Left([alive |-> TRUE, detachstate |-> "JOINABLE", stack |-> STACK_SIZE,
               sched_priority |-> PTE_MIN_PRIORITY, priority |-> PTE_MIN_PRIORITY])
  ELSE LET prio == IF a.inheritsched = "INHERIT" THEN self.sched_priority ELSE a.priority
       IN  If(a.priority <= PTE_MAX_PRIORITY /\ a.priority >= PTE_MIN_PRIORITY,
              Left([alive |-> TRUE, detachstate |-> a.detachstate, stack |-> STACK_SIZE,
                    sched_priority |-> prio, priority |-> prio]),
              "EINVAL", NULL)

\* pthread_kill(thread, 0), with which the calls below look whether it lives.
pthread_kill(t) == t # NULL /\ t.alive
pte_setthreadpriority(t, v) ==
  If(v >= sched_get_priority_min /\ v <= sched_get_priority_max,
     Left([t EXCEPT !.sched_priority = v, !.priority = v]), "EINVAL", t)
pthread_setschedparam(t, policy, v) ==
  IF ~pthread_kill(t) THEN Refused(t, "ESRCH")
  ELSE IF policy \notin {"OTHER", "FIFO", "RR"} THEN Refused(t, "EINVAL")
  ELSE IF policy # "OTHER" THEN Refused(t, "ENOTSUP")
  ELSE pte_setthreadpriority(t, v)
pthread_getschedparam(t) == If(pthread_kill(t), Got(t, t.sched_priority), "ESRCH", t)

\* malloc leaves what is not stored here undefined, valid included.
pthread_getattr_np(t) ==
  {[stacksize |-> t.stack, stackaddr |-> "stack", detachstate |-> "garbage", priority |-> v,
    inheritsched |-> "garbage", contentionscope |-> "garbage", valid |-> b] :
     v \in Priorities, b \in BOOLEAN}

\* ---- The calling thread and the library ----
pthread_setcanceltype(s, v) ==
  IF v = "ASYNCHRONOUS" THEN Refused(s, "EPERM")
  ELSE If(v = "DEFERRED", [Stored(s, "cancelType", v) EXCEPT !.value = s.cancelType], "EINVAL", s)
pthread_setconcurrency(s, v) == If(v >= 0, Stored(s, "concurrency", v), "EINVAL", s)
pthread_getconcurrency(s) == Got(s, s.concurrency)
-----------------------------------------------------------------------------
(* Calls.  k names the object, f the setting and r the answer of the call.   *)
Nothing == [x \in {} |-> NoValue]
\* There is one policy, so nothing is kept of it.
Told(told, f, v, r) == IF r.result = "0" /\ f # "policy" THEN (f :> v) @@ told ELSE told
NoReply == [of |-> NoValue, field |-> NoValue, value |-> NoValue]

AtInit ==
  /\ object = [k \in Kinds |-> NULL] /\ asked = [k \in Kinds |-> Nothing]
  /\ thread = NULL
  /\ self = [sched_priority |-> PTE_MIN_PRIORITY, cancelType |-> "DEFERRED", concurrency |-> 0]
  /\ own = self
  /\ reply = NoReply

Create(k, r, defaults) ==
  /\ object[k] = NULL
  /\ object' = [object EXCEPT ![k] = r.object] /\ asked' = [asked EXCEPT ![k] = defaults]
  /\ reply' = NoReply /\ UNCHANGED <<thread, own, self>>
Set(k, f, v, r) ==
  /\ object' = [object EXCEPT ![k] = r.object]
  /\ asked' = [asked EXCEPT ![k] = Told(@, f, v, r)]
  /\ reply' = NoReply /\ UNCHANGED <<thread, own, self>>
Get(k, f, r) ==
  /\ reply' = IF r.result = "0" THEN [of |-> k, field |-> f, value |-> r.value] ELSE NoReply
  /\ UNCHANGED <<object, asked, thread, own, self>>
Destroy(k, r) ==
  /\ object' = [object EXCEPT ![k] = r.object]
  /\ asked' = [asked EXCEPT ![k] = IF r.result = "0" THEN Nothing ELSE @]
  /\ reply' = NoReply /\ UNCHANGED <<thread, own, self>>

States == {"JOINABLE", "DETACHED", "nonsense"}
SetAttr(a) ==
  \/ \E v \in States : Set("attr", "detachstate", v, pthread_attr_setdetachstate(a, v))
  \/ \E v \in {"INHERIT", "EXPLICIT", "nonsense"} :
       Set("attr", "inheritsched", v, pthread_attr_setinheritsched(a, v))
  \/ \E v \in Priorities : Set("attr", "priority", v, pthread_attr_setschedparam(a, v))
  \/ \E v \in {"OTHER", "FIFO"} : Set("attr", "policy", v, pthread_attr_setschedpolicy(a, v))
  \/ \E v \in {"SYSTEM", "PROCESS", "nonsense"} :
       a # NULL /\ Set("attr", "contentionscope", v, pthread_attr_setscope(a, v))
  \/ Set("attr", "stackaddr", "stack", pthread_attr_setstackaddr(a, "stack"))
  \/ \E v \in {STACK_SIZE, STACK_SIZE + 1} : Set("attr", "stacksize", v, pthread_attr_setstacksize(a, v))
GetAttr(a) ==
  \/ Get("attr", "detachstate", pthread_attr_getdetachstate(a))
  \/ Get("attr", "inheritsched", pthread_attr_getinheritsched(a))
  \/ Get("attr", "priority", pthread_attr_getschedparam(a))
  \/ Get("attr", "policy", pthread_attr_getschedpolicy(a))
  \/ a # NULL /\ Get("attr", "contentionscope", pthread_attr_getscope(a))
  \/ Get("attr", "stackaddr", pthread_attr_getstackaddr(a))
  \/ Get("attr", "stacksize", pthread_attr_getstack(a))
  \/ Get("attr", "stacksize", pthread_attr_getstacksize(a))

\* A thread is made with an object whose settings its owner knows.  What it
\* is told of the thread follows from what it was told of the object; a stack
\* size that was not set, or is less than STACK_SIZE, stands for STACK_SIZE.
Expected(a) ==
  IF a = NULL THEN [priority |-> PTE_MIN_PRIORITY, detachstate |-> "JOINABLE", stack |-> STACK_SIZE]
  ELSE [priority |-> IF asked["attr"].inheritsched = "INHERIT"
                       THEN own.sched_priority ELSE asked["attr"].priority,
        detachstate |-> asked["attr"].detachstate,
        stack |-> IF asked["attr"].stacksize > STACK_SIZE THEN asked["attr"].stacksize ELSE STACK_SIZE]
CreateThread(a) ==
  /\ thread = NULL /\ (a = NULL \/ DOMAIN AttrDefaults \subseteq DOMAIN asked["attr"])
  /\ thread' = pthread_create(a).object /\ own' = Expected(a) @@ own
  /\ reply' = NoReply /\ UNCHANGED <<object, asked, self>>
SetThread(policy, v) ==
  LET r == pthread_setschedparam(thread, policy, v) IN
  /\ thread # NULL /\ thread' = r.object /\ own' = Told(own, "priority", v, r)
  /\ reply' = NoReply /\ UNCHANGED <<object, asked, self>>
GetAttrOf ==
  /\ pthread_kill(thread) /\ object["attr"] = NULL
  /\ \E a \in pthread_getattr_np(thread) : object' = [object EXCEPT !["attr"] = a]
  /\ asked' = [asked EXCEPT !["attr"] = ("stacksize" :> STACK_SIZE) @@ ("stackaddr" :> "stack")]
  /\ reply' = NoReply /\ UNCHANGED <<thread, own, self>>
ThreadEnds ==
  /\ pthread_kill(thread)
  /\ \E t \in {NULL, [thread EXCEPT !.alive = FALSE]} : thread' = t
  /\ reply' = NoReply /\ UNCHANGED <<object, asked, own, self>>
SetSelf(f, v, r) ==
  /\ self' = r.object /\ own' = Told(own, f, v, r)
  /\ reply' = NoReply /\ UNCHANGED <<object, asked, thread>>

ThreadAttrNext ==
  \/ Create("attr", pthread_attr_init, AttrDefaults)
  \/ SetAttr(object["attr"]) \/ GetAttr(object["attr"])
  \/ Destroy("attr", pthread_attr_destroy(object["attr"]))
  \/ CreateThread(object["attr"]) \/ GetAttrOf \/ ThreadEnds
  \/ \E policy \in {"OTHER", "RR", "nonsense"}, v \in Priorities : SetThread(policy, v)
  \/ Get("thread", "priority", pthread_getschedparam(thread))
  \/ \* pthread_setschedparam of the caller itself
     SetSelf("sched_priority", PTE_MAX_PRIORITY, Stored(self, "sched_priority", PTE_MAX_PRIORITY))

InitOf(k) == CASE k = "mutexattr" -> pthread_mutexattr_init [] k = "condattr" -> pthread_condattr_init
               [] k = "rwlockattr" -> pthread_rwlockattr_init [] OTHER -> pthread_barrierattr_init
DestroyOf(k, a) ==
  CASE k = "mutexattr" -> pthread_mutexattr_destroy(a) [] k = "condattr" -> pthread_condattr_destroy(a)
    [] k = "rwlockattr" -> pthread_rwlockattr_destroy(a) [] OTHER -> pthread_barrierattr_destroy(a)
SetPshared(k, a, v) ==
  CASE k = "mutexattr" -> pthread_mutexattr_setpshared(a, v)
    [] k = "condattr" -> pthread_condattr_setpshared(a, v)
    [] k = "rwlockattr" -> pthread_rwlockattr_setpshared(a, v)
    [] OTHER -> pthread_barrierattr_setpshared(a, v)
GetPshared(k, a) ==
  CASE k = "mutexattr" -> pthread_mutexattr_getpshared(a)
    [] k = "condattr" -> pthread_condattr_getpshared(a)
    [] k = "rwlockattr" -> pthread_rwlockattr_getpshared(a)
    [] OTHER -> pthread_barrierattr_getpshared(a)
DefaultsOf(k) == ("pshared" :> "PRIVATE") @@ IF k = "mutexattr" THEN "kind" :> "DEFAULT" ELSE Nothing

SimpleAttrNext ==
  \/ \E k \in Simple : Create(k, InitOf(k), DefaultsOf(k))
  \/ \E k \in Simple : Destroy(k, DestroyOf(k, object[k]))
  \/ \E k \in Simple, v \in {"SHARED", "PRIVATE", "nonsense"} :
       Set(k, "pshared", v, SetPshared(k, object[k], v))
  \/ \E k \in Simple : Get(k, "pshared", GetPshared(k, object[k]))
  \/ LET a == object["mutexattr"] IN
     \/ \E v \in {"DEFAULT", "RECURSIVE", "nonsense"} :
          Set("mutexattr", "kind", v, pthread_mutexattr_settype(a, v))
     \/ \E v \in {"ERRORCHECK", "nonsense"} :
          Set("mutexattr", "kind", v, pthread_mutexattr_setkind_np(a, v))
     \/ Get("mutexattr", "kind", pthread_mutexattr_gettype(a))
     \/ Get("mutexattr", "kind", pthread_mutexattr_getkind_np(a))
  \/ \E v \in {"DEFERRED", "ASYNCHRONOUS", "nonsense"} :
       SetSelf("cancelType", v, pthread_setcanceltype(self, v))
  \/ \E v \in {-1, 3} : SetSelf("concurrency", v, pthread_setconcurrency(self, v))
  \/ Get("self", "concurrency", pthread_getconcurrency(self))

\* ---- Properties ----
Holds(o, told) == \A f \in DOMAIN told : o[f] = told[f]

\* What the last call stored for its caller is what the caller was told before.
ReplyIsTrue ==
  CASE reply.of \in Kinds -> reply.field \in DOMAIN asked[reply.of] =>
                              reply.value = asked[reply.of][reply.field]
    [] reply.of = "thread" -> reply.value = own.priority
    [] reply.of = "self" -> reply.value = own[reply.field]
    [] OTHER -> TRUE

\* After any sequence of calls an object, a thread and the library hold what
\* their callers were told: the last setting that was answered with 0 or the
\* default, never one that was refused; a destroyed object is no object.  A
\* thread's stack is excepted where its creator asked for more than STACK_SIZE:
\* pthread_attr_setstacksize says that threads will run on a stack of the size
\* set, and pte_osThreadCreate does not pass it on.  So is the address that
\* pthread_attr_getstack promises, which its caller never gets.
SettingsAreKept ==
  /\ ReplyIsTrue
  /\ \A k \in Kinds : IF object[k] = NULL THEN asked[k] = Nothing ELSE Holds(object[k], asked[k])
  /\ self.cancelType = own.cancelType /\ self.concurrency = own.concurrency
  /\ thread # NULL =>
       /\ thread.sched_priority = own.priority /\ thread.priority = own.priority
       /\ thread.detachstate = own.detachstate
       /\ own.stack <= STACK_SIZE => thread.stack = own.stack
       /\ thread.priority \in PTE_MIN_PRIORITY..PTE_MAX_PRIORITY
=============================================================================
