------------------------------- MODULE Metrics -------------------------------
(***************************************************************************)
(* prometheus.Metric: a collector that its first users create.  Api() reads *)
(* the field, and only if it is nil takes the lock, puts a new collector   *)
(* into the field and registers what the field holds; the field is not     *)
(* read again under the lock.  The registry takes one collector of the     *)
(* name, and MustRegister panics on a second.  ErrNotify() is the same     *)
(* code with one caller, the parser's goroutine.                           *)
(*                                                                         *)
(* A collector is known by the call that made it.                          *)
(***************************************************************************)
CONSTANT Caller     \* the goroutines that call Api()

VARIABLES
    api,        \* m.api
    lock,       \* m.l: who holds it
    registered, \* PromRegister: the collector it has under the name
    call,       \* where each goroutine is in Api()
    panicked    \* MustRegister has panicked in this process

Nobody == "nobody"

MetricsTypeOK ==
    /\ api \in Caller \union {Nobody}
    /\ lock \in Caller \union {Nobody}
    /\ registered \in Caller \union {Nobody}
    /\ call \in [Caller -> {"out", "check", "wait", "create", "register", "return", "panic"}]
    /\ panicked \in BOOLEAN

MetricsInit ==
    /\ api = Nobody /\ lock = Nobody /\ registered = Nobody
    /\ call = [c \in Caller |-> "out"]
    /\ panicked = FALSE

\* A new process has a new registry.
Renew ==
    /\ api' = Nobody /\ lock' = Nobody /\ registered' = Nobody
    /\ call' = [c \in Caller |-> "out"]
    /\ panicked' = FALSE

At(c, from, to) == call[c] = from /\ call' = [call EXCEPT ![c] = to]

\* if m.api == nil, without the lock.
ReadField(c) ==
    /\ At(c, "check", IF api = Nobody THEN "wait" ELSE "return")
    /\ UNCHANGED <<api, lock, registered, panicked>>

\* m.l.Lock is not there.
BadLock(c) == At(c, "wait", "create") /\ UNCHANGED <<api, lock, registered, panicked>>

Lock(c) ==
    /\ lock = Nobody /\ lock' = c
    /\ At(c, "wait", "create")
    /\ UNCHANGED <<api, registered, panicked>>

\* m.api = NewSummaryVec(...)
Create(c) ==
    /\ At(c, "create", "register")
    /\ api' = c
    /\ UNCHANGED <<lock, registered, panicked>>

\* The unlock forgotten.
BadRegister(c) ==
    /\ At(c, "register", IF registered = Nobody THEN "return" ELSE "panic")
    /\ registered' = IF registered = Nobody THEN api ELSE registered
    /\ panicked' = (panicked \/ registered # Nobody)
    /\ UNCHANGED <<api, lock>>

\* MustRegister(m.api) and the deferred unlock, which runs after a panic too.
Register(c) ==
    /\ At(c, "register", IF registered = Nobody THEN "return" ELSE "panic")
    /\ registered' = IF registered = Nobody THEN api ELSE registered
    /\ panicked' = (panicked \/ registered # Nobody)
    /\ lock' = Nobody
    /\ UNCHANGED api

InApi(c) == ReadField(c) \/ Lock(c) \/ Create(c) \/ Register(c)

=============================================================================
