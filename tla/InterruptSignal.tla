--------------------------- MODULE InterruptSignal ---------------------------
(***************************************************************************)
(* lucy-core's InterruptSignal (crates/lucy-core/src/lib.rs): the kill      *)
(* switch every run, tool call and approval prompt shares.  It is an        *)
(* atomic flag, an atomic epoch and a tokio Notify, with no lock around     *)
(* the three: every load, store and notification is a step of its own and   *)
(* the calls of different threads interleave between them.  Any thread may  *)
(* make any call; pc[t] names the step thread t takes next.                 *)
(***************************************************************************)
EXTENDS Integers

CONSTANTS Threads,
          MaxEpoch     \* bound: the number of fires explored

ASSUME MaxEpochAssumption == MaxEpoch \in Nat

VARIABLES flag,       \* the AtomicBool
          epoch,      \* the AtomicU64
          pc,
          seen,       \* the epoch each thread hands to reset_if_epoch()
          signalled,  \* threads whose Notify registration has been woken
          handled     \* history: the newest epoch a reset accounted for

vars == <<flag, epoch, pc, seen, signalled, handled>>

Steps == {"idle", "fire_store", "fire_notify", "reset_check", "reset_clear",
          "reset_recheck", "reset_restore", "reset_notify", "wait_check", "wait"}

TypeOK ==
  /\ flag \in BOOLEAN
  /\ epoch \in Nat
  /\ pc \in [Threads -> Steps]
  /\ seen \in [Threads -> Nat]
  /\ signalled \subseteq Threads
  /\ handled \in Nat

Init ==
  /\ flag = FALSE
  /\ epoch = 0
  /\ pc = [t \in Threads |-> "idle"]
  /\ seen = [t \in Threads |-> 0]
  /\ signalled = {}
  /\ handled = 0

Goto(t, from, to) == pc[t] = from /\ pc' = [pc EXCEPT ![t] = to]

----------------------------------------------------------------------------
(* fire(): bump the epoch, store the flag, notify. *)

FireBump(t) ==
  /\ Goto(t, "idle", "fire_store")
  /\ epoch < MaxEpoch
  /\ epoch' = epoch + 1
  /\ UNCHANGED <<flag, seen, signalled, handled>>

FireStore(t) ==
  /\ Goto(t, "fire_store", "fire_notify")
  /\ flag' = TRUE
  /\ UNCHANGED <<epoch, seen, signalled, handled>>

\* Slip: notify_one() for notify_waiters().
NotifyOne ==
  \/ \E w \in Threads : pc[w] \in {"wait_check", "wait"} /\ signalled' = signalled \cup {w}
  \/ signalled' = signalled /\ \A w \in Threads : pc[w] \notin {"wait_check", "wait"}

\* Notify::notify_waiters wakes the registrations that exist now and leaves
\* no permit for later ones.
NotifyWaiters ==
  signalled' = signalled \cup {w \in Threads : pc[w] \in {"wait_check", "wait"}}

FireNotify(t) ==
  /\ Goto(t, "fire_notify", "idle")
  /\ NotifyWaiters
  /\ UNCHANGED <<flag, epoch, seen, handled>>

----------------------------------------------------------------------------
(* reset(): the unconditional store, which forgets every fire so far. *)

Reset ==
  /\ flag' = FALSE
  /\ handled' = epoch
  /\ UNCHANGED <<epoch, pc, seen, signalled>>

(* epoch(), then reset_if_epoch(seen): test, clear, test again and put back. *)

SampleEpoch(t) ==
  /\ Goto(t, "idle", "reset_check")
  /\ seen' = [seen EXCEPT ![t] = epoch]
  /\ UNCHANGED <<flag, epoch, signalled, handled>>

ResetCheck(t) ==
  /\ Goto(t, "reset_check", IF epoch = seen[t] THEN "reset_clear" ELSE "idle")
  /\ UNCHANGED <<flag, epoch, seen, signalled, handled>>

ResetClear(t) ==
  /\ Goto(t, "reset_clear", "reset_recheck")
  /\ flag' = FALSE
  /\ UNCHANGED <<epoch, seen, signalled, handled>>

\* Slip: the call returns true without testing the epoch again.
ResetConfirmed(t) ==
  /\ Goto(t, "reset_recheck", "idle")
  /\ handled' = seen[t]
  /\ UNCHANGED <<flag, epoch, seen, signalled>>

ResetRecheck(t) ==
  /\ \/ Goto(t, "reset_recheck", "idle") /\ epoch = seen[t] /\ handled' = seen[t]
     \/ Goto(t, "reset_recheck", "reset_restore") /\ epoch # seen[t] /\ UNCHANGED handled
  /\ UNCHANGED <<flag, epoch, seen, signalled>>

ResetRestore(t) ==
  /\ Goto(t, "reset_restore", "reset_notify")
  /\ flag' = TRUE
  /\ UNCHANGED <<epoch, seen, signalled, handled>>

ResetNotify(t) ==
  /\ Goto(t, "reset_notify", "idle")
  /\ NotifyWaiters
  /\ UNCHANGED <<flag, epoch, seen, handled>>

----------------------------------------------------------------------------
(* notified(): register, then test the flag, then await the registration. *)

WaitEnable(t) ==
  /\ Goto(t, "idle", "wait_check")
  /\ UNCHANGED <<flag, epoch, seen, signalled, handled>>

WaitCheck(t) ==
  /\ Goto(t, "wait_check", IF flag THEN "idle" ELSE "wait")
  /\ signalled' = IF flag THEN signalled \ {t} ELSE signalled
  /\ UNCHANGED <<flag, epoch, seen, handled>>

WaitReturn(t) ==
  /\ t \in signalled
  /\ Goto(t, "wait", "idle")
  /\ signalled' = signalled \ {t}
  /\ UNCHANGED <<flag, epoch, seen, handled>>

----------------------------------------------------------------------------
Call(t)   == FireBump(t) \/ SampleEpoch(t) \/ WaitEnable(t)
Resume(t) == \/ FireStore(t)  \/ FireNotify(t)   \/ ResetCheck(t)
             \/ ResetClear(t) \/ ResetRecheck(t) \/ ResetRestore(t)
             \/ ResetNotify(t) \/ WaitCheck(t)   \/ WaitReturn(t)

Next == Reset \/ \E t \in Threads : Call(t) \/ Resume(t)

Spec == Init /\ [][Next]_vars

\* A call once entered runs on, waiting for nothing but its own wake-up.
\* Nothing forces a thread to make a call.
FairSpec == Spec /\ \A t \in Threads : WF_vars(Resume(t))

----------------------------------------------------------------------------
\* No lost wake-up: while the flag is up, a task blocked in notified() has
\* been woken, or a thread that raised the flag is still about to wake it.
\* notified() registers before it tests the flag for exactly this.
NoLostWakeup ==
  flag => \A w \in Threads :
            pc[w] = "wait" /\ w \notin signalled =>
              \E t \in Threads : pc[t] \in {"fire_notify", "reset_notify"}

\* No lost stop: the flag is down only when a reset accounted for the newest
\* fire, or a call that will raise it, or put it back, is still in progress.
\* The second epoch test of reset_if_epoch exists for this.
NoLostFire ==
  ~flag => \/ handled = epoch
           \/ \E t \in Threads : pc[t] \in {"fire_store", "reset_recheck", "reset_restore"}
=============================================================================
