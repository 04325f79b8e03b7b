------------------------------ MODULE HypTimer -------------------------------
(***************************************************************************)
(* The EL2 timer (timer.c) and its interrupt through the physical GIC      *)
(* (gic.c): acknowledge, hyptimer_on_irq, end of interrupt, as done by     *)
(* el2_exception_dispatch and by every exit loop.  The counter, the timer  *)
(* comparator and the GIC are hardware.  Counter values are unbounded      *)
(* naturals: 64 bits at the counter's rate do not wrap.                    *)
(***************************************************************************)
EXTENDS Naturals

CONSTANTS
  MaxNow,      \* bound: how far the counter is followed
  Intervals    \* t_interval for the interval_ms the demos use

ASSUME HypTimerAssumption ==
  /\ MaxNow \in Nat
  /\ Intervals \subseteq Nat \ {0}      \* freq * interval_ms >= 1000

VARIABLES
  now,          \* CNTPCT_EL0
  ctl, cval,    \* CNTHP_CTL_EL2.ENABLE, CNTHP_CVAL_EL2
  t_interval, t_ticks,
  active,       \* the timer's PPI is active in the GIC
  handler,      \* "idle", or what the handler has done: "acked", "spurious",
                \* "moved"
  began         \* history: the counter when the timer was last started

vars == <<now, ctl, cval, t_interval, t_ticks, active, handler, began>>

Init ==
  /\ now = 0 /\ ctl = FALSE /\ cval = 0
  /\ t_interval = 0 /\ t_ticks = 0
  /\ active = FALSE /\ handler = "idle"
  /\ began = 0

\* The timer's output, a level.
Line == ctl /\ cval <= now

-----------------------------------------------------------------------------
Count ==
  /\ now < MaxNow
  /\ now' = now + 1
  /\ UNCHANGED <<ctl, cval, t_interval, t_ticks, active, handler, began>>

hyptimer_start(iv) ==
  /\ handler = "idle"
  /\ t_interval' = iv
  /\ t_ticks' = 0
  /\ cval' = now + iv
  /\ ctl' = TRUE
  /\ began' = now
  /\ UNCHANGED <<now, active, handler>>

hyptimer_stop ==
  /\ handler = "idle"
  /\ ctl' = FALSE
  /\ UNCHANGED <<now, cval, t_interval, t_ticks, active, handler, began>>

\* An IRQ exception, for the timer or for nothing any more, and gic_ack; an
\* active PPI is not signalled again.
gic_ack ==
  /\ handler = "idle"
  /\ ~active
  /\ \/ Line /\ handler' = "acked" /\ active' = TRUE
     \/ ~Line /\ handler' = "spurious" /\ UNCHANGED active
  /\ UNCHANGED <<now, ctl, cval, t_interval, t_ticks, began>>

\* Mutant of hyptimer_on_irq: the next deadline is counted from the handler.
Mut_on_irq_from_now ==
  /\ handler = "acked"
  /\ handler' = "moved"
  /\ t_ticks' = t_ticks + 1
  /\ cval' = now + t_interval
  /\ UNCHANGED <<now, ctl, t_interval, active, began>>

\* Mutant of hyptimer_on_irq: called for a spurious interrupt too.
Mut_on_irq_any_intid ==
  /\ handler \in {"acked", "spurious"}
  /\ handler' = "moved"
  /\ t_ticks' = t_ticks + 1
  /\ cval' = cval + t_interval
  /\ UNCHANGED <<now, ctl, t_interval, active, began>>

\* Mutant of hyptimer_on_irq: deadlines that have passed are left out.
Mut_on_irq_skips ==
  /\ handler = "acked"
  /\ handler' = "moved"
  /\ t_ticks' = t_ticks + 1
  /\ cval' = now + t_interval - ((now - began) % t_interval)
  /\ UNCHANGED <<now, ctl, t_interval, active, began>>

hyptimer_on_irq ==
  /\ handler = "acked"
  /\ handler' = "moved"
  /\ t_ticks' = t_ticks + 1
  /\ cval' = cval + t_interval
  /\ UNCHANGED <<now, ctl, t_interval, active, began>>

\* Only for a real INTID; the handler returns.
gic_eoi ==
  /\ handler \in {"moved", "spurious"}
  /\ handler' = "idle"
  /\ active' = (active /\ handler = "spurious")
  /\ UNCHANGED <<now, ctl, cval, t_interval, t_ticks, began>>

Next ==
  \/ Count
  \/ \E iv \in Intervals : hyptimer_start(iv)
  \/ hyptimer_stop
  \/ gic_ack
  \/ hyptimer_on_irq
  \/ gic_eoi

Spec == Init /\ [][Next]_vars

\* The core takes the interrupt again and again whenever it is signalled (in
\* the exit loops IMO routes it to EL2), and handlers go on.
FairSpec ==
  /\ Spec
  /\ SF_vars(Line /\ gic_ack) /\ WF_vars(hyptimer_on_irq) /\ WF_vars(gic_eoi)

-----------------------------------------------------------------------------
(* The variables have the types of the code's. *)
TypeOK ==
  /\ now \in Nat /\ ctl \in BOOLEAN /\ cval \in Nat
  /\ t_interval \in Nat /\ t_ticks \in Nat
  /\ active \in BOOLEAN
  /\ handler \in {"idle", "acked", "spurious", "moved"}
  /\ began \in Nat

(* No drift: however late the handler runs, the next deadline is a whole number
   of intervals after the start ("Absolute deadline against the physical counter
   (no drift accumulation)", timer.c:20). *)
NoDrift == ctl => cval = began + (t_ticks + 1) * t_interval

(* A tick is never counted before its time: t_ticks intervals have passed since
   the timer was started, even when a late handler catches up on several. *)
NeverEarly == ctl => began + t_ticks * t_interval <= now

(* Every tick is counted in the end: a passed deadline is caught up with, one
   interrupt per interval, unless the timer is stopped or restarted. *)
CatchesUp ==
  \A n \in 1 .. MaxNow :
    (ctl /\ began + n * t_interval <= now) ~>
      (~ctl \/ t_ticks >= n \/ now < began + n * t_interval)
=============================================================================
