------------------------------ MODULE Shootdown ------------------------------
(***************************************************************************)
(* The x86-64 translation shootdown: an epoch-fenced rendezvous of all     *)
(* logical processors.                                                     *)
(*                                                                         *)
(*   coordinator   src/crates/charlotte-lifecycle/src/shootdown.rs         *)
(*   rendezvous    src/crates/catten/src/cpu/isa/x86_64/interrupts/fixed/  *)
(*                 ipis/mod.rs                                             *)
(*   callers       src/crates/catten/src/cpu/isa/x86_64/memory/tlb.rs      *)
(*                                                                         *)
(* An initiator takes the coordinator, publishes the next epoch, flushes   *)
(* its own processor, interrupts the others and waits until every          *)
(* processor has acknowledged that epoch or its deadline passes.  A        *)
(* processor's handler runs with interrupts masked but concurrently with   *)
(* everything else, so it is three steps: it captures the epoch, flushes,  *)
(* acknowledges what it captured.  An interrupt sent for an attempt that   *)
(* was abandoned stays pending and is handled whenever the processor       *)
(* unmasks interrupts.                                                     *)
(***************************************************************************)
EXTENDS Integers

CONSTANTS LastLp,     \* the processors are 0..LastLp, in the order of the table
          Callers,    \* concurrent initiators, each with a detached mapping
          MaxEpoch    \* u64::MAX, the last epoch

ASSUME LpAssumption == LastLp \in Nat \ {0}
ASSUME EpochAssumption == MaxEpoch \in Nat

Lps == 0 .. LastLp
Epochs == 0 .. MaxEpoch
None == -1

VARIABLES owned,      \* Shootdown::owned
          requested,  \* Shootdown::requested
          ack,        \* Acknowledgement of each processor
          handler,    \* each processor's handler: its step, the epoch it captured
          ipi,        \* a synchronous interrupt is pending at the processor
          call,       \* each caller's rendezvous
          cached      \* the callers whose detached mapping a processor may cache

vars == <<owned, requested, ack, handler, ipi, call, cached>>

(***************************************************************************)
(* The stages of a call: `none' before the mapping is detached, `enter'    *)
(* the call, `admit' the loop on try_begin, then with the coordinator      *)
(* owned `flush' (own processor), `send' (interrupting processor `lp'      *)
(* next) and `wait' (for acknowledgements); `ok' and `err' are the results *)
(* the caller acts on.                                                     *)
(***************************************************************************)
Owning == {"flush", "send", "wait"}
Stages == {"none", "enter", "admit", "ok", "err"} \cup Owning

(* A call that is not between try_begin and its return has no locals. *)
Local(stage) == [stage |-> stage, epoch |-> 0, self |-> None, lp |-> 0]

Max(a, b) == IF a > b THEN a ELSE b

(***************************************************************************)
(* Init: nothing requested, nothing acknowledged (epoch 0 is never         *)
(* published), the processors are up and shootdowns are enabled.           *)
(***************************************************************************)
Init ==
  /\ owned = FALSE
  /\ requested = 0
  /\ ack = [c \in Lps |-> 0]
  /\ handler = [c \in Lps |-> [step |-> "idle", epoch |-> 0]]
  /\ ipi = [c \in Lps |-> FALSE]
  /\ call = [t \in Callers |-> Local("none")]
  /\ cached = [c \in Lps |-> {}]

Moves(t, stage) == call' = [call EXCEPT ![t] = Local(stage)]

(* A caller has removed the leaves of a mapping from the page tables and   *)
(* enters the rendezvous; until it flushes, a processor may cache them.    *)
Detach(t) ==
  /\ call[t].stage = "none"
  /\ Moves(t, "enter")
  /\ cached' = [c \in Lps |-> cached[c] \cup {t}]
  /\ UNCHANGED <<owned, requested, ack, handler, ipi>>

(* rendezvous is entered with interrupts enabled, or refused. *)
Enter(t) ==
  /\ call[t].stage = "enter"
  /\ \E stage \in {"admit", "err"} : Moves(t, stage)
  /\ UNCHANGED <<owned, requested, ack, handler, ipi, cached>>

(* Mutant: the exhausted attempt keeps the coordinator. *)
ExhaustionKeepsOwner(t) ==
  /\ call[t].stage = "admit"
  /\ ~owned
  /\ owned' = TRUE
  /\ IF requested < MaxEpoch
     THEN /\ requested' = requested + 1
          /\ call' = [call EXCEPT ![t].stage = "flush", ![t].epoch = requested + 1]
     ELSE /\ Moves(t, "err")
          /\ UNCHANGED requested
  /\ UNCHANGED <<ack, handler, ipi, cached>>

(* Mutant: the epoch is incremented without the check for overflow. *)
UncheckedBegin(t) ==
  /\ call[t].stage = "admit"
  /\ ~owned
  /\ owned' = TRUE
  /\ requested' = requested + 1
  /\ call' = [call EXCEPT ![t].stage = "flush", ![t].epoch = requested + 1]
  /\ UNCHANGED <<ack, handler, ipi, cached>>

(* try_begin: take the coordinator and publish the next epoch, or give it  *)
(* back when there is none.                                                *)
TryBegin(t) ==
  /\ call[t].stage = "admit"
  /\ ~owned
  /\ IF requested < MaxEpoch
     THEN /\ owned' = TRUE
          /\ requested' = requested + 1
          /\ call' = [call EXCEPT ![t].stage = "flush", ![t].epoch = requested + 1]
     ELSE /\ Moves(t, "err")
          /\ UNCHANGED <<owned, requested>>
  /\ UNCHANGED <<ack, handler, ipi, cached>>

(* Another attempt owned the coordinator until the admission deadline. *)
AdmissionExpires(t) ==
  /\ call[t].stage = "admit"
  /\ owned
  /\ Moves(t, "err")
  /\ UNCHANGED <<owned, requested, ack, handler, ipi, cached>>

Complete(c, epoch) == ack' = [ack EXCEPT ![c] = Max(@, epoch)]

(* The initiator, on whichever processor it runs, flushes and acknowledges *)
(* with interrupts masked: no handler runs there.                          *)
FlushSelf(t, c) ==
  /\ call[t].stage = "flush"
  /\ handler[c].step = "idle"
  /\ cached' = [cached EXCEPT ![c] = {}]
  /\ Complete(c, call[t].epoch)
  /\ call' = [call EXCEPT ![t].stage = "send", ![t].self = c]
  /\ UNCHANGED <<owned, requested, handler, ipi>>

(* send_to_remote_lps, one processor: the initiator's own is skipped. *)
Send(t) ==
  /\ call[t].stage = "send"
  /\ LET lp == call[t].lp
     IN  /\ ipi' = [ipi EXCEPT ![lp] = @ \/ lp # call[t].self]
         /\ IF lp < LastLp THEN call' = [call EXCEPT ![t].lp = lp + 1]
                           ELSE call' = [call EXCEPT ![t].stage = "wait", ![t].self = None, ![t].lp = 0]
  /\ UNCHANGED <<owned, requested, ack, handler, cached>>

(* The interrupt controller refuses: the attempt is abandoned half sent. *)
DeliveryFails(t) ==
  /\ call[t].stage = "send"
  /\ call[t].lp # call[t].self
  /\ owned' = FALSE
  /\ Moves(t, "err")
  /\ UNCHANGED <<requested, ack, handler, ipi, cached>>

FirstIncomplete(t) == {c \in Lps : ack[c] < call[t].epoch}

(* observe: every processor acknowledged this epoch. *)
ObserveComplete(t) ==
  /\ call[t].stage = "wait"
  /\ FirstIncomplete(t) = {}
  /\ owned' = FALSE
  /\ Moves(t, "ok")
  /\ UNCHANGED <<requested, ack, handler, ipi, cached>>

(* Mutant: past the deadline only the first processor is looked at. *)
TimesOutOnFirst(t) ==
  /\ call[t].stage = "wait"
  /\ 0 \in FirstIncomplete(t)
  /\ owned' = FALSE
  /\ Moves(t, "err")
  /\ UNCHANGED <<requested, ack, handler, ipi, cached>>

(* The deadline passed and, looked at again, an acknowledgement is missing. *)
ObserveTimeout(t) ==
  /\ call[t].stage = "wait"
  /\ FirstIncomplete(t) # {}
  /\ owned' = FALSE
  /\ Moves(t, "err")
  /\ UNCHANGED <<requested, ack, handler, ipi, cached>>

(* Confirmed: the caller releases the backing and is done. *)
Reuse(t) ==
  /\ call[t].stage = "ok"
  /\ Moves(t, "none")
  /\ UNCHANGED <<owned, requested, ack, handler, ipi, cached>>

(* Not confirmed: the caller retained the backing, and asks again. *)
Retry(t) ==
  /\ call[t].stage = "err"
  /\ Moves(t, "enter")
  /\ UNCHANGED <<owned, requested, ack, handler, ipi, cached>>

(* ih_synchronous_ipi *)
HandlerCapture(c) ==
  /\ ipi[c]
  /\ handler[c].step = "idle"
  /\ ipi' = [ipi EXCEPT ![c] = FALSE]
  /\ handler' = [handler EXCEPT ![c] = [step |-> "captured", epoch |-> requested]]
  /\ UNCHANGED <<owned, requested, ack, call, cached>>

HandlerFlush(c) ==
  /\ handler[c].step = "captured"
  /\ cached' = [cached EXCEPT ![c] = {}]
  /\ handler' = [handler EXCEPT ![c].step = "flushed"]
  /\ UNCHANGED <<owned, requested, ack, ipi, call>>

(* Mutant: the request is read again after the flush. *)
AcknowledgesLatest(c) ==
  /\ handler[c].step = "flushed"
  /\ Complete(c, requested)
  /\ handler' = [handler EXCEPT ![c] = [step |-> "idle", epoch |-> 0]]
  /\ UNCHANGED <<owned, requested, ipi, call, cached>>

HandlerAcknowledge(c) ==
  /\ handler[c].step = "flushed"
  /\ Complete(c, handler[c].epoch)
  /\ handler' = [handler EXCEPT ![c] = [step |-> "idle", epoch |-> 0]]
  /\ UNCHANGED <<owned, requested, ipi, call, cached>>

CallerStep(t) ==
  \/ Enter(t) \/ TryBegin(t) \/ AdmissionExpires(t)
  \/ \E c \in Lps : FlushSelf(t, c)
  \/ Send(t) \/ DeliveryFails(t) \/ ObserveComplete(t) \/ ObserveTimeout(t)

Next ==
  \/ \E t \in Callers : CallerStep(t) \/ Detach(t) \/ Reuse(t) \/ Retry(t)
  \/ \E c \in Lps : HandlerCapture(c) \/ HandlerFlush(c) \/ HandlerAcknowledge(c)

(***************************************************************************)
(* An initiator is a scheduled thread and a handler, once entered, runs to *)
(* its end.  Nothing is assumed of when a processor takes an interrupt: it *)
(* may keep them masked for ever.                                          *)
(***************************************************************************)
Fairness ==
  /\ \A t \in Callers : WF_vars(CallerStep(t))
  /\ \A c \in Lps : WF_vars(HandlerFlush(c)) /\ WF_vars(HandlerAcknowledge(c))

Spec == Init /\ [][Next]_vars /\ Fairness

-----------------------------------------------------------------------------
TypeOK ==
  /\ owned \in BOOLEAN
  /\ requested \in Epochs
  /\ ack \in [Lps -> Epochs]
  /\ handler \in [Lps -> [step : {"idle", "captured", "flushed"}, epoch : Epochs]]
  /\ ipi \in [Lps -> BOOLEAN]
  /\ call \in [Callers -> [stage : Stages, epoch : Epochs, self : Lps \cup {None}, lp : Lps]]
  /\ cached \in [Lps -> SUBSET Callers]

(* The coordinator is owned exactly while one call is between try_begin    *)
(* and its return, and that call's epoch is the one published: no error    *)
(* path leaks the coordinator (every later shootdown would be refused) and *)
(* no two attempts wait for acknowledgements at once.                      *)
OneOwner ==
  /\ owned <=> \E t \in Callers : call[t].stage \in Owning
  /\ \A t, u \in Callers : call[t].stage \in Owning /\ call[u].stage \in Owning => t = u
  /\ \A t \in Callers : call[t].stage \in Owning => call[t].epoch = requested

Answer(t) == IF call[t].stage \in {"enter", "admit"} \cup Owning THEN "asked" ELSE call[t].stage

(* The rendezvous keeps the promise of the invalidation service: Ok(()) is *)
(* returned only when no processor may still cache the detached mapping,   *)
(* whatever became of the interrupts and the acknowledgements of earlier,  *)
(* abandoned attempts (shootdown.rs, `does not let a late acknowledgement  *)
(* satisfy a retry').                                                      *)
Service == INSTANCE Invalidation
             WITH reachable <- UNION {cached[c] : c \in Lps},
                  answer <- [t \in Callers |-> Answer(t)]

ImplementsInvalidation == Service!Spec

(* Every rendezvous returns, even when a processor never takes its         *)
(* interrupt, when the coordinator is busy and when epochs are exhausted.  *)
CallsReturn ==
  \A t \in Callers : call[t].stage = "enter" ~> call[t].stage \in {"ok", "err"}
=============================================================================
