--------------------------- MODULE ShootdownProofs ---------------------------
(***************************************************************************)
(* The shootdown rendezvous implements the invalidation service for any    *)
(* number of processors, any set of callers and any last epoch.            *)
(*                                                                         *)
(* What has to be carried along: an acknowledgement, or a handler that has *)
(* flushed and is about to acknowledge, with an epoch at least that of the *)
(* owner of the coordinator, was made after the owner detached its         *)
(* mapping, so the processor does not cache it.  A fresh epoch is above    *)
(* every acknowledged and every captured one, which is why a late handler  *)
(* of an abandoned attempt cannot speak for a later one.                   *)
(***************************************************************************)
EXTENDS Shootdown, TLAPS

(* No acknowledged or captured epoch is beyond the published one. *)
NotAhead ==
  \A c \in Lps : ack[c] <= requested /\ handler[c].epoch <= requested

Clean(t, c) == t \notin cached[c]

(* What an epoch says about a processor, for the owner of the coordinator. *)
EpochsSpeak ==
  \A t \in Callers, c \in Lps :
    call[t].stage \in Owning =>
      /\ ack[c] >= call[t].epoch => Clean(t, c)
      /\ handler[c].step = "flushed" /\ handler[c].epoch >= call[t].epoch => Clean(t, c)

(* A caller whose backing is free, or about to be, is cached nowhere. *)
FreeIsClean ==
  \A t \in Callers, c \in Lps : call[t].stage \in {"none", "ok"} => Clean(t, c)

Inv == TypeOK /\ OneOwner /\ NotAhead /\ EpochsSpeak /\ FreeIsClean

-----------------------------------------------------------------------------
LEMMA MaxFacts ==
  ASSUME NEW a \in Int, NEW b \in Int
  PROVE  /\ Max(a, b) \in {a, b}
         /\ Max(a, b) >= a
         /\ Max(a, b) >= b
BY DEF Max

LEMMA LocalFacts ==
  ASSUME NEW s \in Stages
  PROVE  /\ Local(s) \in [stage : Stages, epoch : Epochs, self : Lps \cup {None}, lp : Lps]
         /\ Local(s).stage = s
BY LpAssumption, EpochAssumption DEF Local, Epochs, Lps, None

LEMMA InitInv == Init => Inv
<1> SUFFICES ASSUME Init PROVE Inv
  OBVIOUS
<1>1. "none" \in Stages /\ "none" \notin Owning
  BY DEF Stages, Owning
<1>2. TypeOK
  <2>1. 0 \in Epochs
    BY EpochAssumption DEF Epochs
  <2>2. call \in [Callers -> [stage : Stages, epoch : Epochs, self : Lps \cup {None}, lp : Lps]]
    BY <1>1, LocalFacts DEF Init
  <2> QED
    BY <2>1, <2>2 DEF Init, TypeOK
<1>3. \A t \in Callers : call[t].stage = "none"
  BY <1>1, LocalFacts DEF Init
<1>4. OneOwner
  BY <1>1, <1>3 DEF OneOwner, Init
<1>5. NotAhead /\ EpochsSpeak /\ FreeIsClean
  BY <1>1, <1>3 DEF Init, NotAhead, EpochsSpeak, FreeIsClean, Clean
<1> QED
  BY <1>2, <1>4, <1>5 DEF Inv
-----------------------------------------------------------------------------
(***************************************************************************)
(* How a step moves a call, as facts about stages and epochs.              *)
(***************************************************************************)
CallType == [stage : Stages, epoch : Epochs, self : Lps \cup {None}, lp : Lps]
HandlerType == [step : {"idle", "captured", "flushed"}, epoch : Epochs]

LEMMA MovesFacts ==
  ASSUME NEW t \in Callers, NEW s \in Stages, call \in [Callers -> CallType], Moves(t, s)
  PROVE  /\ call' \in [Callers -> CallType]
         /\ call'[t].stage = s
         /\ \A u \in Callers : u # t => call'[u] = call[u]
<1>1. Local(s) \in CallType /\ Local(s).stage = s
  BY LocalFacts DEF CallType
<1>2. call' = [call EXCEPT ![t] = Local(s)]
  BY DEF Moves
<1> HIDE DEF CallType
<1> QED
  BY <1>1, <1>2

(* The parts of the invariant that an acknowledgement disturbs. *)
LEMMA CompleteFacts ==
  ASSUME NEW c \in Lps, NEW e \in Epochs, ack \in [Lps -> Epochs], Complete(c, e)
  PROVE  /\ ack' \in [Lps -> Epochs]
         /\ ack'[c] \in {ack[c], e}
         /\ \A d \in Lps : d # c => ack'[d] = ack[d]
<1>1. Max(ack[c], e) \in {ack[c], e}
  <2>1. ack[c] \in Int /\ e \in Int
    BY EpochAssumption DEF Epochs
  <2> QED
    BY <2>1, MaxFacts
<1>2. ack' = [ack EXCEPT ![c] = Max(ack[c], e)]
  BY DEF Complete
<1> QED
  BY <1>1, <1>2

(* A step that only moves calls between stages outside Owning, or out of   *)
(* it, keeps the parts about epochs.                                       *)
LEMMA NextInv == Inv /\ [Next]_vars => Inv'
<1> SUFFICES ASSUME Inv, [Next]_vars PROVE Inv'
  OBVIOUS
<1> USE DEF Owning
<1>t. /\ owned \in BOOLEAN
      /\ requested \in Nat
      /\ ack \in [Lps -> Epochs]
      /\ handler \in [Lps -> HandlerType]
      /\ ipi \in [Lps -> BOOLEAN]
      /\ call \in [Callers -> CallType]
      /\ cached \in [Lps -> SUBSET Callers]
      /\ requested \in Epochs
  BY EpochAssumption DEF Inv, TypeOK, Epochs, CallType, HandlerType
<1>e. /\ \A t \in Callers : call[t].epoch \in Nat /\ call[t].epoch \in Epochs /\ call[t].lp \in Lps
      /\ \A t \in Callers : call[t].stage \in Stages
      /\ \A c \in Lps : ack[c] \in Nat /\ handler[c].epoch \in Nat /\ handler[c].epoch \in Epochs
  BY <1>t, EpochAssumption DEF Epochs, CallType, HandlerType
<1>i. OneOwner /\ NotAhead /\ EpochsSpeak /\ FreeIsClean
  BY DEF Inv
<1>r. ASSUME call' \in [Callers -> CallType], owned' \in BOOLEAN, requested' \in Epochs,
             ack' \in [Lps -> Epochs], handler' \in [Lps -> HandlerType],
             ipi' \in [Lps -> BOOLEAN], cached' \in [Lps -> SUBSET Callers]
      PROVE  TypeOK'
  BY <1>r DEF TypeOK, CallType, HandlerType
\* A call leaves or never enters Owning; only `call' and `owned' change.
<1>m. ASSUME NEW t \in Callers, NEW s \in {"enter", "admit", "err", "none", "ok"}, Moves(t, s),
             owned' = IF call[t].stage \in Owning THEN FALSE ELSE owned,
             s \in {"none", "ok"} => \A c \in Lps : Clean(t, c),
             UNCHANGED <<requested, ack, handler, ipi, cached>>
      PROVE  Inv'
  <2>1. /\ call' \in [Callers -> CallType]
        /\ call'[t].stage = s
        /\ \A u \in Callers : u # t => call'[u] = call[u]
    <3>1. s \in Stages
      BY DEF Stages
    <3> QED
      BY <3>1, <1>m, <1>t, MovesFacts
  <2>2. TypeOK'
    BY <1>m, <2>1, <1>t, <1>r
  <2>3. OneOwner'
    BY <1>m, <2>1, <1>i DEF OneOwner
  <2>4. NotAhead'
    BY <1>m, <1>i DEF NotAhead
  <2>5. EpochsSpeak'
    BY <1>m, <2>1, <1>i DEF EpochsSpeak, Clean
  <2>6. FreeIsClean'
    BY <1>m, <2>1, <1>i DEF FreeIsClean, Clean
  <2> QED
    BY <2>2, <2>3, <2>4, <2>5, <2>6 DEF Inv
<1>1. ASSUME NEW t \in Callers, Detach(t) PROVE Inv'
  <2>1. /\ call' \in [Callers -> CallType]
        /\ call'[t].stage = "enter"
        /\ \A u \in Callers : u # t => call'[u] = call[u]
    BY <1>1, <1>t, MovesFacts DEF Detach, Stages
  <2>2. cached' = [c \in Lps |-> cached[c] \cup {t}]
    BY <1>1 DEF Detach
  <2>3. /\ UNCHANGED <<owned, requested, ack, handler, ipi>>
        /\ call[t].stage = "none"
    BY <1>1 DEF Detach
  <2>4. \A u \in Callers, c \in Lps : u # t => (u \in cached'[c] <=> u \in cached[c])
    BY <2>2
  <2>5. TypeOK'
    BY <2>1, <2>2, <2>3, <1>t, <1>r
  <2>6. OneOwner'
    BY <2>1, <2>3, <1>i DEF OneOwner
  <2>7. NotAhead'
    BY <2>3, <1>i DEF NotAhead
  <2>8. EpochsSpeak'
    BY <2>1, <2>3, <2>4, <1>i DEF EpochsSpeak, Clean
  <2>9. FreeIsClean'
    BY <2>1, <2>3, <2>4, <1>i DEF FreeIsClean, Clean
  <2> QED
    BY <2>5, <2>6, <2>7, <2>8, <2>9 DEF Inv
<1>2. ASSUME NEW t \in Callers, Enter(t) PROVE Inv'
  <2>1. PICK s \in {"admit", "err"} : Moves(t, s)
    BY <1>2 DEF Enter
  <2> QED
    BY <1>2, <2>1, <1>m DEF Enter
<1>3. ASSUME NEW t \in Callers, TryBegin(t) PROVE Inv'
  <2>1. CASE requested < MaxEpoch
    <3>1. /\ owned' = TRUE
          /\ requested' = requested + 1
          /\ call' = [call EXCEPT ![t].stage = "flush", ![t].epoch = requested + 1]
          /\ UNCHANGED <<ack, handler, ipi, cached>>
          /\ call[t].stage = "admit" /\ ~owned
      BY <1>3, <2>1 DEF TryBegin
    <3>2. requested + 1 \in Epochs
      BY <2>1, <1>t, EpochAssumption DEF Epochs
    <3>3. /\ call' \in [Callers -> CallType]
          /\ call'[t].stage = "flush" /\ call'[t].epoch = requested + 1
          /\ \A u \in Callers : u # t => call'[u] = call[u]
      BY <3>1, <3>2, <1>t DEF CallType, Stages
    <3>4. TypeOK'
      BY <3>1, <3>2, <3>3, <1>t, <1>r
    <3>5. OneOwner'
      BY <3>1, <3>3, <1>i DEF OneOwner
    <3>6. NotAhead'
      BY <3>1, <1>i, <1>e, <1>t DEF NotAhead
    <3>7. EpochsSpeak'
      <4>1. \A c \in Lps : ~(ack[c] >= requested + 1) /\ ~(handler[c].epoch >= requested + 1)
        BY <1>i, <1>e, <1>t DEF NotAhead
      <4>2. \A u \in Callers : call'[u].stage \in Owning => u = t
        BY <3>1, <3>3, <1>i DEF OneOwner
      <4> QED
        BY <3>1, <3>3, <4>1, <4>2 DEF EpochsSpeak, Clean
    <3>8. FreeIsClean'
      BY <3>1, <3>3, <1>i DEF FreeIsClean, Clean
    <3> QED
      BY <3>4, <3>5, <3>6, <3>7, <3>8 DEF Inv
  <2>2. CASE ~(requested < MaxEpoch)
    BY <1>3, <2>2, <1>m DEF TryBegin
  <2> QED
    BY <2>1, <2>2
<1>4. ASSUME NEW t \in Callers, AdmissionExpires(t) PROVE Inv'
  BY <1>4, <1>m DEF AdmissionExpires
<1>5. ASSUME NEW t \in Callers, NEW c \in Lps, FlushSelf(t, c) PROVE Inv'
  <2>1. /\ call' = [call EXCEPT ![t].stage = "send", ![t].self = c]
        /\ call[t].stage = "flush"
        /\ cached' = [cached EXCEPT ![c] = {}]
        /\ Complete(c, call[t].epoch)
        /\ UNCHANGED <<owned, requested, handler, ipi>>
    BY <1>5 DEF FlushSelf
  <2>2. /\ call' \in [Callers -> CallType]
        /\ call'[t].stage = "send" /\ call'[t].epoch = call[t].epoch
        /\ \A u \in Callers : u # t => call'[u] = call[u]
    BY <2>1, <1>t DEF CallType, Stages
  <2>3. /\ ack' \in [Lps -> Epochs]
        /\ ack'[c] \in {ack[c], call[t].epoch}
        /\ \A d \in Lps : d # c => ack'[d] = ack[d]
    BY <2>1, <1>t, <1>e, CompleteFacts
  <2>4. /\ cached' \in [Lps -> SUBSET Callers]
        /\ \A u \in Callers : u \notin cached'[c]
        /\ \A d \in Lps : d # c => cached'[d] = cached[d]
    BY <2>1, <1>t
  <2>5. TypeOK'
    BY <2>1, <2>2, <2>3, <2>4, <1>t, <1>r
  <2>6. OneOwner'
    BY <2>1, <2>2, <1>i DEF OneOwner
  <2>7. NotAhead'
    <3>1. call[t].epoch = requested
      BY <2>1, <1>i DEF OneOwner
    <3> QED
      BY <2>1, <2>3, <3>1, <1>i, <1>t, <1>e DEF NotAhead
  <2>8. EpochsSpeak'
    BY <2>1, <2>2, <2>3, <2>4, <1>i DEF EpochsSpeak, Clean
  <2>9. FreeIsClean'
    BY <2>1, <2>2, <2>4, <1>i DEF FreeIsClean, Clean
  <2> QED
    BY <2>5, <2>6, <2>7, <2>8, <2>9 DEF Inv
<1>6. ASSUME NEW t \in Callers, Send(t) PROVE Inv'
  <2>1. /\ call[t].stage = "send"
        /\ UNCHANGED <<owned, requested, ack, handler, cached>>
        /\ ipi' \in [Lps -> BOOLEAN]
    BY <1>6, <1>t DEF Send
  <2>2. /\ call' \in [Callers -> CallType]
        /\ call'[t].stage \in Owning /\ call'[t].epoch = call[t].epoch
        /\ \A u \in Callers : u # t => call'[u] = call[u]
    <3>1. CASE call[t].lp < LastLp
      <4>1. call' = [call EXCEPT ![t].lp = call[t].lp + 1]
        BY <1>6, <3>1 DEF Send
      <4>2. call[t].lp + 1 \in Lps
        BY <1>e, <3>1, LpAssumption DEF Lps
      <4> QED
        BY <4>1, <4>2, <2>1, <1>t DEF CallType, Stages
    <3>2. CASE ~(call[t].lp < LastLp)
      <4>1. call' = [call EXCEPT ![t].stage = "wait", ![t].self = None, ![t].lp = 0]
        BY <1>6, <3>2 DEF Send
      <4>2. PICK r : r = [call[t] EXCEPT !.stage = "wait", !.self = None, !.lp = 0]
        OBVIOUS
      <4>3. r \in CallType /\ r.stage = "wait" /\ r.epoch = call[t].epoch
        <5>1. 0 \in Lps
          BY LpAssumption DEF Lps
        <5> QED
          BY <4>2, <5>1, <1>t DEF CallType, Stages
      <4>4. call' = [call EXCEPT ![t] = r]
        BY <4>1, <4>2
      <4> HIDE DEF CallType
      <4> QED
        BY <4>3, <4>4, <1>t
    <3> QED
      BY <3>1, <3>2
  <2>3. TypeOK'
    BY <2>1, <2>2, <1>t, <1>r
  <2>4. OneOwner'
    BY <2>1, <2>2, <1>i DEF OneOwner
  <2>5. NotAhead' /\ EpochsSpeak'
    BY <2>1, <2>2, <1>i DEF NotAhead, EpochsSpeak, Clean
  <2>6. FreeIsClean'
    BY <2>1, <2>2, <1>i DEF FreeIsClean, Clean
  <2> QED
    BY <2>3, <2>4, <2>5, <2>6 DEF Inv
<1>7. ASSUME NEW t \in Callers, DeliveryFails(t) PROVE Inv'
  BY <1>7, <1>m DEF DeliveryFails
<1>8. ASSUME NEW t \in Callers, ObserveComplete(t) PROVE Inv'
  <2>1. \A c \in Lps : Clean(t, c)
    <3>1. \A c \in Lps : ack[c] >= call[t].epoch
      BY <1>8, <1>e DEF ObserveComplete, FirstIncomplete
    <3> QED
      BY <1>8, <3>1, <1>i DEF ObserveComplete, EpochsSpeak
  <2> QED
    BY <1>8, <2>1, <1>m DEF ObserveComplete
<1>9. ASSUME NEW t \in Callers, ObserveTimeout(t) PROVE Inv'
  BY <1>9, <1>m DEF ObserveTimeout
<1>10. ASSUME NEW t \in Callers, Reuse(t) PROVE Inv'
  <2>1. \A c \in Lps : Clean(t, c)
    BY <1>10, <1>i DEF Reuse, FreeIsClean
  <2> QED
    BY <1>10, <2>1, <1>m DEF Reuse
<1>11. ASSUME NEW t \in Callers, Retry(t) PROVE Inv'
  BY <1>11, <1>m DEF Retry
<1>12. ASSUME NEW c \in Lps, HandlerCapture(c) PROVE Inv'
  <2>1. /\ handler' = [handler EXCEPT ![c] = [step |-> "captured", epoch |-> requested]]
        /\ ipi' \in [Lps -> BOOLEAN]
        /\ UNCHANGED <<owned, requested, ack, call, cached>>
    BY <1>12, <1>t DEF HandlerCapture
  <2>2. /\ handler' \in [Lps -> HandlerType]
        /\ handler'[c].step = "captured" /\ handler'[c].epoch = requested
        /\ \A d \in Lps : d # c => handler'[d] = handler[d]
    BY <2>1, <1>t DEF HandlerType
  <2>3. TypeOK'
    BY <2>1, <2>2, <1>t, <1>r
  <2>4. OneOwner' /\ FreeIsClean'
    BY <2>1, <1>i DEF OneOwner, FreeIsClean, Clean
  <2>5. NotAhead'
    BY <2>1, <2>2, <1>i, <1>t DEF NotAhead
  <2>6. EpochsSpeak'
    BY <2>1, <2>2, <1>i DEF EpochsSpeak, Clean
  <2> QED
    BY <2>3, <2>4, <2>5, <2>6 DEF Inv
<1>13. ASSUME NEW c \in Lps, HandlerFlush(c) PROVE Inv'
  <2>1. /\ handler' = [handler EXCEPT ![c].step = "flushed"]
        /\ cached' = [cached EXCEPT ![c] = {}]
        /\ UNCHANGED <<owned, requested, ack, ipi, call>>
    BY <1>13 DEF HandlerFlush
  <2>2. /\ handler' \in [Lps -> HandlerType]
        /\ handler'[c].epoch = handler[c].epoch
        /\ \A d \in Lps : d # c => handler'[d] = handler[d]
    BY <2>1, <1>t DEF HandlerType
  <2>3. /\ cached' \in [Lps -> SUBSET Callers]
        /\ \A u \in Callers : u \notin cached'[c]
        /\ \A d \in Lps : d # c => cached'[d] = cached[d]
    BY <2>1, <1>t
  <2>4. TypeOK'
    BY <2>1, <2>2, <2>3, <1>t, <1>r
  <2>5. OneOwner' /\ FreeIsClean'
    BY <2>1, <2>3, <1>i DEF OneOwner, FreeIsClean, Clean
  <2>6. NotAhead'
    BY <2>1, <2>2, <1>i DEF NotAhead
  <2>7. EpochsSpeak'
    BY <2>1, <2>2, <2>3, <1>i DEF EpochsSpeak, Clean
  <2> QED
    BY <2>4, <2>5, <2>6, <2>7 DEF Inv
<1>14. ASSUME NEW c \in Lps, HandlerAcknowledge(c) PROVE Inv'
  <2>1. /\ handler[c].step = "flushed"
        /\ Complete(c, handler[c].epoch)
        /\ handler' = [handler EXCEPT ![c] = [step |-> "idle", epoch |-> 0]]
        /\ UNCHANGED <<owned, requested, ipi, call, cached>>
    BY <1>14 DEF HandlerAcknowledge
  <2>2. /\ handler' \in [Lps -> HandlerType]
        /\ handler'[c].step = "idle" /\ handler'[c].epoch = 0
        /\ \A d \in Lps : d # c => handler'[d] = handler[d]
    BY <2>1, <1>t, EpochAssumption DEF HandlerType, Epochs
  <2>3. /\ ack' \in [Lps -> Epochs]
        /\ ack'[c] \in {ack[c], handler[c].epoch}
        /\ \A d \in Lps : d # c => ack'[d] = ack[d]
    BY <2>1, <1>t, <1>e, CompleteFacts
  <2>4. TypeOK'
    BY <2>1, <2>2, <2>3, <1>t, <1>r
  <2>5. OneOwner' /\ FreeIsClean'
    BY <2>1, <1>i DEF OneOwner, FreeIsClean, Clean
  <2>6. NotAhead'
    BY <2>1, <2>2, <2>3, <1>i, <1>t DEF NotAhead
  <2>7. EpochsSpeak'
    BY <2>1, <2>2, <2>3, <1>i DEF EpochsSpeak, Clean
  <2> QED
    BY <2>4, <2>5, <2>6, <2>7 DEF Inv
<1>15. ASSUME UNCHANGED vars PROVE Inv'
  <2>1. UNCHANGED <<owned, requested, ack, handler, ipi, call, cached>>
    BY <1>15 DEF vars
  <2>2. TypeOK'
    BY <2>1, <1>t, <1>r
  <2>3. OneOwner' /\ NotAhead' /\ EpochsSpeak' /\ FreeIsClean'
    BY <2>1, <1>i DEF OneOwner, NotAhead, EpochsSpeak, FreeIsClean, Clean
  <2> QED
    BY <2>2, <2>3 DEF Inv
<1> QED
  BY <1>1, <1>2, <1>3, <1>4, <1>5, <1>6, <1>7, <1>8, <1>9, <1>10, <1>11, <1>12, <1>13, <1>14, <1>15
  DEF Next, CallerStep

(* The type invariant holds in every reachable state. *)
THEOREM TypesPreserved == Spec => []TypeOK
<1>1. Inv => TypeOK
  BY DEF Inv
<1> QED
  BY <1>1, InitInv, NextInv, PTL DEF Spec

(* The coordinator has exactly one owner while it is owned, and that owner *)
(* waits for the published epoch.                                          *)
THEOREM CoordinatorOwned == Spec => []OneOwner
<1>1. Inv => OneOwner
  BY DEF Inv
<1> QED
  BY <1>1, InitInv, NextInv, PTL DEF Spec

-----------------------------------------------------------------------------
(***************************************************************************)
(* The refinement.                                                         *)
(***************************************************************************)
Reachable == UNION {cached[c] : c \in Lps}
Answers == [t \in Callers |-> Answer(t)]

LEMMA ServiceInit == Init => Service!Init
<1> SUFFICES ASSUME Init PROVE Service!Init
  OBVIOUS
<1>1. \A t \in Callers : call[t].stage = "none"
  BY LocalFacts DEF Init, Stages
<1>2. Answers = [t \in Callers |-> "none"]
  BY <1>1 DEF Answers, Answer, Owning
<1>3. Reachable = {}
  BY DEF Reachable, Init
<1> QED
  BY <1>2, <1>3 DEF Service!Init, Answers, Reachable

(* A step in which one call moves and translations are not touched. *)
LEMMA AnswerMoves ==
  ASSUME NEW t \in Callers, NEW s \in Stages, call \in [Callers -> CallType],
         call'[t].stage = s, \A u \in Callers : u # t => call'[u] = call[u]
  PROVE  Answers' = [Answers EXCEPT ![t] =
           IF s \in {"enter", "admit"} \cup Owning THEN "asked" ELSE s]
BY DEF Answers, Answer

LEMMA ServiceStep == Inv /\ [Next]_vars => [Service!Next]_<<Reachable, Answers>>
<1> SUFFICES ASSUME Inv, [Next]_vars
             PROVE  Service!Next \/ UNCHANGED <<Reachable, Answers>>
  OBVIOUS
<1>t. /\ call \in [Callers -> CallType]
      /\ handler \in [Lps -> HandlerType]
      /\ cached \in [Lps -> SUBSET Callers]
      /\ \A t \in Callers : call[t].stage \in Stages
      /\ \A t \in Callers : call[t].epoch \in Int
      /\ \A c \in Lps : ack[c] \in Int
  <2>1. /\ call \in [Callers -> CallType]
        /\ handler \in [Lps -> HandlerType]
        /\ cached \in [Lps -> SUBSET Callers]
        /\ ack \in [Lps -> Epochs]
    BY DEF Inv, TypeOK, CallType, HandlerType
  <2> QED
    BY <2>1, EpochAssumption DEF CallType, Epochs
<1>a. Answers = [t \in Callers |-> Answer(t)]
  BY DEF Answers
<1>m. ASSUME NEW t \in Callers, NEW s \in Stages, Moves(t, s), UNCHANGED cached,
             \/ call[t].stage \in {"enter", "admit"} \cup Owning /\ s \in {"admit", "err"}
             \/ call[t].stage = "wait" /\ s = "ok" /\ \A c \in Lps : Clean(t, c)
             \/ call[t].stage = "ok" /\ s = "none"
             \/ call[t].stage = "err" /\ s = "enter"
      PROVE  Service!Next \/ UNCHANGED <<Reachable, Answers>>
  <2>1. /\ call'[t].stage = s
        /\ \A u \in Callers : u # t => call'[u] = call[u]
    BY <1>m, <1>t, MovesFacts
  <2>2. Answers' = [Answers EXCEPT ![t] =
          IF s \in {"enter", "admit"} \cup Owning THEN "asked" ELSE s]
    BY <2>1, <1>t, AnswerMoves
  <2>3. UNCHANGED Reachable
    BY <1>m DEF Reachable
  <2>4. Answers[t] = IF call[t].stage \in {"enter", "admit"} \cup Owning THEN "asked" ELSE call[t].stage
    BY <1>a DEF Answer
  <2>5. CASE call[t].stage \in {"enter", "admit"} \cup Owning /\ s = "admit"
    <3>1. UNCHANGED Answers
      BY <2>2, <2>4, <2>5, <1>a
    <3> QED
      BY <3>1, <2>3
  <2>6. CASE call[t].stage \in {"enter", "admit"} \cup Owning /\ s = "err"
    <3>1. Service!Refuse(t)
      BY <2>2, <2>3, <2>4, <2>6 DEF Service!Refuse, Owning, Answers, Reachable
    <3> QED
      BY <3>1 DEF Service!Next
  <2>7. CASE call[t].stage = "wait" /\ s = "ok" /\ \A c \in Lps : Clean(t, c)
    <3>1. t \notin Reachable
      BY <2>7 DEF Reachable, Clean
    <3>2. Service!Confirm(t)
      BY <3>1, <2>2, <2>3, <2>4, <2>7 DEF Service!Confirm, Owning, Answers, Reachable
    <3> QED
      BY <3>2 DEF Service!Next
  <2>8. CASE call[t].stage = "ok" /\ s = "none"
    <3>1. Service!Reuse(t)
      BY <2>2, <2>3, <2>4, <2>8 DEF Service!Reuse, Owning, Answers, Reachable
    <3> QED
      BY <3>1 DEF Service!Next
  <2>9. CASE call[t].stage = "err" /\ s = "enter"
    <3>1. Service!AskAgain(t)
      BY <2>2, <2>3, <2>4, <2>9 DEF Service!AskAgain, Owning, Answers, Reachable
    <3> QED
      BY <3>1 DEF Service!Next
  <2> QED
    BY <1>m, <2>5, <2>6, <2>7, <2>8, <2>9
\* Every call keeps its answer; translations can only disappear.
<1>f. ASSUME \A u \in Callers : Answer(u)' = Answer(u),
             \A c \in Lps : cached'[c] \in SUBSET cached[c]
      PROVE  Service!Next \/ UNCHANGED <<Reachable, Answers>>
  <2>1. UNCHANGED Answers
    BY <1>f DEF Answers
  <2>2. Reachable' \in SUBSET Reachable
    BY <1>f DEF Reachable
  <2>3. Service!Forget
    BY <2>1, <2>2 DEF Service!Forget, Answers, Reachable
  <2> QED
    BY <2>3 DEF Service!Next
<1>1. ASSUME NEW t \in Callers, Detach(t) PROVE Service!Next \/ UNCHANGED <<Reachable, Answers>>
  <2>1. /\ call'[t].stage = "enter"
        /\ \A u \in Callers : u # t => call'[u] = call[u]
    BY <1>1, <1>t, MovesFacts DEF Detach, Stages
  <2>2. Answers' = [Answers EXCEPT ![t] = "asked"]
    BY <2>1, <1>t, AnswerMoves DEF Stages
  <2>3. Answers[t] = "none"
    BY <1>1, <1>a DEF Answer, Detach, Owning
  <2>4. Reachable' = Reachable \cup {t}
    <3>1. cached' = [c \in Lps |-> cached[c] \cup {t}]
      BY <1>1 DEF Detach
    <3>2. 0 \in Lps
      BY LpAssumption DEF Lps
    <3> QED
      BY <3>1, <3>2 DEF Reachable
  <2>5. Service!Detach(t)
    BY <2>2, <2>3, <2>4 DEF Service!Detach, Answers, Reachable
  <2> QED
    BY <2>5 DEF Service!Next
<1>2. ASSUME NEW t \in Callers, Enter(t) PROVE Service!Next \/ UNCHANGED <<Reachable, Answers>>
  <2>1. PICK s \in {"admit", "err"} : Moves(t, s)
    BY <1>2 DEF Enter
  <2> QED
    BY <1>2, <2>1, <1>m DEF Enter, Stages
<1>3. ASSUME NEW t \in Callers, TryBegin(t) PROVE Service!Next \/ UNCHANGED <<Reachable, Answers>>
  <2>1. CASE requested < MaxEpoch
    <3>1. /\ call' = [call EXCEPT ![t].stage = "flush", ![t].epoch = requested + 1]
          /\ call[t].stage = "admit"
          /\ UNCHANGED cached
      BY <1>3, <2>1 DEF TryBegin
    <3>2. call'[t].stage = "flush" /\ \A u \in Callers : u # t => call'[u] = call[u]
      BY <3>1, <1>t DEF CallType
    <3>a. call[t].stage = "admit"
      BY <3>1
    <3>3. \A u \in Callers : Answer(u)' = Answer(u)
      BY <3>a, <3>2 DEF Answer, Owning
    <3> QED
      BY <3>1, <3>3, <1>f
  <2>2. CASE ~(requested < MaxEpoch)
    BY <1>3, <2>2, <1>m DEF TryBegin, Stages
  <2> QED
    BY <2>1, <2>2
<1>4. ASSUME NEW t \in Callers, AdmissionExpires(t) PROVE Service!Next \/ UNCHANGED <<Reachable, Answers>>
  BY <1>4, <1>m DEF AdmissionExpires, Stages
<1>5. ASSUME NEW t \in Callers, NEW c \in Lps, FlushSelf(t, c)
      PROVE  Service!Next \/ UNCHANGED <<Reachable, Answers>>
  <2>1. /\ call' = [call EXCEPT ![t].stage = "send", ![t].self = c]
        /\ call[t].stage = "flush"
        /\ cached' = [cached EXCEPT ![c] = {}]
    BY <1>5 DEF FlushSelf
  <2>2. call'[t].stage = "send" /\ \A u \in Callers : u # t => call'[u] = call[u]
    BY <2>1, <1>t DEF CallType
  <2>a. call[t].stage = "flush"
    BY <2>1
  <2>3. \A u \in Callers : Answer(u)' = Answer(u)
    BY <2>a, <2>2 DEF Answer, Owning
  <2>4. \A d \in Lps : cached'[d] \in SUBSET cached[d]
    BY <2>1, <1>t
  <2> QED
    BY <2>3, <2>4, <1>f
<1>6. ASSUME NEW t \in Callers, Send(t) PROVE Service!Next \/ UNCHANGED <<Reachable, Answers>>
  <2>1. /\ call[t].stage = "send"
        /\ UNCHANGED cached
    BY <1>6 DEF Send
  <2>2. call'[t].stage \in Owning /\ \A u \in Callers : u # t => call'[u] = call[u]
    <3>1. CASE call[t].lp < LastLp
      <4>1. call' = [call EXCEPT ![t].lp = call[t].lp + 1]
        BY <1>6, <3>1 DEF Send
      <4> QED
        BY <4>1, <2>1, <1>t DEF CallType, Owning
    <3>2. CASE ~(call[t].lp < LastLp)
      <4>1. call' = [call EXCEPT ![t].stage = "wait", ![t].self = None, ![t].lp = 0]
        BY <1>6, <3>2 DEF Send
      <4>2. PICK r : r = [call[t] EXCEPT !.stage = "wait", !.self = None, !.lp = 0]
        OBVIOUS
      <4>3. call' = [call EXCEPT ![t] = r] /\ r.stage = "wait"
        BY <4>1, <4>2, <1>t DEF CallType
      <4> HIDE DEF CallType
      <4> QED
        BY <4>3, <1>t DEF Owning
    <3> QED
      BY <3>1, <3>2
  <2>3. \A u \in Callers : Answer(u)' = Answer(u)
    BY <2>1, <2>2 DEF Answer, Owning
  <2> QED
    BY <2>1, <2>3, <1>f
<1>7. ASSUME NEW t \in Callers, DeliveryFails(t) PROVE Service!Next \/ UNCHANGED <<Reachable, Answers>>
  BY <1>7, <1>m DEF DeliveryFails, Stages, Owning
<1>8. ASSUME NEW t \in Callers, ObserveComplete(t) PROVE Service!Next \/ UNCHANGED <<Reachable, Answers>>
  <2>1. \A c \in Lps : ack[c] >= call[t].epoch
    BY <1>8, <1>t DEF ObserveComplete, FirstIncomplete
  <2>2. \A c \in Lps : Clean(t, c)
    BY <1>8, <2>1 DEF ObserveComplete, Inv, EpochsSpeak, Owning
  <2> QED
    BY <1>8, <2>2, <1>m DEF ObserveComplete, Stages
<1>9. ASSUME NEW t \in Callers, ObserveTimeout(t) PROVE Service!Next \/ UNCHANGED <<Reachable, Answers>>
  BY <1>9, <1>m DEF ObserveTimeout, Stages, Owning
<1>10. ASSUME NEW t \in Callers, Reuse(t) PROVE Service!Next \/ UNCHANGED <<Reachable, Answers>>
  BY <1>10, <1>m DEF Reuse, Stages
<1>11. ASSUME NEW t \in Callers, Retry(t) PROVE Service!Next \/ UNCHANGED <<Reachable, Answers>>
  BY <1>11, <1>m DEF Retry, Stages
<1>12. ASSUME NEW c \in Lps, HandlerCapture(c) \/ HandlerFlush(c) \/ HandlerAcknowledge(c)
       PROVE  Service!Next \/ UNCHANGED <<Reachable, Answers>>
  <2>1. UNCHANGED call
    BY <1>12 DEF HandlerCapture, HandlerFlush, HandlerAcknowledge
  <2>2. \A u \in Callers : Answer(u)' = Answer(u)
    BY <2>1 DEF Answer
  <2>3. cached' = cached \/ cached' = [cached EXCEPT ![c] = {}]
    BY <1>12 DEF HandlerCapture, HandlerFlush, HandlerAcknowledge
  <2>4. \A d \in Lps : cached'[d] \in SUBSET cached[d]
    BY <2>3, <1>t
  <2> QED
    BY <2>2, <2>4, <1>f
<1>13. ASSUME UNCHANGED vars PROVE Service!Next \/ UNCHANGED <<Reachable, Answers>>
  <2>1. UNCHANGED <<call, cached>>
    BY <1>13 DEF vars
  <2> QED
    BY <2>1 DEF Reachable, Answers, Answer
<1> QED
  BY <1>1, <1>2, <1>3, <1>4, <1>5, <1>6, <1>7, <1>8, <1>9, <1>10, <1>11, <1>12, <1>13
  DEF Next, CallerStep

(* The rendezvous implements the invalidation service: a confirmed answer  *)
(* is given only when no processor may still cache the detached mapping.   *)
THEOREM RendezvousImplementsInvalidation == Spec => ImplementsInvalidation
<1>1. Init => Service!Init
  BY ServiceInit
<1>2. Inv /\ [Next]_vars => [Service!Next]_<<UNION {cached[c] : c \in Lps}, [t \in Callers |-> Answer(t)]>>
  BY ServiceStep DEF Reachable, Answers
<1> QED
  BY <1>1, <1>2, InitInv, NextInv, PTL DEF Spec, ImplementsInvalidation, Service!Spec
=============================================================================
