---------------------------- MODULE RelMsgProofs ----------------------------
(***************************************************************************)
(* Proofs about RelMsg for every set of machines and messages and every    *)
(* value of the bounds, as long as the NIC takes all frames of a message   *)
(* or none (PartialSend = FALSE).                                          *)
(*                                                                         *)
(* The argument: the session and sequence number a message was sent under  *)
(* (its key) grow with the order of acceptance, so a key denotes one       *)
(* message.  Everything in the system is behind the sender's next key: the *)
(* frames on the wire, the position of the receiver and the                *)
(* acknowledgements.  A key below the receiver's position was delivered,   *)
(* and an acknowledgement names a delivered key; a log only holds keys     *)
(* below the receiver's position.                                          *)
(***************************************************************************)
EXTENDS RelMsg, SequenceTheorems, TLAPS

Parts == UNION {[S -> Msgs] : S \in SUBSET Nat}
Assemblies == [seq : Nat, total : Nat, parts : Parts]
RxRecord == [session : Session, next : Nat \ {0}, asm : Assemblies]

Types ==
    /\ generation \in [Nodes -> Nat \ {0}]
    /\ tx \in [Nodes -> [Nodes -> TxRecord]]
    /\ rx \in [Nodes -> [Nodes -> RxRecord]]
    /\ received \in [Nodes -> Seq(Parts)]
    /\ pendingRecv \in [Nodes -> BOOLEAN]
    /\ wire \subseteq DataFrames \cup AckFrames
    /\ reply \in [Msgs -> Replies]
    /\ key \in [Msgs -> [session : Session, seq : Nat]]
    /\ accepted \in Nat
    /\ order \in [Msgs -> Nat]
    /\ log \in [Nodes -> Seq(Parts)]
    /\ done \subseteq Msgs

(* A session some service has used.                                        *)
Proper(s) == s.gen # 0 /\ s.attempt # 0

(* Position (s, i) is below what transmit half t will use next.            *)
Behind(s, i, t) == t.session # Exhausted => Before(s, i, t.session, t.next)

SenderInv ==
    \A n, p \in Nodes :
        LET t == tx[n][p] IN
        /\ t.session # Exhausted =>
              Proper(t.session) /\ t.session.gen = generation[n]
        /\ t.msg # NoMsg =>
              /\ t.session # Exhausted
              /\ Source[t.msg] = n
              /\ Dest[t.msg] = p
              /\ key[t.msg].session = t.session
              /\ key[t.msg].seq = t.seq
              /\ order[t.msg] > 0
              /\ reply[t.msg] = "waiting"

WaitingInv == \A m \in Msgs : reply[m] = "waiting" => tx[Source[m]][Dest[m]].msg = m

AcceptedInv ==
    \A m \in Msgs :
        /\ order[m] <= accepted
        /\ reply[m] \in {"idle", "busy"} => order[m] = 0
        /\ order[m] > 0 =>
              /\ Proper(key[m].session)
              /\ key[m].seq > 0
              /\ key[m].session.gen <= generation[Source[m]]
              /\ Behind(key[m].session, key[m].seq, tx[Source[m]][Dest[m]])

OrderInv ==
    \A m, k \in Msgs :
        order[m] > 0 /\ order[k] > 0 =>
            /\ order[m] = order[k] => m = k
            /\ Source[m] = Source[k] /\ Dest[m] = Dest[k] /\ order[m] < order[k] =>
                  Before(key[m].session, key[m].seq, key[k].session, key[k].seq)

DataInv ==
    \A f \in wire \cap DataFrames :
        /\ order[f.part] > 0
        /\ key[f.part].session = f.session
        /\ key[f.part].seq = f.seq
        /\ f.src = Source[f.part]
        /\ f.dst = Dest[f.part]
        /\ f.total = Size[f.part]
        /\ f.offset \in 1..f.total

(* Every accepted message of p for n with session s and sequence number i  *)
(* was delivered.                                                          *)
DeliveredAt(p, n, s, i) ==
    \A m \in Msgs : order[m] > 0 /\ Source[m] = p /\ Dest[m] = n /\ key[m].session = s
                    /\ key[m].seq = i => m \in done

(* The buffered fragments are parts of accepted messages of p for n with   *)
(* session s and the sequence number of the reassembly.                    *)
FragmentsOf(a, s, n, p) ==
    \A k \in DOMAIN a.parts :
        /\ order[a.parts[k]] > 0
        /\ Source[a.parts[k]] = p
        /\ Dest[a.parts[k]] = n
        /\ key[a.parts[k]].session = s
        /\ key[a.parts[k]].seq = a.seq

ReceiverInv ==
    \A n, p \in Nodes :
        LET r == rx[n][p] IN
        /\ r.session.gen <= generation[p]
        /\ r.session # Exhausted => Proper(r.session)
        /\ r.session = Exhausted => r.next = 1 /\ r.asm = NoReassembly
        /\ Behind(r.session, r.next - 1, tx[p][n])
        /\ \A i \in Nat : i < r.next => DeliveredAt(p, n, r.session, i)
        /\ FragmentsOf(r.asm, r.session, n, p)

LogInv ==
    \A n \in Nodes : \A i \in 1..Len(log[n]) :
        \E m \in Msgs :
            /\ log[n][i] = Whole(m)
            /\ Dest[m] = n
            /\ order[m] > 0
            /\ Before(key[m].session, key[m].seq,
                      rx[n][Source[m]].session, rx[n][Source[m]].next)

AckInv ==
    \A f \in wire \cap AckFrames :
        /\ Proper(f.session)
        /\ f.session.gen <= generation[f.dst]
        /\ Behind(f.session, f.ack, tx[f.dst][f.src])
        /\ DeliveredAt(f.dst, f.src, f.session, f.ack)

QueueInv == \A n \in Nodes :
    /\ Len(received[n]) <= MaxReceived
    /\ pendingRecv[n] => received[n] = <<>>

Inv ==
    /\ Types
    /\ SenderInv
    /\ WaitingInv
    /\ AcceptedInv
    /\ OrderInv
    /\ DataInv
    /\ ReceiverInv
    /\ LogInv
    /\ AckInv
    /\ QueueInv

-----------------------------------------------------------------------------
(* Positions are ordered                                                   *)

(* A position is not below itself.                                         *)
LEMMA BeforeIrreflexive ==
    ASSUME NEW s \in Session, NEW i \in Nat
    PROVE  ~Before(s, i, s, i)
BY DEF Before, Older, Session

(* Positions below each other are ordered transitively.                    *)
LEMMA BeforeTransitive ==
    ASSUME NEW s \in Session, NEW t \in Session, NEW u \in Session,
           NEW i \in Nat, NEW j \in Nat, NEW k \in Nat,
           Before(s, i, t, j), Before(t, j, u, k)
    PROVE  Before(s, i, u, k)
BY DEF Before, Older, Session

(* Sessions of an earlier generation are below every session of a later.   *)
LEMMA OlderGeneration ==
    ASSUME NEW s \in Session, NEW g \in Nat, s.gen < g, NEW i \in Nat
    PROVE  Before(s, i, InitialSession(g), 1)
BY DEF Before, Older, Session, InitialSession

(* Abandoning a session moves the transmit half forward, or disables it.   *)
LEMMA NextSessionForward ==
    ASSUME NEW s \in Session, NextSession(s) # Exhausted
    PROVE  /\ NextSession(s) \in Session
           /\ Older(s, NextSession(s))
           /\ NextSession(s).gen = s.gen
           /\ Proper(NextSession(s))
<1>1. s.gen # 0 /\ s.attempt # 0 /\ NextSession(s) = [s EXCEPT !.attempt = @ + 1]
  BY DEF NextSession
<1>2. s.gen \in Nat /\ s.attempt \in Nat
  BY DEF Session
<1>3. NextSession(s) = [gen |-> s.gen, attempt |-> s.attempt + 1]
  BY <1>1, <1>2 DEF Session
<1> QED
  BY <1>1, <1>2, <1>3 DEF Session, Older, Proper

LEMMA NextSessionType ==
    ASSUME NEW s \in Session
    PROVE  NextSession(s) \in Session
<1>1. s.gen \in Nat /\ s.attempt \in Nat
  BY DEF Session
<1>2. s = [gen |-> s.gen, attempt |-> s.attempt]
  BY DEF Session
<1> QED
  BY <1>1, <1>2 DEF NextSession, Session, Exhausted

(* Exhausted is below every session in use.                                *)
LEMMA ExhaustedLowest ==
    ASSUME NEW s \in Session, Proper(s), NEW i \in Nat, NEW j \in Nat
    PROVE  Before(Exhausted, i, s, j)
BY DEF Before, Older, Session, Exhausted, Proper

(* What a transmit half passes stays behind it.                            *)
LEMMA BehindForward ==
    ASSUME NEW s \in Session, NEW i \in Nat, NEW t \in TxRecord, NEW u \in TxRecord,
           Behind(s, i, t),
           u.session # Exhausted =>
              \/ t.session # Exhausted /\ Before(t.session, t.next, u.session, u.next)
              \/ t.session = u.session /\ t.next <= u.next
    PROVE  Behind(s, i, u)
<1> SUFFICES ASSUME u.session # Exhausted
             PROVE  Before(s, i, u.session, u.next)
  BY DEF Behind
<1>1. t.session \in Session /\ t.next \in Nat /\ u.session \in Session /\ u.next \in Nat
  BY DEF TxRecord
<1>2. Before(s, i, t.session, t.next)
  BY DEF Behind
<1>3. CASE Before(t.session, t.next, u.session, u.next)
  BY <1>1, <1>2, <1>3, BeforeTransitive
<1>4. CASE t.session = u.session /\ t.next <= u.next
  BY <1>1, <1>2, <1>4 DEF Before
<1> QED
  BY <1>3, <1>4
-----------------------------------------------------------------------------
(* Steps of the transmit half                                              *)

(* The transmit half u is where t was, or further on.                      *)
Forward(t, u) ==
    u.session # Exhausted =>
       \/ t.session # Exhausted /\ Before(t.session, t.next, u.session, u.next)
       \/ t.session = u.session /\ t.next <= u.next

(* Moving transmit halves forward disturbs nothing that lies behind them.  *)
LEMMA TransmitForward ==
    ASSUME Inv, Types',
           \A n, p \in Nodes : Forward(tx[n][p], tx'[n][p]),
           \A m \in Msgs : reply'[m] \in {"idle", "busy"} => reply[m] \in {"idle", "busy"},
           UNCHANGED <<generation, rx, wire, history>>
    PROVE  /\ AcceptedInv'
           /\ OrderInv'
           /\ DataInv'
           /\ ReceiverInv'
           /\ LogInv'
           /\ AckInv'
<1> USE DEF history
<1>1. /\ \A n, p \in Nodes : tx[n][p] \in TxRecord /\ tx'[n][p] \in TxRecord
      /\ \A n, p \in Nodes : rx[n][p] \in RxRecord
      /\ \A m \in Msgs : key[m].session \in Session /\ key[m].seq \in Nat
      /\ \A m \in Msgs : Source[m] \in Nodes /\ Dest[m] \in Nodes
  BY ChannelAssumption DEF Inv, Types
<1>2. \A n, p \in Nodes : \A s \in Session : \A i \in Nat :
         Behind(s, i, tx[n][p]) => Behind(s, i, tx'[n][p])
  <2> TAKE n, p \in Nodes
  <2> TAKE s \in Session
  <2> TAKE i \in Nat
  <2>1. tx[n][p] \in TxRecord /\ tx'[n][p] \in TxRecord
    BY <1>1
  <2>2. Forward(tx[n][p], tx'[n][p])
    OBVIOUS
  <2> QED
    BY <2>1, <2>2, BehindForward DEF Forward
<1>3. AcceptedInv'
  <2> SUFFICES ASSUME NEW m \in Msgs
               PROVE  /\ order[m] <= accepted
                      /\ reply'[m] \in {"idle", "busy"} => order[m] = 0
                      /\ order[m] > 0 =>
                            /\ Proper(key[m].session)
                            /\ key[m].seq > 0
                            /\ key[m].session.gen <= generation[Source[m]]
                            /\ Behind(key[m].session, key[m].seq, tx'[Source[m]][Dest[m]])
    BY DEF AcceptedInv, Behind
  <2>1. AcceptedInv
    BY DEF Inv
  <2> QED
    BY <1>1, <1>2, <2>1 DEF AcceptedInv
<1>4. OrderInv'
  BY DEF Inv, OrderInv
<1>5. DataInv'
  BY DEF Inv, DataInv
<1>6. ReceiverInv'
  <2> SUFFICES ASSUME NEW n \in Nodes, NEW p \in Nodes
               PROVE  Behind(rx[n][p].session, rx[n][p].next - 1, tx'[p][n])
    BY DEF Inv, ReceiverInv, Behind, DeliveredAt, FragmentsOf
  <2>1. rx[n][p].session \in Session /\ rx[n][p].next - 1 \in Nat
    BY <1>1 DEF RxRecord
  <2>2. Behind(rx[n][p].session, rx[n][p].next - 1, tx[p][n])
    BY DEF Inv, ReceiverInv
  <2> QED
    BY <1>2, <2>1, <2>2
<1>7. LogInv'
  BY DEF Inv, LogInv
<1>8. AckInv'
  <2> SUFFICES ASSUME NEW f \in wire \cap AckFrames
               PROVE  Behind(f.session, f.ack, tx'[f.dst][f.src])
    BY DEF Inv, AckInv, Behind, DeliveredAt
  <2>1. f.session \in Session /\ f.ack \in Nat /\ f.src \in Nodes /\ f.dst \in Nodes
    BY DEF AckFrames
  <2>2. Behind(f.session, f.ack, tx[f.dst][f.src])
    BY DEF Inv, AckInv
  <2> QED
    BY <1>2, <2>1, <2>2
<1> QED
  BY <1>3, <1>4, <1>5, <1>6, <1>7, <1>8

(* Two facts used throughout: the type of a transmit half, and that it is  *)
(* where it was.                                                           *)
LEMMA TxType ==
    ASSUME Types, NEW n \in Nodes, NEW p \in Nodes
    PROVE  /\ tx[n][p] \in TxRecord
           /\ tx[n][p].session \in Session
           /\ tx[n][p].next \in Nat \ {0}
           /\ tx[n][p].msg \in Msgs \cup {NoMsg}
           /\ tx[n][p].seq \in Nat
           /\ tx[n][p].retries \in Nat
           /\ tx[n][p].ticks \in Nat
<1>1. tx \in [Nodes -> [Nodes -> TxRecord]]
  BY DEF Types
<1>2. tx[n][p] \in TxRecord
  BY <1>1
<1> QED
  BY <1>2 DEF TxRecord

LEMMA RxType ==
    ASSUME Types, NEW n \in Nodes, NEW p \in Nodes
    PROVE  /\ rx[n][p] \in RxRecord
           /\ rx[n][p].session \in Session
           /\ rx[n][p].next \in Nat \ {0}
           /\ rx[n][p].asm \in Assemblies
           /\ rx[n][p].asm.seq \in Nat
           /\ rx[n][p].asm.total \in Nat
           /\ rx[n][p].asm.parts \in Parts
<1>1. rx \in [Nodes -> [Nodes -> RxRecord]]
  BY DEF Types
<1>2. rx[n][p] \in RxRecord
  BY <1>1
<1>3. /\ rx[n][p].session \in Session
      /\ rx[n][p].next \in Nat \ {0}
      /\ rx[n][p].asm \in Assemblies
  BY <1>2 DEF RxRecord
<1> QED
  BY <1>2, <1>3 DEF Assemblies

(* The contents of a buffered fragment is a message.                       *)
LEMMA PartsType ==
    ASSUME NEW a \in Parts, NEW k \in DOMAIN a
    PROVE  a[k] \in Msgs
<1>1. PICK S \in SUBSET Nat : a \in [S -> Msgs]
  BY DEF Parts
<1> QED
  BY <1>1

LEMMA NoPartsType ==
    NoReassembly \in Assemblies /\ NoParts \in Parts /\ DOMAIN NoParts = {}
<1>1. NoParts \in [{} -> Msgs]
  BY DEF NoParts
<1>2. NoParts \in Parts
  <2>1. {} \in SUBSET Nat
    OBVIOUS
  <2> QED
    BY <1>1, <2>1 DEF Parts
<1> QED
  BY <1>1, <1>2 DEF NoReassembly, Assemblies

(* What is known of a message in flight.                                   *)
LEMMA InFlight ==
    ASSUME Inv, NEW n \in Nodes, NEW p \in Nodes, tx[n][p].msg # NoMsg
    PROVE  /\ tx[n][p].msg \in Msgs
           /\ tx[n][p].session # Exhausted
           /\ Source[tx[n][p].msg] = n
           /\ Dest[tx[n][p].msg] = p
           /\ key[tx[n][p].msg].session = tx[n][p].session
           /\ key[tx[n][p].msg].seq = tx[n][p].seq
           /\ order[tx[n][p].msg] > 0
           /\ reply[tx[n][p].msg] = "waiting"
<1>1. SenderInv
  BY DEF Inv
<1>2. tx[n][p].msg \in Msgs
  BY TxType DEF Inv
<1> QED
  BY <1>1, <1>2 DEF SenderInv

LEMMA ForwardSame ==
    ASSUME NEW t \in TxRecord
    PROVE  Forward(t, t)
BY DEF Forward, TxRecord

(* A reply to a call that is not in flight leaves the transmit halves as   *)
(* they are.                                                               *)
LEMMA OtherReply ==
    ASSUME Inv, NEW m \in Msgs, reply[m] # "waiting", NEW v, v # "waiting",
           reply' = [reply EXCEPT ![m] = v],
           UNCHANGED <<generation, tx, history>>
    PROVE  SenderInv' /\ WaitingInv'
<1> USE DEF history
<1>1. \A k \in Msgs : reply'[k] = IF k = m THEN v ELSE reply[k]
  BY DEF Inv, Types
<1>2. WaitingInv'
  BY <1>1 DEF Inv, WaitingInv
<1>3. SenderInv'
  <2> SUFFICES ASSUME NEW n \in Nodes, NEW p \in Nodes, tx[n][p].msg # NoMsg
               PROVE  reply'[tx[n][p].msg] = "waiting"
    BY DEF Inv, SenderInv
  <2>1. tx[n][p].msg \in Msgs /\ reply[tx[n][p].msg] = "waiting"
    BY InFlight
  <2> QED
    BY <1>1, <2>1
<1> QED
  BY <1>2, <1>3

(* A refused call changes nothing but its reply.                           *)
LEMMA SendRefusedStep ==
    ASSUME Inv, NEW m \in Msgs, SendRefused(m)
    PROVE  Inv'
<1> USE DEF SendRefused, history
<1>1. Refusal(Source[m], m) \in {"unknown", "busy", "unreachable"}
  BY DEF Refusal
<1>2. Types'
  BY <1>1 DEF Inv, Types, Replies
<1>3. /\ reply[m] \in {"idle", "busy"}
      /\ \A k \in Msgs : reply'[k] = IF k = m THEN Refusal(Source[m], m) ELSE reply[k]
  BY DEF Inv, Types
<1>4. SenderInv' /\ WaitingInv'
  BY <1>1, <1>3, OtherReply DEF Inv
<1>5. \A n, p \in Nodes : Forward(tx[n][p], tx'[n][p])
  BY ForwardSame, TxType DEF Inv
<1>6. QueueInv'
  BY DEF Inv, QueueInv
<1> QED
  BY <1>1, <1>2, <1>3, <1>4, <1>5, <1>6, TransmitForward DEF Inv

(* A send that fails before its first frame changes nothing but its reply. *)
LEMMA SendFailsStep ==
    ASSUME Inv, ~PartialSend, NEW m \in Msgs, NEW k \in 0..Size[m], SendFails(m, k)
    PROVE  Inv' /\ UNCHANGED wire
<1> USE DEF SendFails, history
<1>1. k = 0
  OBVIOUS
<1>2. wire' = wire
  BY <1>1 DEF Frames
<1>3. Types'
  BY <1>2 DEF Inv, Types, Replies
<1>4. /\ reply[m] \in {"idle", "busy"}
      /\ \A j \in Msgs : reply'[j] = IF j = m THEN "unreachable" ELSE reply[j]
  BY DEF Inv, Types
<1>5. SenderInv' /\ WaitingInv'
  BY <1>4, OtherReply DEF Inv
<1>6. \A n, p \in Nodes : Forward(tx[n][p], tx'[n][p])
  BY ForwardSame, TxType DEF Inv
<1>7. QueueInv'
  BY DEF Inv, QueueInv
<1> QED
  BY <1>2, <1>3, <1>4, <1>5, <1>6, <1>7, TransmitForward DEF Inv
(* The timer moves transmit halves forward and answers the calls whose     *)
(* lease is over.                                                          *)
LEMMA RetriedFacts ==
    ASSUME NEW t \in TxRecord
    PROVE  /\ Retried(t) \in TxRecord
           /\ Forward(t, Retried(t))
           /\ t.msg # NoMsg /\ ~LeaseEnds(t) =>
                 /\ Retried(t).msg = t.msg
                 /\ Retried(t).seq = t.seq
                 /\ Retried(t).session = t.session
           /\ t.msg = NoMsg \/ LeaseEnds(t) => Retried(t).msg = NoMsg
           /\ Retried(t).session # Exhausted /\ t.session # Exhausted =>
                 \/ Retried(t).session = t.session
                 \/ Proper(Retried(t).session) /\ Retried(t).session.gen = t.session.gen
           /\ t.session = Exhausted => Retried(t).session = Exhausted
<1>1. /\ t.session \in Session /\ t.next \in Nat \ {0} /\ t.msg \in Msgs \cup {NoMsg}
      /\ t.seq \in Nat /\ t.retries \in Nat /\ t.ticks \in Nat
      /\ t = [session |-> t.session, next |-> t.next, msg |-> t.msg, seq |-> t.seq,
              retries |-> t.retries, ticks |-> t.ticks]
  BY DEF TxRecord
<1>2. CASE t.msg = NoMsg
  BY <1>1, <1>2, ForwardSame DEF Retried, LeaseEnds
<1>3. CASE t.msg # NoMsg /\ t.ticks > 1
  <2>1. Retried(t) = [session |-> t.session, next |-> t.next, msg |-> t.msg, seq |-> t.seq,
                      retries |-> t.retries, ticks |-> t.ticks - 1]
    BY <1>1, <1>3 DEF Retried
  <2> QED
    BY <1>1, <1>3, <2>1 DEF LeaseEnds, TxRecord, Forward
<1>4. CASE t.msg # NoMsg /\ ~(t.ticks > 1) /\ t.retries >= MaxRetries
  <2>1. Retried(t) = Quiet(NextSession(t.session), 1)
    BY <1>4 DEF Retried
  <2>2. LeaseEnds(t)
    BY <1>1, <1>4 DEF LeaseEnds
  <2>3. NextSession(t.session) \in Session
    BY <1>1, NextSessionType
  <2>4. Retried(t) \in TxRecord
    BY <2>1, <2>3 DEF Quiet, TxRecord
  <2>5. /\ Retried(t).msg = NoMsg
        /\ Retried(t).session = NextSession(t.session)
        /\ Retried(t).next = 1
    BY <2>1 DEF Quiet
  <2>6. t.session = Exhausted => NextSession(t.session) = Exhausted
    BY DEF NextSession, Exhausted
  <2>7. NextSession(t.session) # Exhausted =>
           /\ Before(t.session, t.next, NextSession(t.session), 1)
           /\ Proper(NextSession(t.session))
           /\ NextSession(t.session).gen = t.session.gen
    BY <1>1, NextSessionForward DEF Before
  <2> QED
    BY <1>4, <2>2, <2>4, <2>5, <2>6, <2>7 DEF Forward
<1>5. CASE t.msg # NoMsg /\ ~(t.ticks > 1) /\ ~(t.retries >= MaxRetries)
  <2>1. Retried(t) = [session |-> t.session, next |-> t.next, msg |-> t.msg, seq |-> t.seq,
                      retries |-> t.retries + 1, ticks |-> RetryDelay(t.msg)]
    BY <1>1, <1>5 DEF Retried
  <2>2. RetryDelay(t.msg) \in Nat
    BY <1>1, <1>5, ChannelAssumption, BoundAssumption DEF RetryDelay
  <2> QED
    BY <1>1, <1>5, <2>1, <2>2 DEF LeaseEnds, TxRecord, Forward
<1> QED
  BY <1>2, <1>3, <1>4, <1>5

(* In flight to one peer only.                                             *)
LEMMA InFlightOnce ==
    ASSUME Inv, NEW n \in Nodes, NEW p \in Nodes, NEW o \in Nodes, NEW q \in Nodes,
           tx[n][p].msg # NoMsg, tx[n][p].msg = tx[o][q].msg
    PROVE  n = o /\ p = q
<1>1. Source[tx[n][p].msg] = n /\ Dest[tx[n][p].msg] = p
  BY InFlight
<1>2. Source[tx[o][q].msg] = o /\ Dest[tx[o][q].msg] = q
  BY InFlight
<1> QED
  BY <1>1, <1>2

LEMMA TickStep ==
    ASSUME Inv, NEW n \in Nodes, Tick(n)
    PROVE  Inv'
<1> USE DEF Tick, history
<1> DEFINE ended(m) == \E p \in Nodes : tx[n][p].msg = m /\ LeaseEnds(tx[n][p])
<1>1. /\ tx \in [Nodes -> [Nodes -> TxRecord]]
      /\ reply \in [Msgs -> Replies]
  BY DEF Inv, Types
<1>2. /\ \A p \in Nodes : tx'[n][p] = Retried(tx[n][p])
      /\ \A o, p \in Nodes : o # n => tx'[o][p] = tx[o][p]
      /\ DOMAIN tx' = Nodes
  BY <1>1
<1>3. \A m \in Msgs : reply'[m] = IF ended(m) THEN "unreachable" ELSE reply[m]
  OBVIOUS
<1>4. \A p \in Nodes : Retried(tx[n][p]) \in TxRecord
  BY RetriedFacts, TxType DEF Inv
<1>5. Types'
  <2>1. tx' \in [Nodes -> [Nodes -> TxRecord]]
    BY <1>1, <1>4
  <2>2. reply' \in [Msgs -> Replies]
    BY <1>1 DEF Replies
  <2> QED
    BY <2>1, <2>2 DEF Inv, Types
<1>6. \A o, p \in Nodes : Forward(tx[o][p], tx'[o][p])
  BY <1>2, RetriedFacts, ForwardSame, TxType DEF Inv
<1>7. \A m \in Msgs : ended(m) => reply[m] = "waiting"
  <2> SUFFICES ASSUME NEW p \in Nodes, LeaseEnds(tx[n][p])
               PROVE  reply[tx[n][p].msg] = "waiting"
    OBVIOUS
  <2>1. tx[n][p].msg # NoMsg
    BY DEF LeaseEnds
  <2> QED
    BY <2>1, InFlight
<1>8. SenderInv'
  <2> SUFFICES ASSUME NEW o \in Nodes, NEW p \in Nodes
               PROVE  LET t == tx'[o][p] IN
                      /\ t.session # Exhausted =>
                            Proper(t.session) /\ t.session.gen = generation[o]
                      /\ t.msg # NoMsg =>
                            /\ t.session # Exhausted
                            /\ Source[t.msg] = o
                            /\ Dest[t.msg] = p
                            /\ key[t.msg].session = t.session
                            /\ key[t.msg].seq = t.seq
                            /\ order[t.msg] > 0
                            /\ reply'[t.msg] = "waiting"
    BY DEF SenderInv
  <2>1. tx[o][p] \in TxRecord /\ tx[o][p].msg \in Msgs \cup {NoMsg}
    BY TxType DEF Inv
  <2>2. CASE o # n
    <3>1. tx'[o][p] = tx[o][p]
      BY <1>2, <2>2
    <3>2. tx[o][p].msg # NoMsg => ~ended(tx[o][p].msg)
      BY <2>2, InFlightOnce
    <3> QED
      BY <1>3, <2>1, <3>1, <3>2, SMTT(30) DEF Inv, SenderInv
  <2>3. CASE o = n
    <3>1. tx'[o][p] = Retried(tx[o][p])
      BY <1>2, <2>3
    <3>2. CASE tx[o][p].msg = NoMsg \/ LeaseEnds(tx[o][p])
      <4>1. SenderInv
        BY DEF Inv
      <4>2. tx[o][p].session # Exhausted =>
               Proper(tx[o][p].session) /\ tx[o][p].session.gen = generation[o]
        BY <4>1 DEF SenderInv
      <4>3. Retried(tx[o][p]).msg = NoMsg
        BY <2>1, <3>2, RetriedFacts
      <4>4. Retried(tx[o][p]).session # Exhausted =>
               \/ Retried(tx[o][p]).session = tx[o][p].session
               \/ /\ Proper(Retried(tx[o][p]).session)
                  /\ Retried(tx[o][p]).session.gen = tx[o][p].session.gen
        BY <2>1, RetriedFacts
      <4>5. tx[o][p].session = Exhausted => Retried(tx[o][p]).session = Exhausted
        BY <2>1, RetriedFacts
      <4> QED
        BY <3>1, <4>2, <4>3, <4>4, <4>5
    <3>3. CASE tx[o][p].msg # NoMsg /\ ~LeaseEnds(tx[o][p])
      <4>1. ~ended(tx[o][p].msg)
        BY <2>3, <3>3, InFlightOnce
      <4>2. /\ Retried(tx[o][p]).msg = tx[o][p].msg
            /\ Retried(tx[o][p]).seq = tx[o][p].seq
            /\ Retried(tx[o][p]).session = tx[o][p].session
        BY <2>1, <3>3, RetriedFacts
      <4> QED
        BY <1>3, <2>1, <3>1, <3>3, <4>1, <4>2 DEF Inv, SenderInv
    <3> QED
      BY <3>2, <3>3
  <2> QED
    BY <2>2, <2>3
<1>9. WaitingInv'
  <2> SUFFICES ASSUME NEW m \in Msgs, reply'[m] = "waiting"
               PROVE  tx'[Source[m]][Dest[m]].msg = m
    BY DEF WaitingInv
  <2>1. Source[m] \in Nodes /\ Dest[m] \in Nodes
    BY ChannelAssumption
  <2>2. reply[m] = "waiting" /\ ~ended(m)
    BY <1>3
  <2>3. tx[Source[m]][Dest[m]].msg = m /\ m # NoMsg
    BY <2>2, ChannelAssumption DEF Inv, WaitingInv
  <2>4. CASE Source[m] # n
    BY <1>2, <2>1, <2>3, <2>4
  <2>5. CASE Source[m] = n
    <3>1. ~LeaseEnds(tx[n][Dest[m]])
      BY <2>1, <2>2, <2>3, <2>5
    <3> QED
      BY <1>2, <2>1, <2>3, <2>5, <3>1, RetriedFacts, TxType DEF Inv
  <2> QED
    BY <2>4, <2>5
<1>10. QueueInv'
  BY DEF Inv, QueueInv
<1>11. \A m \in Msgs : reply'[m] \in {"idle", "busy"} => reply[m] \in {"idle", "busy"}
  BY <1>3, SMTT(30)
<1> QED
  BY <1>5, <1>6, <1>8, <1>9, <1>10, <1>11, TransmitForward DEF Inv
(* An acknowledgement empties the transmit half it completes.              *)
LEMMA ReceiveAckStep ==
    ASSUME Inv, NEW f \in wire \cap AckFrames, ReceiveAck(f)
    PROVE  /\ Inv'
           /\ reply[tx[f.dst][f.src].msg] = "waiting"
           /\ tx[f.dst][f.src].msg \in done
<1> DEFINE n == f.dst
           p == f.src
           t == tx[n][p]
<1>1. n \in Nodes /\ p \in Nodes /\ f.session \in Session /\ f.ack \in Nat
  BY DEF AckFrames
<1>2. /\ t.msg # NoMsg
      /\ f.session = t.session
      /\ f.ack = t.seq
      /\ tx' = [tx EXCEPT ![n][p] = Quiet(t.session, t.next)]
      /\ reply' = [reply EXCEPT ![t.msg] = "ok"]
      /\ UNCHANGED <<generation, rx, received, pendingRecv, wire, history>>
  BY DEF ReceiveAck, Completes
<1>3. /\ t.msg \in Msgs
      /\ t.session # Exhausted
      /\ Source[t.msg] = n
      /\ Dest[t.msg] = p
      /\ key[t.msg].session = t.session
      /\ key[t.msg].seq = t.seq
      /\ order[t.msg] > 0
      /\ reply[t.msg] = "waiting"
  BY <1>1, <1>2, InFlight, SMTT(30)
<1>4. t.msg \in done
  <2>1. AckInv
    BY DEF Inv
  <2>2. DeliveredAt(n, p, f.session, f.ack)
    BY <2>1 DEF AckInv
  <2> QED
    BY <1>2, <1>3, <2>2 DEF DeliveredAt
<1>5. /\ t \in TxRecord
      /\ t.session \in Session
      /\ t.next \in Nat \ {0}
  BY <1>1, TxType, SMTT(30) DEF Inv
<1>6. /\ Quiet(t.session, t.next) \in TxRecord
      /\ Quiet(t.session, t.next).msg = NoMsg
      /\ Quiet(t.session, t.next).session = t.session
      /\ Quiet(t.session, t.next).next = t.next
  BY <1>5, SMTT(30) DEF Quiet, TxRecord
<1>7. /\ tx \in [Nodes -> [Nodes -> TxRecord]]
      /\ reply \in [Msgs -> Replies]
  BY SMTT(30) DEF Inv, Types
<1>8. /\ tx' \in [Nodes -> [Nodes -> TxRecord]]
      /\ tx'[n][p] = Quiet(t.session, t.next)
      /\ \A o, q \in Nodes : ~(o = n /\ q = p) => tx'[o][q] = tx[o][q]
  BY <1>1, <1>2, <1>6, <1>7, SMTT(30)
<1>9. /\ reply' \in [Msgs -> Replies]
      /\ \A m \in Msgs : reply'[m] = IF m = t.msg THEN "ok" ELSE reply[m]
  BY <1>2, <1>3, <1>7 DEF Replies
<1>10. Types'
  BY <1>2, <1>8, <1>9 DEF Inv, Types, history
<1>11. \A o, q \in Nodes : Forward(tx[o][q], tx'[o][q])
  <2> TAKE o, q \in Nodes
  <2>1. CASE o = n /\ q = p
    BY <1>5, <1>6, <1>8, <2>1 DEF Forward
  <2>2. CASE ~(o = n /\ q = p)
    BY <1>8, <2>2, ForwardSame, TxType DEF Inv
  <2> QED
    BY <2>1, <2>2
<1>12. generation' = generation /\ key' = key /\ order' = order
  BY <1>2 DEF history
<1>13. SenderInv'
  <2> SUFFICES ASSUME NEW o \in Nodes, NEW q \in Nodes
               PROVE  LET u == tx'[o][q] IN
                      /\ u.session # Exhausted =>
                            Proper(u.session) /\ u.session.gen = generation[o]
                      /\ u.msg # NoMsg =>
                            /\ u.session # Exhausted
                            /\ Source[u.msg] = o
                            /\ Dest[u.msg] = q
                            /\ key[u.msg].session = u.session
                            /\ key[u.msg].seq = u.seq
                            /\ order[u.msg] > 0
                            /\ reply'[u.msg] = "waiting"
    BY <1>12 DEF SenderInv
  <2>1. SenderInv
    BY DEF Inv
  <2>2. CASE o = n /\ q = p
    <3>1. t.session # Exhausted => Proper(t.session) /\ t.session.gen = generation[n]
      BY <1>1, <2>1 DEF SenderInv
    <3> QED
      BY <1>6, <1>8, <2>2, <3>1
  <2>3. CASE ~(o = n /\ q = p)
    <3>1. tx'[o][q] = tx[o][q]
      BY <1>8, <2>3
    <3>2. tx[o][q].msg # NoMsg => tx[o][q].msg # t.msg
      BY <1>1, <1>2, <2>3, InFlightOnce
    <3>3. tx[o][q].msg # NoMsg => tx[o][q].msg \in Msgs
      BY TxType DEF Inv
    <3> QED
      BY <1>9, <2>1, <3>1, <3>2, <3>3 DEF SenderInv
  <2> QED
    BY <2>2, <2>3
<1>14. WaitingInv'
  <2> SUFFICES ASSUME NEW m \in Msgs, reply'[m] = "waiting"
               PROVE  tx'[Source[m]][Dest[m]].msg = m
    BY DEF WaitingInv
  <2>1. m # t.msg /\ reply[m] = "waiting"
    BY <1>9
  <2>2. tx[Source[m]][Dest[m]].msg = m
    BY <2>1 DEF Inv, WaitingInv
  <2>3. Source[m] \in Nodes /\ Dest[m] \in Nodes
    BY ChannelAssumption
  <2> QED
    BY <1>8, <2>1, <2>2, <2>3
<1>15. QueueInv'
  BY <1>2 DEF Inv, QueueInv
<1>16. \A m \in Msgs : reply'[m] \in {"idle", "busy"} => reply[m] \in {"idle", "busy"}
  BY <1>9
<1> QED
  BY <1>2, <1>3, <1>4, <1>10, <1>11, <1>13, <1>14, <1>15, <1>16, TransmitForward DEF Inv
(* A message is accepted: its frames get the next key of the transmit      *)
(* half, which is above everything there is.                               *)
LEMMA SendStep ==
    ASSUME Inv, NEW m \in Msgs, Send(m)
    PROVE  Inv'
<1> DEFINE n == Source[m]
           p == Dest[m]
           t == tx[n][p]
           u == [session |-> t.session, next |-> t.next + 1, msg |-> m, seq |-> t.next,
                 retries |-> 0, ticks |-> RetryDelay(m)]
           K == [session |-> t.session, seq |-> t.next]
<1>1. n \in Nodes /\ p \in Nodes /\ Size[m] \in Nat \ {0}
  BY ChannelAssumption
<1>2. /\ reply[m] \in {"idle", "busy"}
      /\ t.msg = NoMsg
      /\ t.session # Exhausted
      /\ wire' = wire \cup Frames(m, t.session, t.next, Size[m])
      /\ tx' = [tx EXCEPT ![n][p] = u]
      /\ reply' = [reply EXCEPT ![m] = "waiting"]
      /\ key' = [key EXCEPT ![m] = K]
      /\ accepted' = accepted + 1
      /\ order' = [order EXCEPT ![m] = accepted + 1]
      /\ generation' = generation /\ rx' = rx /\ received' = received
      /\ pendingRecv' = pendingRecv /\ log' = log /\ done' = done
  <2>1. Refusal(n, m) = "none"
    BY DEF Send
  <2>2. t.msg = NoMsg /\ t.session # Exhausted
    BY <2>1 DEF Refusal
  <2> QED
    BY <2>2 DEF Send
<1>3. /\ t \in TxRecord
      /\ t.session \in Session
      /\ t.next \in Nat \ {0}
  BY <1>1, TxType DEF Inv
<1>4. Proper(t.session) /\ t.session.gen = generation[n]
  <2>1. SenderInv
    BY DEF Inv
  <2> QED
    BY <1>1, <1>2, <2>1 DEF SenderInv
<1>5. u \in TxRecord
  BY <1>1, <1>3, ChannelAssumption, BoundAssumption DEF TxRecord, RetryDelay
<1>6. /\ tx \in [Nodes -> [Nodes -> TxRecord]]
      /\ reply \in [Msgs -> Replies]
      /\ key \in [Msgs -> [session : Session, seq : Nat]]
      /\ accepted \in Nat
      /\ order \in [Msgs -> Nat]
      /\ wire \subseteq DataFrames \cup AckFrames
      /\ generation \in [Nodes -> Nat \ {0}]
  BY DEF Inv, Types
<1>7. /\ tx' \in [Nodes -> [Nodes -> TxRecord]]
      /\ tx'[n][p] = u
      /\ \A o, q \in Nodes : ~(o = n /\ q = p) => tx'[o][q] = tx[o][q]
  BY <1>1, <1>2, <1>5, <1>6
<1>8. /\ reply' \in [Msgs -> Replies]
      /\ \A k \in Msgs : reply'[k] = IF k = m THEN "waiting" ELSE reply[k]
  BY <1>2, <1>6 DEF Replies
<1>9. /\ key' \in [Msgs -> [session : Session, seq : Nat]]
      /\ key'[m].session = t.session
      /\ key'[m].seq = t.next
      /\ \A k \in Msgs : k # m => key'[k] = key[k]
  BY <1>2, <1>3, <1>6
<1>10. /\ order' \in [Msgs -> Nat]
      /\ order'[m] = accepted + 1
      /\ \A k \in Msgs : k # m => order'[k] = order[k]
      /\ accepted' \in Nat
  BY <1>2, <1>6
<1>11. order[m] = 0
  BY <1>2 DEF Inv, AcceptedInv
<1>12. \A f \in Frames(m, t.session, t.next, Size[m]) :
          /\ f \in DataFrames
          /\ f.part = m
          /\ f.session = t.session
          /\ f.seq = t.next
          /\ f.src = n
          /\ f.dst = p
          /\ f.total = Size[m]
          /\ f.offset \in 1..Size[m]
          /\ f \notin AckFrames
  BY <1>1, <1>3 DEF Frames, DataFrame, DataFrames, AckFrames
<1>13. wire' \subseteq DataFrames \cup AckFrames
  BY <1>2, <1>6, <1>12, SMTT(30)
<1>14. Types'
  BY <1>2, <1>7, <1>8, <1>9, <1>10, <1>13 DEF Inv, Types
<1>15. \A o, q \in Nodes : \A s \in Session : \A i \in Nat :
          Behind(s, i, tx[o][q]) => Behind(s, i, tx'[o][q])
  <2> TAKE o, q \in Nodes
  <2> TAKE s \in Session
  <2> TAKE i \in Nat
  <2>1. CASE o = n /\ q = p
    BY <1>3, <1>7, <2>1 DEF Behind, Before
  <2>2. CASE ~(o = n /\ q = p)
    BY <1>7, <2>2
  <2> QED
    BY <2>1, <2>2
<1>16. /\ u.session = t.session
       /\ u.msg = m
       /\ u.seq = t.next
       /\ u.next = t.next + 1
  OBVIOUS
<1>17. generation' = generation
  BY <1>2
<1>18. SenderInv'
  <2> SUFFICES ASSUME NEW o \in Nodes, NEW q \in Nodes
               PROVE  /\ tx'[o][q].session # Exhausted =>
                            Proper(tx'[o][q].session) /\ tx'[o][q].session.gen = generation[o]
                      /\ tx'[o][q].msg # NoMsg =>
                            /\ tx'[o][q].session # Exhausted
                            /\ Source[tx'[o][q].msg] = o
                            /\ Dest[tx'[o][q].msg] = q
                            /\ key'[tx'[o][q].msg].session = tx'[o][q].session
                            /\ key'[tx'[o][q].msg].seq = tx'[o][q].seq
                            /\ order'[tx'[o][q].msg] > 0
                            /\ reply'[tx'[o][q].msg] = "waiting"
    BY <1>17 DEF SenderInv
  <2>1. CASE o = n /\ q = p
    <3>1. /\ tx'[o][q].session = t.session
          /\ tx'[o][q].msg = m
          /\ tx'[o][q].seq = t.next
      BY <1>7, <1>16, <2>1
    <3>2. reply'[m] = "waiting" /\ order'[m] > 0
      BY <1>6, <1>8, <1>10
    <3>3. t.session # Exhausted
      BY <1>2
    <3> QED
      BY <1>4, <1>9, <2>1, <3>1, <3>2, <3>3
  <2>2. CASE ~(o = n /\ q = p)
    <3>1. tx'[o][q] = tx[o][q]
      BY <1>7, <2>2
    <3>2. tx[o][q].msg # NoMsg => tx[o][q].msg \in Msgs /\ tx[o][q].msg # m
      <4> HAVE tx[o][q].msg # NoMsg
      <4>1. tx[o][q].msg \in Msgs /\ Source[tx[o][q].msg] = o /\ Dest[tx[o][q].msg] = q
        BY InFlight
      <4> QED
        BY <2>2, <4>1
    <3>3. SenderInv
      BY DEF Inv
    <3> QED
      BY <1>8, <1>9, <1>10, <3>1, <3>2, <3>3 DEF SenderInv
  <2> QED
    BY <2>1, <2>2
<1>19. WaitingInv'
  <2> SUFFICES ASSUME NEW k \in Msgs, reply'[k] = "waiting"
               PROVE  tx'[Source[k]][Dest[k]].msg = k
    BY DEF WaitingInv
  <2>1. Source[k] \in Nodes /\ Dest[k] \in Nodes
    BY ChannelAssumption
  <2>2. CASE k = m
    BY <1>7, <2>2
  <2>3. CASE k # m
    <3>1. tx[Source[k]][Dest[k]].msg = k /\ k # NoMsg
      BY <1>8, <2>3, ChannelAssumption, SMTT(30) DEF Inv, WaitingInv
    <3> QED
      BY <1>2, <1>7, <2>1, <3>1, SMTT(30)
  <2> QED
    BY <2>2, <2>3
<1>20. AcceptedInv'
  <2> SUFFICES ASSUME NEW k \in Msgs
               PROVE  /\ order'[k] <= accepted + 1
                      /\ reply'[k] \in {"idle", "busy"} => order'[k] = 0
                      /\ order'[k] > 0 =>
                            /\ Proper(key'[k].session)
                            /\ key'[k].seq > 0
                            /\ key'[k].session.gen <= generation[Source[k]]
                            /\ Behind(key'[k].session, key'[k].seq, tx'[Source[k]][Dest[k]])
    BY <1>2, SMTT(30) DEF AcceptedInv, Behind
  <2>1. AcceptedInv
    BY SMTT(30) DEF Inv
  <2>2. CASE k = m
    <3>1. Behind(t.session, t.next, u)
      BY <1>3 DEF Behind, Before
    <3>2. generation[n] \in Nat
      BY <1>1, <1>6
    <3> QED
      BY <1>3, <1>4, <1>6, <1>7, <1>8, <1>9, <1>10, <2>2, <3>1, <3>2
  <2>3. CASE k # m
    <3>1. /\ order'[k] = order[k] /\ key'[k] = key[k] /\ reply'[k] = reply[k]
          /\ order[k] \in Nat
      BY <1>6, <1>8, <1>9, <1>10, <2>3
    <3>2. key[k].session \in Session /\ key[k].seq \in Nat
      BY <1>6
    <3>3. Source[k] \in Nodes /\ Dest[k] \in Nodes
      BY ChannelAssumption
    <3> QED
      BY <1>6, <1>15, <2>1, <3>1, <3>2, <3>3 DEF AcceptedInv
  <2> QED
    BY <2>2, <2>3, SMTT(30)
<1>21. \A k \in Msgs : order[k] > 0 /\ Source[k] = n /\ Dest[k] = p =>
          Before(key[k].session, key[k].seq, t.session, t.next)
  BY <1>2 DEF Inv, AcceptedInv, Behind
<1>22. OrderInv'
  <2> SUFFICES ASSUME NEW j \in Msgs, NEW k \in Msgs, order'[j] > 0, order'[k] > 0
               PROVE  /\ order'[j] = order'[k] => j = k
                      /\ Source[j] = Source[k] /\ Dest[j] = Dest[k] /\ order'[j] < order'[k] =>
                            Before(key'[j].session, key'[j].seq, key'[k].session, key'[k].seq)
    BY DEF OrderInv
  <2>1. \A i \in Msgs : order[i] <= accepted /\ order[i] \in Nat
    BY <1>6 DEF Inv, AcceptedInv
  <2>2. CASE j = m /\ k = m
    BY <1>6, <1>10, <2>2
  <2>3. CASE j = m /\ k # m
    BY <1>6, <1>10, <2>1, <2>3
  <2>4. CASE j # m /\ k = m
    BY <1>6, <1>9, <1>10, <1>21, <2>1, <2>4
  <2>5. CASE j # m /\ k # m
    BY <1>9, <1>10, <2>5 DEF Inv, OrderInv
  <2> QED
    BY <2>2, <2>3, <2>4, <2>5
<1>23. DataInv'
  <2> SUFFICES ASSUME NEW f \in wire' \cap DataFrames
               PROVE  /\ order'[f.part] > 0
                      /\ key'[f.part].session = f.session
                      /\ key'[f.part].seq = f.seq
                      /\ f.src = Source[f.part]
                      /\ f.dst = Dest[f.part]
                      /\ f.total = Size[f.part]
                      /\ f.offset \in 1..f.total
    BY DEF DataInv
  <2>1. CASE f \in Frames(m, t.session, t.next, Size[m])
    BY <1>6, <1>9, <1>10, <1>12, <2>1
  <2>2. CASE f \notin Frames(m, t.session, t.next, Size[m])
    <3>1. f \in wire \cap DataFrames
      BY <1>2, <2>2
    <3>2. f.part \in Msgs
      BY <3>1 DEF DataFrames
    <3>3. DataInv
      BY DEF Inv
    <3>4. /\ order[f.part] > 0
          /\ key[f.part].session = f.session
          /\ key[f.part].seq = f.seq
          /\ f.src = Source[f.part]
          /\ f.dst = Dest[f.part]
          /\ f.total = Size[f.part]
          /\ f.offset \in 1..f.total
      BY <3>1, <3>3 DEF DataInv
    <3>5. f.part # m
      BY <1>11, <3>4
    <3> QED
      BY <1>9, <1>10, <3>2, <3>4, <3>5
  <2> QED
    BY <2>1, <2>2
<1>24. \A o, q \in Nodes : \A s \in Session : \A i \in Nat :
          Behind(s, i, tx[o][q]) /\ DeliveredAt(o, q, s, i) => DeliveredAt(o, q, s, i)'
  <2> TAKE o, q \in Nodes
  <2> TAKE s \in Session
  <2> TAKE i \in Nat
  <2> HAVE Behind(s, i, tx[o][q]) /\ DeliveredAt(o, q, s, i)
  <2> SUFFICES ASSUME NEW k \in Msgs, order'[k] > 0, Source[k] = o, Dest[k] = q,
                      key'[k].session = s, key'[k].seq = i
               PROVE  k \in done
    BY <1>2 DEF DeliveredAt
  <2>1. CASE k = m
    <3>1. Before(s, i, s, i)
      BY <1>2, <1>9, <2>1 DEF Behind
    <3> QED
      BY <3>1, BeforeIrreflexive
  <2>2. CASE k # m
    BY <1>9, <1>10, <2>2 DEF DeliveredAt
  <2> QED
    BY <2>1, <2>2
<1>25. \A o, q \in Nodes : /\ rx[o][q].session \in Session
                         /\ rx[o][q].next \in Nat \ {0}
                         /\ rx[o][q].asm.parts \in Parts
  BY RxType DEF Inv
<1>26. \A k \in Msgs : order[k] > 0 => k # m /\ order'[k] = order[k] /\ key'[k] = key[k]
  BY <1>9, <1>10, <1>11
<1>27. rx' = rx /\ log' = log /\ received' = received /\ pendingRecv' = pendingRecv
  BY <1>2
<1>28. ReceiverInv'
  <2>1. ReceiverInv
    BY DEF Inv
  <2> SUFFICES ASSUME NEW o \in Nodes, NEW q \in Nodes
               PROVE  /\ Behind(rx[o][q].session, rx[o][q].next - 1, tx'[q][o])
                      /\ \A i \in Nat : i < rx[o][q].next =>
                            DeliveredAt(q, o, rx[o][q].session, i)'
                      /\ FragmentsOf(rx[o][q].asm, rx[o][q].session, o, q)'
    BY <1>17, <1>27, <2>1 DEF ReceiverInv, Behind, DeliveredAt
  <2>2. /\ rx[o][q].session \in Session
        /\ rx[o][q].next - 1 \in Nat
        /\ rx[o][q].next \in Nat
    BY <1>25
  <2>3. Behind(rx[o][q].session, rx[o][q].next - 1, tx[q][o])
    BY <2>1 DEF ReceiverInv
  <2>4. Behind(rx[o][q].session, rx[o][q].next - 1, tx'[q][o])
    BY <1>15, <2>2, <2>3
  <2>5. ASSUME NEW i \in Nat, i < rx[o][q].next
        PROVE  DeliveredAt(q, o, rx[o][q].session, i)'
    <3>1. DeliveredAt(q, o, rx[o][q].session, i)
      BY <2>1, <2>5 DEF ReceiverInv
    <3>2. tx[q][o].session \in Session /\ tx[q][o].next \in Nat
      BY TxType DEF Inv
    <3>3. Behind(rx[o][q].session, i, tx[q][o])
      BY <2>2, <2>3, <2>5, <3>2 DEF Behind, Before
    <3> QED
      BY <1>24, <1>27, <2>2, <3>1, <3>3
  <2>6. FragmentsOf(rx[o][q].asm, rx[o][q].session, o, q)'
    <3> DEFINE a == rx[o][q].asm
    <3>1. FragmentsOf(a, rx[o][q].session, o, q)
      BY <2>1 DEF ReceiverInv
    <3>2. \A k \in DOMAIN a.parts : a.parts[k] \in Msgs
      BY <1>25, PartsType
    <3>3. \A k \in DOMAIN a.parts : /\ order[a.parts[k]] > 0
                                    /\ order'[a.parts[k]] = order[a.parts[k]]
                                    /\ key'[a.parts[k]] = key[a.parts[k]]
      BY <1>26, <3>1, <3>2 DEF FragmentsOf
    <3> QED
      BY <1>27, <3>1, <3>3 DEF FragmentsOf
  <2> QED
    BY <2>4, <2>5, <2>6
<1>29. LogInv'
  <2> SUFFICES ASSUME NEW o \in Nodes, NEW i \in 1..Len(log[o])
               PROVE  \E k \in Msgs :
                         /\ log[o][i] = Whole(k)
                         /\ Dest[k] = o
                         /\ order'[k] > 0
                         /\ Before(key'[k].session, key'[k].seq,
                                   rx[o][Source[k]].session, rx[o][Source[k]].next)
    BY <1>27 DEF LogInv
  <2>1. PICK k \in Msgs :
                         /\ log[o][i] = Whole(k)
                         /\ Dest[k] = o
                         /\ order[k] > 0
                         /\ Before(key[k].session, key[k].seq,
                                   rx[o][Source[k]].session, rx[o][Source[k]].next)
    BY DEF Inv, LogInv
  <2> QED
    BY <1>26, <2>1
<1>30. AckInv'
  <2> SUFFICES ASSUME NEW f \in wire' \cap AckFrames
               PROVE  /\ Proper(f.session)
                      /\ f.session.gen <= generation[f.dst]
                      /\ Behind(f.session, f.ack, tx'[f.dst][f.src])
                      /\ DeliveredAt(f.dst, f.src, f.session, f.ack)'
    BY <1>17 DEF AckInv, Behind, DeliveredAt
  <2>1. f \in wire \cap AckFrames
    BY <1>2, <1>12
  <2>2. f.session \in Session /\ f.ack \in Nat /\ f.src \in Nodes /\ f.dst \in Nodes
    BY DEF AckFrames
  <2>3. /\ Proper(f.session)
        /\ f.session.gen <= generation[f.dst]
        /\ Behind(f.session, f.ack, tx[f.dst][f.src])
        /\ DeliveredAt(f.dst, f.src, f.session, f.ack)
    BY <2>1 DEF Inv, AckInv
  <2> QED
    BY <1>15, <1>24, <2>2, <2>3
<1>31. QueueInv'
  BY <1>27 DEF Inv, QueueInv
<1> QED
  BY <1>14, <1>18, <1>19, <1>20, <1>22, <1>23, <1>28, <1>29, <1>30, <1>31 DEF Inv

-----------------------------------------------------------------------------
(* Steps of the receive half                                               *)

(* What is known of a data frame that arrives.                             *)
LEMMA FrameFacts ==
    ASSUME Inv, NEW f \in wire \cap DataFrames
    PROVE  /\ f.part \in Msgs /\ f.src \in Nodes /\ f.dst \in Nodes
           /\ f.session \in Session /\ f.seq \in Nat \ {0}
           /\ f.total \in Nat /\ f.offset \in Nat /\ f.offset \in 1..f.total
           /\ order[f.part] > 0
           /\ key[f.part].session = f.session
           /\ key[f.part].seq = f.seq
           /\ f.src = Source[f.part]
           /\ f.dst = Dest[f.part]
           /\ f.total = Size[f.part]
           /\ Proper(f.session)
           /\ f.session # Exhausted
           /\ f.session.gen <= generation[f.src]
           /\ Behind(f.session, f.seq, tx[f.src][f.dst])
<1>1. /\ f.part \in Msgs /\ f.src \in Nodes /\ f.dst \in Nodes
      /\ f.session \in Session /\ f.seq \in Nat
      /\ f.total \in Nat /\ f.offset \in Nat
  BY DEF DataFrames
<1>2. DataInv /\ AcceptedInv
  BY DEF Inv
<1>3. /\ order[f.part] > 0
      /\ key[f.part].session = f.session
      /\ key[f.part].seq = f.seq
      /\ f.src = Source[f.part]
      /\ f.dst = Dest[f.part]
      /\ f.total = Size[f.part]
      /\ f.offset \in 1..f.total
  BY <1>2 DEF DataInv
<1>4. /\ Proper(f.session)
      /\ f.seq > 0
      /\ f.session.gen <= generation[f.src]
      /\ Behind(f.session, f.seq, tx[f.src][f.dst])
  BY <1>1, <1>2, <1>3 DEF AcceptedInv
<1>5. f.session # Exhausted
  BY <1>4 DEF Proper, Exhausted
<1> QED
  BY <1>1, <1>3, <1>4, <1>5

(* A key denotes one message.                                              *)
LEMMA KeyUnique ==
    ASSUME Inv, NEW j \in Msgs, NEW k \in Msgs, order[j] > 0, order[k] > 0,
           Source[j] = Source[k], Dest[j] = Dest[k],
           key[j].session = key[k].session, key[j].seq = key[k].seq
    PROVE  j = k
<1>1. OrderInv
  BY DEF Inv
<1>2. /\ key[j].session \in Session /\ key[j].seq \in Nat
      /\ order[j] \in Nat /\ order[k] \in Nat
  BY DEF Inv, Types
<1>3. ~Before(key[j].session, key[j].seq, key[k].session, key[k].seq)
  BY <1>2, BeforeIrreflexive
<1>4. ~Before(key[k].session, key[k].seq, key[j].session, key[j].seq)
  BY <1>2, BeforeIrreflexive
<1> QED
  BY <1>1, <1>2, <1>3, <1>4 DEF OrderInv

(* What a receive half may be replaced by.                                 *)
GoodReceiver(q, n, p) ==
    /\ q.session.gen <= generation[p]
    /\ Proper(q.session)
    /\ Behind(q.session, q.next - 1, tx[p][n])
    /\ FragmentsOf(q.asm, q.session, n, p)

(* Receive half q is where r was, or further on.                           *)
RxForward(r, q) ==
    \A s \in Session : \A i \in Nat :
        Before(s, i, r.session, r.next) => Before(s, i, q.session, q.next)

(* The receive half with the session of the frame.                         *)
LEMMA AcceptedFacts ==
    ASSUME Inv, NEW f \in wire \cap DataFrames, NEW n \in Nodes, NEW p \in Nodes,
           n = f.dst, p = f.src, Accepts(rx[n][p], f), NEW r, r = Accepted(rx[n][p], f)
    PROVE  /\ r \in RxRecord
           /\ r.session = f.session
           /\ r.next \in Nat \ {0}
           /\ r.asm \in Assemblies
           /\ GoodReceiver(r, n, p)
           /\ RxForward(rx[n][p], r)
           /\ \A i \in Nat : i < r.next => DeliveredAt(p, n, f.session, i)
<1>1. /\ f.session \in Session /\ f.seq \in Nat \ {0}
      /\ Proper(f.session) /\ f.session # Exhausted
      /\ f.session.gen <= generation[p]
      /\ Behind(f.session, f.seq, tx[p][n])
  BY FrameFacts
<1>2. ReceiverInv /\ AcceptedInv
  BY DEF Inv
<1>3. CASE f.session = rx[n][p].session
  <2>1. r = rx[n][p]
    BY <1>3 DEF Accepted
  <2>2. GoodReceiver(r, n, p)
    <3>1. rx[n][p].session.gen <= generation[p] /\ Proper(rx[n][p].session)
      BY <1>1, <1>3
    <3>2. Behind(rx[n][p].session, rx[n][p].next - 1, tx[p][n])
      BY <1>2 DEF ReceiverInv
    <3>3. FragmentsOf(rx[n][p].asm, rx[n][p].session, n, p)
      BY <1>2 DEF ReceiverInv
    <3>4. GoodReceiver(rx[n][p], n, p)
      BY <3>1, <3>2, <3>3 DEF GoodReceiver
    <3> QED
      BY <2>1, <3>4
  <2>3. \A i \in Nat : i < r.next => DeliveredAt(p, n, f.session, i)
    BY <1>2, <1>3, <2>1 DEF ReceiverInv
  <2>4. RxForward(rx[n][p], r)
    BY <2>1 DEF RxForward
  <2>5. r \in RxRecord /\ r.next \in Nat \ {0} /\ r.asm \in Assemblies
    BY <2>1, RxType DEF Inv
  <2> QED
    BY <1>3, <2>1, <2>2, <2>3, <2>4, <2>5
<1>4. CASE f.session # rx[n][p].session
  <2>1. /\ r.session = f.session
        /\ r.next = 1
        /\ r.asm = NoReassembly
        /\ r.asm.parts = NoParts
    BY <1>4 DEF Accepted, NewRx, NoReassembly
  <2>2. NoReassembly \in Assemblies /\ NoParts \in Parts /\ DOMAIN NoParts = {}
    BY NoPartsType
  <2>3. r \in RxRecord
    BY <1>1, <1>4, <2>2 DEF Accepted, NewRx, RxRecord
  <2>4. Behind(f.session, 0, tx[p][n])
    <3>1. tx[p][n].session \in Session /\ tx[p][n].next \in Nat
      BY TxType DEF Inv
    <3> QED
      BY <1>1, <3>1 DEF Behind, Before
  <2>5. GoodReceiver(r, n, p)
    BY <1>1, <2>1, <2>2, <2>4 DEF GoodReceiver, FragmentsOf
  <2>6. Older(rx[n][p].session, f.session)
    BY <1>4 DEF Accepts, Newer
  <2>7. RxForward(rx[n][p], r)
    <3> SUFFICES ASSUME NEW s \in Session, NEW i \in Nat,
                        Before(s, i, rx[n][p].session, rx[n][p].next)
                 PROVE  Before(s, i, f.session, 1)
      BY <2>1 DEF RxForward
    <3>1. rx[n][p].session \in Session /\ rx[n][p].next \in Nat
      BY RxType DEF Inv
    <3>2. Before(rx[n][p].session, rx[n][p].next, f.session, 1)
      BY <2>6 DEF Before
    <3> QED
      BY <1>1, <3>1, <3>2, BeforeTransitive
  <2>8. \A i \in Nat : i < r.next => DeliveredAt(p, n, f.session, i)
    BY <1>2, <2>1 DEF AcceptedInv, DeliveredAt
  <2> QED
    BY <2>1, <2>2, <2>3, <2>5, <2>7, <2>8
<1> QED
  BY <1>3, <1>4

(* Replacing a receive half by a good one disturbs nothing of the senders. *)
LEMMA ReceiveForward ==
    ASSUME Inv, NEW n \in Nodes, NEW p \in Nodes, NEW q \in RxRecord,
           rx' = [rx EXCEPT ![n][p] = q],
           generation' = generation, tx' = tx, reply' = reply, key' = key,
           accepted' = accepted, order' = order,
           done \subseteq done',
           GoodReceiver(q, n, p),
           \A i \in Nat : i < q.next => DeliveredAt(p, n, q.session, i)'
    PROVE  /\ rx' \in [Nodes -> [Nodes -> RxRecord]]
           /\ SenderInv' /\ WaitingInv' /\ AcceptedInv' /\ OrderInv' /\ ReceiverInv'
<1>1. rx \in [Nodes -> [Nodes -> RxRecord]]
  BY DEF Inv, Types
<1>2. /\ rx' \in [Nodes -> [Nodes -> RxRecord]]
      /\ rx'[n][p] = q
      /\ \A o, s \in Nodes : ~(o = n /\ s = p) => rx'[o][s] = rx[o][s]
  BY <1>1
<1>3. SenderInv'
  BY DEF Inv, SenderInv
<1>4. WaitingInv'
  BY DEF Inv, WaitingInv
<1>5. AcceptedInv'
  BY DEF Inv, AcceptedInv, Behind
<1>6. OrderInv'
  BY DEF Inv, OrderInv
<1>7. ReceiverInv'
  <2> SUFFICES ASSUME NEW o \in Nodes, NEW s \in Nodes
               PROVE  /\ rx'[o][s].session.gen <= generation[s]
                      /\ rx'[o][s].session # Exhausted => Proper(rx'[o][s].session)
                      /\ rx'[o][s].session = Exhausted =>
                            rx'[o][s].next = 1 /\ rx'[o][s].asm = NoReassembly
                      /\ Behind(rx'[o][s].session, rx'[o][s].next - 1, tx[s][o])
                      /\ \A i \in Nat : i < rx'[o][s].next =>
                            DeliveredAt(s, o, rx[o][s].session, i)'
                      /\ FragmentsOf(rx'[o][s].asm, rx'[o][s].session, o, s)
    BY DEF ReceiverInv, Behind, FragmentsOf
  <2>1. CASE o = n /\ s = p
    <3>1. q.session # Exhausted
      BY DEF GoodReceiver, Proper, Exhausted
    <3> QED
      BY <1>2, <2>1, <3>1 DEF GoodReceiver
  <2>2. CASE ~(o = n /\ s = p)
    <3>1. rx'[o][s] = rx[o][s]
      BY <1>2, <2>2
    <3>2. ReceiverInv
      BY DEF Inv
    <3>3. \A i \in Nat : DeliveredAt(s, o, rx[o][s].session, i) =>
                         DeliveredAt(s, o, rx[o][s].session, i)'
      BY <3>1 DEF DeliveredAt
    <3> QED
      BY <3>1, <3>2, <3>3 DEF ReceiverInv
  <2> QED
    BY <2>1, <2>2, SMTT(30)
<1> QED
  BY <1>2, <1>3, <1>4, <1>5, <1>6, <1>7

(* The logs stay below the receivers when these move forward.              *)
LEMMA LogForward ==
    ASSUME Inv, NEW n \in Nodes, NEW p \in Nodes, NEW q \in RxRecord,
           rx' = [rx EXCEPT ![n][p] = q], key' = key, order' = order,
           RxForward(rx[n][p], q)
    PROVE  \A o \in Nodes : \A i \in 1..Len(log[o]) :
              \E m \in Msgs :
                 /\ log[o][i] = Whole(m)
                 /\ Dest[m] = o
                 /\ order'[m] > 0
                 /\ Before(key'[m].session, key'[m].seq,
                           rx'[o][Source[m]].session, rx'[o][Source[m]].next)
<1> SUFFICES ASSUME NEW o \in Nodes, NEW i \in 1..Len(log[o])
             PROVE  \E m \in Msgs :
                       /\ log[o][i] = Whole(m)
                       /\ Dest[m] = o
                       /\ order[m] > 0
                       /\ Before(key[m].session, key[m].seq,
                                 rx'[o][Source[m]].session, rx'[o][Source[m]].next)
  OBVIOUS
<1>1. PICK m \in Msgs :
         /\ log[o][i] = Whole(m)
         /\ Dest[m] = o
         /\ order[m] > 0
         /\ Before(key[m].session, key[m].seq,
                   rx[o][Source[m]].session, rx[o][Source[m]].next)
  BY DEF Inv, LogInv
<1>2. key[m].session \in Session /\ key[m].seq \in Nat /\ Source[m] \in Nodes
  BY ChannelAssumption DEF Inv, Types
<1>3. rx \in [Nodes -> [Nodes -> RxRecord]]
  BY DEF Inv, Types
<1>4. /\ rx'[n][p] = q
      /\ \A s, t \in Nodes : ~(s = n /\ t = p) => rx'[s][t] = rx[s][t]
  BY <1>3
<1>5. Before(key[m].session, key[m].seq,
             rx'[o][Source[m]].session, rx'[o][Source[m]].next)
  <2>1. CASE o = n /\ Source[m] = p
    BY <1>1, <1>2, <1>4, <2>1 DEF RxForward
  <2>2. CASE ~(o = n /\ Source[m] = p)
    BY <1>1, <1>2, <1>4, <2>2
  <2> QED
    BY <2>1, <2>2
<1> QED
  BY <1>1, <1>5

LEMMA LogKept ==
    ASSUME Inv, NEW n \in Nodes, NEW p \in Nodes, NEW q \in RxRecord,
           rx' = [rx EXCEPT ![n][p] = q], key' = key, order' = order, log' = log,
           RxForward(rx[n][p], q)
    PROVE  LogInv'
<1>1. \A o \in Nodes : \A i \in 1..Len(log[o]) :
         \E m \in Msgs :
            /\ log[o][i] = Whole(m)
            /\ Dest[m] = o
            /\ order'[m] > 0
            /\ Before(key'[m].session, key'[m].seq,
                      rx'[o][Source[m]].session, rx'[o][Source[m]].next)
  BY LogForward
<1>2. log' = log
  OBVIOUS
<1> QED
  BY ONLY <1>1, <1>2 DEF LogInv, Whole, Before, Older

(* An acknowledgement is on the wire.                                      *)
LEMMA AckSent ==
    ASSUME Inv, NEW n \in Nodes, NEW p \in Nodes, NEW s \in Session, NEW i \in Nat,
           wire' = wire \cup {AckFrame(n, p, s, i)},
           generation' = generation, tx' = tx, key' = key, order' = order,
           done \subseteq done',
           Proper(s), s.gen <= generation[p], Behind(s, i, tx[p][n]),
           DeliveredAt(p, n, s, i)'
    PROVE  /\ wire' \subseteq DataFrames \cup AckFrames
           /\ DataInv'
           /\ AckInv'
<1> DEFINE g == AckFrame(n, p, s, i)
<1>1. /\ g \in AckFrames /\ g \notin DataFrames
      /\ g.src = n /\ g.dst = p /\ g.session = s /\ g.ack = i
  BY DEF AckFrame, AckFrames, DataFrames
<1>2. wire' \subseteq DataFrames \cup AckFrames
  BY <1>1 DEF Inv, Types
<1>3. DataInv'
  <2>1. wire' \cap DataFrames = wire \cap DataFrames
    BY <1>1
  <2> QED
    BY <2>1 DEF Inv, DataInv
<1>4. AckInv'
  <2> SUFFICES ASSUME NEW f \in wire' \cap AckFrames
               PROVE  /\ Proper(f.session)
                      /\ f.session.gen <= generation[f.dst]
                      /\ Behind(f.session, f.ack, tx[f.dst][f.src])
                      /\ DeliveredAt(f.dst, f.src, f.session, f.ack)'
    BY DEF AckInv, Behind
  <2>1. CASE f = g
    BY <1>1, <2>1
  <2>2. CASE f \in wire \cap AckFrames
    <3>1. /\ Proper(f.session)
          /\ f.session.gen <= generation[f.dst]
          /\ Behind(f.session, f.ack, tx[f.dst][f.src])
          /\ DeliveredAt(f.dst, f.src, f.session, f.ack)
      BY <2>2 DEF Inv, AckInv
    <3>2. DeliveredAt(f.dst, f.src, f.session, f.ack)'
      BY <3>1 DEF DeliveredAt
    <3> QED
      BY <3>1, <3>2
  <2> QED
    BY <2>1, <2>2
<1> QED
  BY <1>2, <1>3, <1>4

(* A frame that is not the expected one is answered with the position of   *)
(* the receiver.                                                           *)
LEMMA ReceiveOtherStep ==
    ASSUME Inv, NEW f \in wire \cap DataFrames, ReceiveOther(f)
    PROVE  Inv'
<1> DEFINE n == f.dst
           p == f.src
<1>1. /\ n \in Nodes /\ p \in Nodes /\ f.session \in Session
      /\ Proper(f.session) /\ f.session.gen <= generation[p]
  BY FrameFacts
<1> PICK r : r = Accepted(rx[n][p], f)
  OBVIOUS
<1>2. /\ Accepts(rx[n][p], f)
      /\ rx' = [rx EXCEPT ![n][p] = r]
      /\ wire' = wire \cup {AckFrame(n, p, f.session, r.next - 1)}
      /\ generation' = generation /\ tx' = tx /\ received' = received
      /\ pendingRecv' = pendingRecv /\ reply' = reply /\ key' = key
      /\ accepted' = accepted /\ order' = order /\ log' = log /\ done' = done
  BY DEF ReceiveOther, history
<1>3. /\ r \in RxRecord
      /\ r.session = f.session
      /\ r.next \in Nat \ {0}
      /\ GoodReceiver(r, n, p)
      /\ RxForward(rx[n][p], r)
      /\ \A i \in Nat : i < r.next => DeliveredAt(p, n, f.session, i)
  BY <1>1, <1>2, AcceptedFacts
<1>4. \A i \in Nat : i < r.next => DeliveredAt(p, n, r.session, i)'
  BY <1>2, <1>3, SMTT(30) DEF DeliveredAt
<1>5. /\ rx' \in [Nodes -> [Nodes -> RxRecord]]
      /\ SenderInv' /\ WaitingInv' /\ AcceptedInv' /\ OrderInv' /\ ReceiverInv'
  BY <1>1, <1>2, <1>3, <1>4, ReceiveForward
<1>6. /\ wire' \subseteq DataFrames \cup AckFrames
      /\ DataInv'
      /\ AckInv'
  <2>1. Behind(f.session, r.next - 1, tx[p][n])
    BY <1>3 DEF GoodReceiver
  <2>2. r.next - 1 \in Nat /\ r.next - 1 < r.next
    BY <1>3
  <2>3. DeliveredAt(p, n, f.session, r.next - 1)'
    BY <1>3, <1>4, <2>2
  <2> QED
    BY <1>1, <1>2, <2>1, <2>2, <2>3, AckSent
<1>7. LogInv'
  BY <1>1, <1>2, <1>3, LogKept
<1>8. Types'
  BY <1>2, <1>5, <1>6 DEF Inv, Types
<1>9. QueueInv'
  BY <1>2 DEF Inv, QueueInv
<1> QED
  BY <1>5, <1>6, <1>7, <1>8, <1>9 DEF Inv

(* The expected frame belongs to the fragments buffered for it.            *)
LEMMA ReassembledFacts ==
    ASSUME Inv, NEW f \in wire \cap DataFrames, NEW r \in RxRecord,
           r.session = f.session,
           FragmentsOf(r.asm, r.session, f.dst, f.src)
    PROVE  /\ Reassembled(f.dst, r, f) \in Assemblies
           /\ FragmentsOf(Reassembled(f.dst, r, f), f.session, f.dst, f.src)
           /\ ~TotalsDisagree(r, f) /\ ~BuffersFull(f.dst, r, f) =>
                /\ Reassembled(f.dst, r, f).total = f.total
                /\ Reassembled(f.dst, r, f).seq = f.seq
<1> DEFINE a == Assembly(r, f)
           w == WithPart(a, f)
<1>1. /\ f.part \in Msgs
      /\ f.session \in Session /\ f.seq \in Nat \ {0}
      /\ f.total \in Nat /\ f.offset \in Nat
      /\ order[f.part] > 0
      /\ key[f.part].session = f.session
      /\ key[f.part].seq = f.seq
      /\ f.src = Source[f.part]
      /\ f.dst = Dest[f.part]
  BY FrameFacts
<1>2. r.asm \in Assemblies
  BY DEF RxRecord
<1>3. a \in Assemblies /\ a.seq = f.seq /\ a.parts \in Parts
  <2>1. CASE r.asm.seq = f.seq
    BY <1>2, <2>1 DEF Assembly, Assemblies
  <2>2. CASE r.asm.seq # f.seq
    <3>1. a = [seq |-> f.seq, total |-> f.total, parts |-> NoParts]
      BY <2>2 DEF Assembly
    <3> QED
      BY <1>1, <3>1, NoPartsType DEF Assemblies
  <2> QED
    BY <2>1, <2>2
<1>4. FragmentsOf(a, f.session, f.dst, f.src)
  <2>1. CASE r.asm.seq = f.seq
    BY <2>1 DEF Assembly
  <2>2. CASE r.asm.seq # f.seq
    <3>1. a.parts = NoParts
      BY <2>2 DEF Assembly
    <3> QED
      BY <3>1, NoPartsType DEF FragmentsOf
  <2> QED
    BY <2>1, <2>2
<1>5. /\ w.seq = f.seq
      /\ w.total = a.total
      /\ DOMAIN w.parts = DOMAIN a.parts \cup {f.offset}
      /\ \A k \in DOMAIN w.parts : w.parts[k] = IF k = f.offset THEN f.part ELSE a.parts[k]
  BY <1>3 DEF WithPart, Assemblies
<1>6. w \in Assemblies
  <2>1. PICK S \in SUBSET Nat : a.parts \in [S -> Msgs]
    BY <1>3 DEF Parts
  <2>2. w.parts = [k \in DOMAIN a.parts \cup {f.offset} |->
                      IF k = f.offset THEN f.part ELSE a.parts[k]]
    BY <1>3 DEF WithPart, Assemblies
  <2>3. w.parts \in [S \cup {f.offset} -> Msgs]
    BY <1>1, <2>1, <2>2
  <2>4. w.parts \in Parts
    <3>1. S \cup {f.offset} \in SUBSET Nat
      BY <1>1
    <3> QED
      BY <2>3, <3>1 DEF Parts
  <2>5. w = [seq |-> a.seq, total |-> a.total, parts |-> w.parts]
    BY <1>3 DEF WithPart, Assemblies
  <2>6. a.seq \in Nat /\ a.total \in Nat
    BY <1>3 DEF Assemblies
  <2> QED
    BY <2>4, <2>5, <2>6 DEF Assemblies
<1>7. FragmentsOf(w, f.session, f.dst, f.src)
  <2> SUFFICES ASSUME NEW k \in DOMAIN w.parts
               PROVE  /\ order[w.parts[k]] > 0
                      /\ Source[w.parts[k]] = f.src
                      /\ Dest[w.parts[k]] = f.dst
                      /\ key[w.parts[k]].session = f.session
                      /\ key[w.parts[k]].seq = w.seq
    BY DEF FragmentsOf
  <2>1. CASE k = f.offset
    BY <1>1, <1>5, <2>1
  <2>2. CASE k # f.offset
    <3>1. k \in DOMAIN a.parts /\ w.parts[k] = a.parts[k]
      BY <1>5, <2>2
    <3> QED
      BY <1>3, <1>4, <1>5, <3>1 DEF FragmentsOf
  <2> QED
    BY <2>1, <2>2
<1>8. FragmentsOf(NoReassembly, f.session, f.dst, f.src)
  BY NoPartsType DEF FragmentsOf, NoReassembly
<1>9. CASE TotalsDisagree(r, f)
  BY <1>8, <1>9, NoPartsType DEF Reassembled
<1>10. CASE ~TotalsDisagree(r, f) /\ BuffersFull(f.dst, r, f)
  BY <1>3, <1>4, <1>10 DEF Reassembled
<1>11. CASE ~TotalsDisagree(r, f) /\ ~BuffersFull(f.dst, r, f)
  <2>1. Reassembled(f.dst, r, f) = w
    BY <1>11 DEF Reassembled
  <2>2. a.total = f.total
    BY <1>11 DEF TotalsDisagree
  <2> QED
    BY <1>5, <1>6, <1>7, <2>1, <2>2
<1> QED
  BY <1>9, <1>10, <1>11

(* The wire and what was accepted stay as they are.                        *)
LEMMA WireKept ==
    ASSUME Inv, wire' = wire, generation' = generation, tx' = tx, key' = key,
           order' = order, done' = done
    PROVE  DataInv' /\ AckInv'
<1>1. DataInv'
  BY DEF Inv, DataInv
<1>2. AckInv'
  BY DEF Inv, AckInv, Behind, DeliveredAt
<1> QED
  BY <1>1, <1>2

(* The receive half keeps its position and takes another reassembly.       *)
LEMMA BufferStep ==
    ASSUME Inv, NEW f \in wire \cap DataFrames, NEW n \in Nodes, NEW p \in Nodes,
           n = f.dst, p = f.src, Accepts(rx[n][p], f),
           NEW r, r = Accepted(rx[n][p], f), NEW a \in Assemblies,
           FragmentsOf(a, f.session, n, p),
           rx' = [rx EXCEPT ![n][p] = [r EXCEPT !.asm = a]],
           generation' = generation, tx' = tx, received' = received,
           pendingRecv' = pendingRecv, wire' = wire, reply' = reply, key' = key,
           accepted' = accepted, order' = order, log' = log, done' = done
    PROVE  Inv'
<1>1. /\ r \in RxRecord
      /\ r.session = f.session
      /\ r.next \in Nat \ {0}
      /\ GoodReceiver(r, n, p)
      /\ RxForward(rx[n][p], r)
      /\ \A i \in Nat : i < r.next => DeliveredAt(p, n, f.session, i)
  BY AcceptedFacts
<1> PICK q : q = [r EXCEPT !.asm = a]
  OBVIOUS
<1>2. q \in RxRecord /\ q.session = f.session /\ q.next = r.next /\ q.asm = a
  BY <1>1, SMTT(30) DEF RxRecord
<1>3. GoodReceiver(q, n, p)
  BY <1>1, <1>2, SMTT(30) DEF GoodReceiver
<1>4. RxForward(rx[n][p], q)
  BY <1>1, <1>2 DEF RxForward
<1>5. \A i \in Nat : i < q.next => DeliveredAt(p, n, q.session, i)'
  BY <1>1, <1>2, SMTT(30) DEF DeliveredAt
<1>6. /\ rx' \in [Nodes -> [Nodes -> RxRecord]]
      /\ SenderInv' /\ WaitingInv' /\ AcceptedInv' /\ OrderInv' /\ ReceiverInv'
  BY <1>2, <1>3, <1>5, ReceiveForward
<1>7. LogInv'
  BY <1>2, <1>4, LogKept
<1>8. Types'
  BY <1>6 DEF Inv, Types
<1>9. QueueInv'
  BY DEF Inv, QueueInv
<1> QED
  BY <1>6, <1>7, <1>8, <1>9, WireKept DEF Inv

(* The expected fragment is buffered, or dropped.                          *)
LEMMA ReceiveFragmentStep ==
    ASSUME Inv, NEW f \in wire \cap DataFrames, ReceiveFragment(f)
    PROVE  Inv'
<1> DEFINE n == f.dst
           p == f.src
<1>1. n \in Nodes /\ p \in Nodes
  BY FrameFacts
<1> PICK r : r = Accepted(rx[n][p], f)
  OBVIOUS
<1> PICK a : a = Reassembled(n, r, f)
  OBVIOUS
<1>2. /\ Accepts(rx[n][p], f)
      /\ rx' = [rx EXCEPT ![n][p] = [r EXCEPT !.asm = a]]
      /\ generation' = generation /\ tx' = tx /\ received' = received /\ wire' = wire
      /\ pendingRecv' = pendingRecv /\ reply' = reply /\ key' = key
      /\ accepted' = accepted /\ order' = order /\ log' = log /\ done' = done
  BY DEF ReceiveFragment, history
<1>3. r \in RxRecord /\ r.session = f.session /\ GoodReceiver(r, n, p)
  BY <1>1, <1>2, AcceptedFacts
<1>4. FragmentsOf(r.asm, r.session, n, p)
  BY <1>3 DEF GoodReceiver
<1>5. a \in Assemblies /\ FragmentsOf(a, f.session, n, p)
  BY <1>3, <1>4, ReassembledFacts
<1> QED
  BY <1>1, <1>2, <1>5, BufferStep

(* A body that is complete is the message its last frame is part of.       *)
LEMMA CompletedFacts ==
    ASSUME Inv, NEW f \in wire \cap DataFrames, NEW r \in RxRecord,
           r.session = f.session, FragmentsOf(r.asm, r.session, f.dst, f.src),
           NEW body \in Completed(f.dst, r, f)
    PROVE  body = Whole(f.part)
<1>1. /\ f.part \in Msgs
      /\ f.total = Size[f.part]
      /\ order[f.part] > 0
      /\ key[f.part].session = f.session
      /\ key[f.part].seq = f.seq
      /\ f.src = Source[f.part]
      /\ f.dst = Dest[f.part]
  BY FrameFacts
<1>2. CASE f.total = 1
  BY <1>1, <1>2 DEF Completed, Whole
<1>3. CASE f.total # 1
  <2> DEFINE a == Reassembled(f.dst, r, f)
  <2>1. /\ ~TotalsDisagree(r, f)
        /\ ~BuffersFull(f.dst, r, f)
        /\ DOMAIN a.parts = 1..a.total
        /\ body = a.parts
    BY <1>3 DEF Completed
  <2>2. /\ a \in Assemblies
        /\ FragmentsOf(a, f.session, f.dst, f.src)
        /\ a.total = f.total
        /\ a.seq = f.seq
    BY <2>1, ReassembledFacts
  <2>3. a.parts \in Parts
    BY <2>2 DEF Assemblies
  <2>4. \A k \in 1..f.total : body[k] = f.part
    <3> TAKE k \in 1..f.total
    <3> DEFINE j == a.parts[k]
    <3>1. k \in DOMAIN a.parts
      BY <2>1, <2>2
    <3>2. j \in Msgs
      BY <2>3, <3>1, PartsType
    <3>3. /\ order[j] > 0
          /\ Source[j] = f.src
          /\ Dest[j] = f.dst
          /\ key[j].session = f.session
          /\ key[j].seq = f.seq
      BY <2>2, <3>1 DEF FragmentsOf
    <3>4. j = f.part
      BY <1>1, <3>2, <3>3, KeyUnique
    <3> QED
      BY <2>1, <3>4
  <2>5. PICK S \in SUBSET Nat : a.parts \in [S -> Msgs]
    BY <2>3 DEF Parts
  <2>6. S = 1..f.total
    BY <2>1, <2>2, <2>5
  <2> QED
    BY <1>1, <2>1, <2>4, <2>5, <2>6 DEF Whole
<1> QED
  BY <1>2, <1>3

LEMMA WholeType ==
    ASSUME NEW m \in Msgs
    PROVE  /\ Whole(m) \in Parts
           /\ Whole(m)[1] = m
           /\ \A k \in Msgs : Whole(k) = Whole(m) => k = m
<1>1. \A k \in Msgs : Whole(k) \in [1..Size[k] -> Msgs] /\ Whole(k)[1] = k
  BY ChannelAssumption DEF Whole
<1>2. 1..Size[m] \in SUBSET Nat
  BY ChannelAssumption
<1>3. Whole(m) \in Parts
  BY <1>1, <1>2 DEF Parts
<1> QED
  BY <1>1, <1>3

(* deliver_received keeps the queue within its bound and never leaves a    *)
(* client waiting beside a message.                                        *)
LEMMA HandOverQueue ==
    ASSUME Types, QueueInv, NEW n \in Nodes, NEW queue \in Seq(Parts), NEW waiting \in BOOLEAN,
           HandOver(n, queue, waiting),
           Len(queue) <= MaxReceived
    PROVE  /\ QueueInv'
           /\ received' \in [Nodes -> Seq(Parts)]
           /\ pendingRecv' \in [Nodes -> BOOLEAN]
<1> PICK rest : rest = IF waiting /\ queue # <<>> THEN Tail(queue) ELSE queue
  OBVIOUS
<1> PICK idle : idle = (waiting /\ queue = <<>>)
  OBVIOUS
<1>1. received \in [Nodes -> Seq(Parts)] /\ pendingRecv \in [Nodes -> BOOLEAN]
  BY DEF Types
<1>2. received' = [received EXCEPT ![n] = rest] /\ pendingRecv' = [pendingRecv EXCEPT ![n] = idle]
  BY DEF HandOver
<1>3. rest \in Seq(Parts) /\ Len(rest) <= MaxReceived /\ (idle => rest = <<>>)
  <2>1. CASE waiting /\ queue # <<>>
    <3>1. rest = Tail(queue) /\ ~idle
      BY <2>1
    <3>2. Tail(queue) \in Seq(Parts) /\ Len(Tail(queue)) = Len(queue) - 1 /\ Len(queue) \in Nat
      BY <2>1, HeadTailProperties, LenProperties
    <3> QED
      BY <3>1, <3>2, BoundAssumption
  <2>2. CASE ~(waiting /\ queue # <<>>)
    BY <2>2
  <2> QED
    BY <2>1, <2>2
<1>4. idle \in BOOLEAN
  OBVIOUS
<1>5. /\ received' \in [Nodes -> Seq(Parts)]
      /\ \A o \in Nodes : received'[o] = IF o = n THEN rest ELSE received[o]
  BY <1>1, <1>2, <1>3
<1>6. /\ pendingRecv' \in [Nodes -> BOOLEAN]
      /\ \A o \in Nodes : o # n => pendingRecv'[o] = pendingRecv[o]
      /\ pendingRecv'[n] = idle
  BY <1>1, <1>2, <1>4
<1>7. QueueInv'
  <2> SUFFICES ASSUME NEW o \in Nodes
               PROVE  /\ Len(received'[o]) <= MaxReceived
                      /\ pendingRecv'[o] => received'[o] = <<>>
    BY DEF QueueInv
  <2>1. CASE o = n
    BY <1>3, <1>5, <1>6, <2>1
  <2>2. CASE o # n
    BY <1>5, <1>6, <2>2 DEF QueueInv
  <2> QED
    BY <2>1, <2>2
<1> QED
  BY <1>5, <1>6, <1>7

(* What is left of a reassembly after its body was taken.                  *)
LEMMA EmptiedFacts ==
    ASSUME NEW f, NEW r, r.asm \in Assemblies, r.session = f.session,
           FragmentsOf(r.asm, r.session, f.dst, f.src)
    PROVE  /\ Emptied(r, f) \in Assemblies
           /\ FragmentsOf(Emptied(r, f), f.session, f.dst, f.src)
<1>1. FragmentsOf(NoReassembly, f.session, f.dst, f.src)
  BY NoPartsType DEF FragmentsOf, NoReassembly
<1>2. CASE f.total = 1
  BY <1>2 DEF Emptied
<1>3. CASE f.total # 1
  BY <1>1, <1>3, NoPartsType DEF Emptied
<1> QED
  BY <1>2, <1>3

(* A complete body is queued: the receive half moves past its sequence     *)
(* number, and that sequence number is delivered.                          *)
LEMMA DeliverStep ==
    ASSUME Inv, NEW f \in wire \cap DataFrames, ReceiveLast(f, TRUE), HasRoom(f.dst)
    PROVE  Inv'
<1> DEFINE n == f.dst
           p == f.src
<1>1. PICK r : r = Accepted(rx[n][p], f)
  OBVIOUS
<1>2. PICK a : a = Emptied(r, f)
  OBVIOUS
<1>3. n \in Nodes /\ p \in Nodes
  BY FrameFacts
<1>4. Accepts(rx[n][p], f) /\ f.seq = r.next
  BY <1>1 DEF ReceiveLast
<1>5. /\ generation' = generation /\ tx' = tx /\ reply' = reply
       /\ key' = key /\ accepted' = accepted /\ order' = order
  BY DEF ReceiveLast
<1>6. /\ r \in RxRecord
      /\ r.session = f.session
      /\ r.next \in Nat \ {0}
      /\ r.asm \in Assemblies
      /\ GoodReceiver(r, n, p)
      /\ RxForward(rx[n][p], r)
      /\ \A i \in Nat : i < r.next => DeliveredAt(p, n, f.session, i)
  BY <1>3, <1>4, <1>1, AcceptedFacts, SMTT(30)
<1>7. FragmentsOf(r.asm, r.session, n, p)
  BY <1>6 DEF GoodReceiver
<1>8. a \in Assemblies /\ FragmentsOf(a, f.session, n, p)
  BY <1>6, <1>7, <1>2, EmptiedFacts
<1>9. PICK body \in Completed(n, r, f) :
         /\ rx' = [rx EXCEPT ![n][p] = [r EXCEPT !.asm = a, !.next = @ + 1]]
         /\ HandOver(n, Append(received[n], body), pendingRecv[n])
         /\ wire' = wire \cup {AckFrame(n, p, f.session, r.next)}
         /\ log' = [log EXCEPT ![n] = Append(@, body)]
         /\ done' = done \cup {m \in Msgs : body = Whole(m)}
  BY <1>1, <1>2 DEF ReceiveLast
<1>10. body = Whole(f.part)
  BY <1>6, <1>7, CompletedFacts
<1>11. /\ f.part \in Msgs /\ f.session \in Session /\ f.seq \in Nat \ {0}
      /\ order[f.part] > 0
      /\ key[f.part].session = f.session
      /\ key[f.part].seq = f.seq
      /\ p = Source[f.part]
      /\ n = Dest[f.part]
      /\ Proper(f.session) /\ f.session.gen <= generation[p]
      /\ Behind(f.session, f.seq, tx[p][n])
  BY FrameFacts
<1>12. PICK q : q = [r EXCEPT !.asm = a, !.next = @ + 1]
  OBVIOUS
<1>13. q \in RxRecord /\ q.session = f.session /\ q.next = r.next + 1 /\ q.asm = a
  <2>1. r.session \in Session
    BY <1>6 DEF RxRecord
  <2>2. q = [session |-> r.session, next |-> r.next + 1, asm |-> a]
    BY <1>6, <1>12 DEF RxRecord
  <2>3. r.next + 1 \in Nat \ {0}
    BY <1>6
  <2> QED
    BY <1>6, <1>8, <2>1, <2>2, <2>3 DEF RxRecord
<1>14. rx' = [rx EXCEPT ![n][p] = q]
  BY <1>9, <1>12
<1>15. GoodReceiver(q, n, p)
  <2>1. q.next - 1 = f.seq
    BY <1>11, <1>6, <1>13, <1>4
  <2> QED
    BY <1>11, <1>13, <1>8, <2>1 DEF GoodReceiver
<1>16. RxForward(rx[n][p], q)
  <2> SUFFICES ASSUME NEW s \in Session, NEW i \in Nat, Before(s, i, r.session, r.next)
               PROVE  Before(s, i, q.session, q.next)
    BY <1>6 DEF RxForward
  <2> QED
    BY <1>11, <1>6, <1>13 DEF Before
<1>17. f.part \in done' /\ done \subseteq done' /\ done' \subseteq Msgs
  BY <1>11, <1>9, <1>10 DEF Inv, Types
<1>18. DeliveredAt(p, n, f.session, r.next)'
  <2> SUFFICES ASSUME NEW m \in Msgs, order[m] > 0, Source[m] = p, Dest[m] = n,
                      key[m].session = f.session, key[m].seq = r.next
               PROVE  m \in done'
    BY <1>5 DEF DeliveredAt
  <2>1. m = f.part
    BY <1>11, <1>4, KeyUnique
  <2> QED
    BY <1>17, <2>1
<1>19. \A i \in Nat : i < q.next => DeliveredAt(p, n, q.session, i)'
  <2> SUFFICES ASSUME NEW i \in Nat, i < r.next + 1
               PROVE  DeliveredAt(p, n, f.session, i)'
    BY <1>13
  <2>1. CASE i < r.next
    <3>1. DeliveredAt(p, n, f.session, i)
      BY <1>6, <2>1
    <3> QED
      BY <1>17, <1>5, <3>1 DEF DeliveredAt
  <2>2. CASE i = r.next
    BY <1>18, <2>2
  <2> QED
    BY <1>6, <2>1, <2>2
<1>20. /\ rx' \in [Nodes -> [Nodes -> RxRecord]]
      /\ SenderInv' /\ WaitingInv' /\ AcceptedInv' /\ OrderInv' /\ ReceiverInv'
  BY <1>13, <1>15, <1>17, <1>19, <1>3, <1>5, <1>14, ReceiveForward
<1>21. /\ wire' \subseteq DataFrames \cup AckFrames
      /\ DataInv'
      /\ AckInv'
  <2>1. r.next \in Nat /\ Behind(f.session, r.next, tx[p][n])
    BY <1>11, <1>4
  <2> QED
    BY <1>11, <1>17, <1>18, <1>3, <1>5, <1>9, <2>1, AckSent
<1>22. body \in Parts
  BY <1>11, <1>10, WholeType
<1>23. /\ log \in [Nodes -> Seq(Parts)] /\ log[n] \in Seq(Parts)
       /\ received[n] \in Seq(Parts) /\ pendingRecv[n] \in BOOLEAN
  BY <1>3 DEF Inv, Types
<1>24. /\ QueueInv'
       /\ received' \in [Nodes -> Seq(Parts)]
       /\ pendingRecv' \in [Nodes -> BOOLEAN]
  <2>1. /\ Append(received[n], body) \in Seq(Parts)
        /\ Len(Append(received[n], body)) = Len(received[n]) + 1
        /\ Len(received[n]) \in Nat
    BY <1>22, <1>23, AppendProperties, LenProperties
  <2>2. Len(Append(received[n], body)) <= MaxReceived
    BY <2>1, BoundAssumption DEF HasRoom
  <2> QED
    BY <1>23, <1>3, <1>9, <2>1, <2>2, HandOverQueue DEF Inv
<1>25. /\ log' \in [Nodes -> Seq(Parts)]
       /\ log'[n] = Append(log[n], body)
       /\ \A o \in Nodes : o # n => log'[o] = log[o]
  BY <1>22, <1>23, <1>3, <1>9, AppendProperties
<1>26. /\ Len(log[n]) \in Nat
       /\ Len(log'[n]) = Len(log[n]) + 1
       /\ \A i \in 1..Len(log[n]) : log'[n][i] = log[n][i]
       /\ log'[n][Len(log[n]) + 1] = body
  BY <1>22, <1>23, <1>25, AppendProperties, LenProperties
<1>27. LogInv'
  <2> SUFFICES ASSUME NEW o \in Nodes, NEW i \in 1..Len(log'[o])
               PROVE  \E m \in Msgs :
                         /\ log'[o][i] = Whole(m)
                         /\ Dest[m] = o
                         /\ order'[m] > 0
                         /\ Before(key'[m].session, key'[m].seq,
                                   rx'[o][Source[m]].session, rx'[o][Source[m]].next)
    BY DEF LogInv
  <2>1. \A x \in Nodes : \A j \in 1..Len(log[x]) :
           \E m \in Msgs :
              /\ log[x][j] = Whole(m)
              /\ Dest[m] = x
              /\ order'[m] > 0
              /\ Before(key'[m].session, key'[m].seq,
                        rx'[x][Source[m]].session, rx'[x][Source[m]].next)
    BY <1>13, <1>16, <1>3, <1>5, <1>14, LogForward
  <2>2. CASE o # n
    BY <1>25, <2>1, <2>2
  <2>3. CASE o = n /\ i # Len(log[n]) + 1
    <3>1. i \in 1..Len(log[n]) /\ log'[n][i] = log[n][i]
      BY <1>26, <2>3, SMTT(30)
    <3> QED
      BY <2>1, <2>3, <3>1, SMTT(30)
  <2>4. CASE o = n /\ i = Len(log[n]) + 1
    <3>1. rx'[n][p] = q
      <4>1. rx \in [Nodes -> [Nodes -> RxRecord]]
        BY DEF Inv, Types
      <4> QED
        BY <1>3, <1>14, <4>1
    <3>2. Before(key'[f.part].session, key'[f.part].seq, rx'[n][p].session, rx'[n][p].next)
      BY <1>11, <1>13, <1>4, <1>5, <3>1 DEF Before
    <3>3. log'[o][i] = Whole(f.part)
      BY <1>26, <1>10, <2>4
    <3> QED
      BY <1>11, <1>5, <2>4, <3>2, <3>3
  <2> QED
    BY <2>2, <2>3, <2>4
<1>28. Types'
  BY <1>17, <1>20, <1>21, <1>24, <1>25, <1>5 DEF Inv, Types
<1> QED
  BY <1>20, <1>21, <1>24, <1>27, <1>28 DEF Inv

LEMMA ReceiveLastStep ==
    ASSUME Inv, NEW f \in wire \cap DataFrames, NEW room \in BOOLEAN, ReceiveLast(f, room)
    PROVE  Inv'
<1> DEFINE n == f.dst
           p == f.src
<1>1. n \in Nodes /\ p \in Nodes
  BY FrameFacts
<1> PICK r : r = Accepted(rx[n][p], f)
  OBVIOUS
<1> PICK a : a = Emptied(r, f)
  OBVIOUS
<1>2. /\ Accepts(rx[n][p], f)
      /\ f.seq = r.next
      /\ generation' = generation /\ tx' = tx /\ reply' = reply
      /\ key' = key /\ accepted' = accepted /\ order' = order
  BY DEF ReceiveLast
<1>3. r \in RxRecord /\ r.session = f.session /\ GoodReceiver(r, n, p) /\ r.asm \in Assemblies
  BY <1>1, <1>2, AcceptedFacts
<1>4. FragmentsOf(r.asm, r.session, n, p)
  BY <1>3, SMTT(30) DEF GoodReceiver
<1>5. a \in Assemblies /\ FragmentsOf(a, f.session, n, p)
  BY <1>3, <1>4, EmptiedFacts, SMTT(30)
<1>6. PICK body \in Completed(n, r, f) :
        IF room /\ HasRoom(n)
        THEN /\ rx' = [rx EXCEPT ![n][p] = [r EXCEPT !.asm = a, !.next = @ + 1]]
             /\ HandOver(n, Append(received[n], body), pendingRecv[n])
             /\ wire' = wire \cup {AckFrame(n, p, f.session, r.next)}
             /\ log' = [log EXCEPT ![n] = Append(@, body)]
             /\ done' = done \cup {m \in Msgs : body = Whole(m)}
        ELSE /\ rx' = [rx EXCEPT ![n][p] = [r EXCEPT !.asm = a]]
             /\ UNCHANGED <<received, pendingRecv, wire, log, done>>
  BY DEF ReceiveLast
<1>7. CASE room /\ HasRoom(n)
  <2>1. room = TRUE
    BY <1>7
  <2> QED
    BY <1>7, <2>1, DeliverStep
<1>8. CASE ~(room /\ HasRoom(n))
  <2>1. /\ rx' = [rx EXCEPT ![n][p] = [r EXCEPT !.asm = a]]
        /\ received' = received /\ pendingRecv' = pendingRecv
        /\ wire' = wire /\ log' = log /\ done' = done
    BY <1>6, <1>8
  <2> QED
    BY <1>1, <1>2, <1>5, <2>1, BufferStep
<1> QED
  BY <1>7, <1>8

(* A client begins to wait.                                                *)
LEMMA RecvStep ==
    ASSUME Inv, NEW n \in Nodes, Recv(n)
    PROVE  Inv'
<1>1. /\ HandOver(n, received[n], TRUE)
      /\ generation' = generation /\ tx' = tx /\ rx' = rx /\ wire' = wire /\ reply' = reply
      /\ key' = key /\ accepted' = accepted /\ order' = order /\ log' = log /\ done' = done
  BY DEF Recv, history
<1>2. Types /\ QueueInv
  BY DEF Inv
<1>3. received[n] \in Seq(Parts) /\ Len(received[n]) <= MaxReceived
  BY <1>2 DEF Types, QueueInv
<1>4. /\ QueueInv'
      /\ received' \in [Nodes -> Seq(Parts)]
      /\ pendingRecv' \in [Nodes -> BOOLEAN]
  BY <1>1, <1>2, <1>3, HandOverQueue
<1>5. Types'
  BY <1>1, <1>2, <1>4 DEF Types
<1>6. SenderInv'
  BY <1>1 DEF Inv, SenderInv
<1>7. WaitingInv'
  BY <1>1 DEF Inv, WaitingInv
<1>8. AcceptedInv'
  BY <1>1 DEF Inv, AcceptedInv, Behind
<1>9. OrderInv'
  BY <1>1 DEF Inv, OrderInv
<1>10. DataInv' /\ AckInv'
  BY <1>1, WireKept
<1>11. ReceiverInv'
  BY <1>1 DEF Inv, ReceiverInv, Behind, DeliveredAt, FragmentsOf
<1>12. LogInv'
  BY <1>1 DEF Inv, LogInv
<1> QED
  BY <1>4, <1>5, <1>6, <1>7, <1>8, <1>9, <1>10, <1>11, <1>12 DEF Inv

(* A service is replaced: its sessions start above everything it sent.     *)
LEMMA RestartStep ==
    ASSUME Inv, NEW n \in Nodes, Restart(n)
    PROVE  Inv'
<1>1. PICK g : g = generation[n] + 1
  OBVIOUS
<1>2. /\ generation' = [generation EXCEPT ![n] = g]
      /\ tx' = [tx EXCEPT ![n] = [p \in Nodes |-> NewTx(g)]]
      /\ rx' = [rx EXCEPT ![n] = [p \in Nodes |-> NewRx(Exhausted)]]
      /\ received' = [received EXCEPT ![n] = <<>>]
      /\ pendingRecv' = [pendingRecv EXCEPT ![n] = FALSE]
      /\ reply' = [m \in Msgs |-> IF reply[m] = "waiting" /\ Source[m] = n
                                  THEN "unreachable" ELSE reply[m]]
      /\ log' = [log EXCEPT ![n] = <<>>]
  BY <1>1 DEF Restart
<1>3. wire' = wire /\ key' = key /\ accepted' = accepted /\ order' = order /\ done' = done
  BY DEF Restart
<1>4. /\ generation \in [Nodes -> Nat \ {0}]
      /\ tx \in [Nodes -> [Nodes -> TxRecord]]
      /\ rx \in [Nodes -> [Nodes -> RxRecord]]
      /\ received \in [Nodes -> Seq(Parts)]
      /\ pendingRecv \in [Nodes -> BOOLEAN]
      /\ reply \in [Msgs -> Replies]
      /\ log \in [Nodes -> Seq(Parts)]
      /\ order \in [Msgs -> Nat]
      /\ \A m \in Msgs : key[m].session \in Session /\ key[m].seq \in Nat
      /\ \A m \in Msgs : Source[m] \in Nodes /\ Dest[m] \in Nodes
  BY ChannelAssumption DEF Inv, Types
<1>5. /\ g \in Nat \ {0} /\ generation[n] \in Nat /\ g = generation[n] + 1
      /\ generation' \in [Nodes -> Nat \ {0}]
      /\ \A o \in Nodes : generation'[o] = IF o = n THEN g ELSE generation[o]
  BY <1>2, <1>4, <1>1
<1>6. /\ NewTx(g) \in TxRecord
      /\ NewTx(g).session = InitialSession(g)
      /\ NewTx(g).next = 1
      /\ NewTx(g).msg = NoMsg
      /\ InitialSession(g) \in Session
      /\ Proper(InitialSession(g)) /\ InitialSession(g).gen = g
  BY <1>5 DEF NewTx, Quiet, TxRecord, InitialSession, Session, Proper
<1>7. /\ tx' \in [Nodes -> [Nodes -> TxRecord]]
      /\ \A p \in Nodes : tx'[n][p] = NewTx(g)
      /\ \A o, p \in Nodes : o # n => tx'[o][p] = tx[o][p]
  BY <1>2, <1>4, <1>6
<1>8. /\ NewRx(Exhausted) \in RxRecord
      /\ NewRx(Exhausted).session = Exhausted
      /\ NewRx(Exhausted).next = 1
      /\ NewRx(Exhausted).asm = NoReassembly
      /\ Exhausted \in Session /\ Exhausted.gen = 0
  BY NoPartsType DEF NewRx, RxRecord, Exhausted, Session
<1>9. /\ rx' \in [Nodes -> [Nodes -> RxRecord]]
      /\ \A p \in Nodes : rx'[n][p] = NewRx(Exhausted)
      /\ \A o, p \in Nodes : o # n => rx'[o][p] = rx[o][p]
  BY <1>2, <1>4, <1>8
<1>10. /\ received' \in [Nodes -> Seq(Parts)]
      /\ \A o \in Nodes : received'[o] = IF o = n THEN <<>> ELSE received[o]
  BY <1>2, <1>4
<1>11. /\ pendingRecv' \in [Nodes -> BOOLEAN]
       /\ pendingRecv'[n] = FALSE
       /\ \A o \in Nodes : o # n => pendingRecv'[o] = pendingRecv[o]
  BY <1>2, <1>4
<1>12. /\ reply' \in [Msgs -> Replies]
       /\ \A m \in Msgs : reply'[m] = IF reply[m] = "waiting" /\ Source[m] = n
                                      THEN "unreachable" ELSE reply[m]
  BY <1>2, <1>4 DEF Replies
<1>13. /\ log' \in [Nodes -> Seq(Parts)]
       /\ log'[n] = <<>>
       /\ \A o \in Nodes : o # n => log'[o] = log[o]
  BY <1>2, <1>4
<1>14. Types'
  BY <1>3, <1>5, <1>7, <1>9, <1>10, <1>11, <1>12, <1>13 DEF Inv, Types
<1>15. \A o \in Nodes : /\ generation[o] \in Nat /\ generation'[o] \in Nat
                        /\ generation[o] <= generation'[o]
  <2> TAKE o \in Nodes
  <2>1. generation[o] \in Nat
    BY <1>4
  <2>2. generation'[o] = IF o = n THEN generation[n] + 1 ELSE generation[o]
    BY <1>5
  <2> QED
    BY <2>1, <2>2
<1>16. \A o, p \in Nodes : \A s \in Session : \A i \in Nat :
          Behind(s, i, tx[o][p]) /\ s.gen <= generation[o] => Behind(s, i, tx'[o][p])
  <2> TAKE o, p \in Nodes
  <2> TAKE s \in Session
  <2> TAKE i \in Nat
  <2> HAVE Behind(s, i, tx[o][p]) /\ s.gen <= generation[o]
  <2>1. CASE o = n
    <3>1. s.gen < g
      BY <1>5, <2>1 DEF Session
    <3>2. Before(s, i, InitialSession(g), 1)
      BY <1>5, <3>1, OlderGeneration
    <3> QED
      BY <1>6, <1>7, <2>1, <3>2 DEF Behind
  <2>2. CASE o # n
    BY <1>7, <2>2
  <2> QED
    BY <2>1, <2>2
<1>17. SenderInv'
  <2> SUFFICES ASSUME NEW o \in Nodes, NEW q \in Nodes
               PROVE  /\ tx'[o][q].session # Exhausted =>
                            /\ Proper(tx'[o][q].session)
                            /\ tx'[o][q].session.gen = generation'[o]
                      /\ tx'[o][q].msg # NoMsg =>
                            /\ tx'[o][q].session # Exhausted
                            /\ Source[tx'[o][q].msg] = o
                            /\ Dest[tx'[o][q].msg] = q
                            /\ key[tx'[o][q].msg].session = tx'[o][q].session
                            /\ key[tx'[o][q].msg].seq = tx'[o][q].seq
                            /\ order[tx'[o][q].msg] > 0
                            /\ reply'[tx'[o][q].msg] = "waiting"
    BY <1>3 DEF SenderInv
  <2>1. CASE o = n
    BY <1>5, <1>6, <1>7, <2>1
  <2>2. CASE o # n
    <3>1. tx'[o][q] = tx[o][q] /\ generation'[o] = generation[o]
      BY <1>5, <1>7, <2>2
    <3>2. tx[o][q].msg # NoMsg =>
             /\ tx[o][q].msg \in Msgs
             /\ tx[o][q].session # Exhausted
             /\ Source[tx[o][q].msg] = o
             /\ Dest[tx[o][q].msg] = q
             /\ key[tx[o][q].msg].session = tx[o][q].session
             /\ key[tx[o][q].msg].seq = tx[o][q].seq
             /\ order[tx[o][q].msg] > 0
             /\ reply[tx[o][q].msg] = "waiting"
      BY InFlight
    <3>3. tx[o][q].session # Exhausted =>
             Proper(tx[o][q].session) /\ tx[o][q].session.gen = generation[o]
      BY DEF Inv, SenderInv
    <3> QED
      BY <1>12, <2>2, <3>1, <3>2, <3>3
  <2> QED
    BY <2>1, <2>2
<1>18. WaitingInv'
  <2> SUFFICES ASSUME NEW m \in Msgs, reply'[m] = "waiting"
               PROVE  tx'[Source[m]][Dest[m]].msg = m
    BY DEF WaitingInv
  <2>1. reply[m] = "waiting" /\ Source[m] # n
    BY <1>12
  <2>2. tx[Source[m]][Dest[m]].msg = m
    BY <2>1 DEF Inv, WaitingInv
  <2> QED
    BY <1>4, <1>7, <2>1, <2>2
<1>19. AcceptedInv'
  <2> SUFFICES ASSUME NEW m \in Msgs
               PROVE  /\ order[m] <= accepted
                      /\ reply'[m] \in {"idle", "busy"} => order[m] = 0
                      /\ order[m] > 0 =>
                            /\ Proper(key[m].session)
                            /\ key[m].seq > 0
                            /\ key[m].session.gen <= generation'[Source[m]]
                            /\ Behind(key[m].session, key[m].seq, tx'[Source[m]][Dest[m]])
    BY <1>3 DEF AcceptedInv, Behind
  <2>1. /\ order[m] <= accepted
        /\ reply[m] \in {"idle", "busy"} => order[m] = 0
        /\ order[m] > 0 =>
              /\ Proper(key[m].session)
              /\ key[m].seq > 0
              /\ key[m].session.gen <= generation[Source[m]]
              /\ Behind(key[m].session, key[m].seq, tx[Source[m]][Dest[m]])
    BY DEF Inv, AcceptedInv
  <2>2. reply'[m] \in {"idle", "busy"} => reply[m] \in {"idle", "busy"}
    BY <1>12
  <2>3. key[m].session.gen \in Nat
    BY <1>4 DEF Session
  <2>4. key[m].session.gen <= generation[Source[m]] =>
           key[m].session.gen <= generation'[Source[m]]
    BY <1>4, <1>15, <2>3
  <2> QED
    BY <1>4, <1>16, <2>1, <2>2, <2>4
<1>20. OrderInv'
  BY <1>3 DEF Inv, OrderInv
<1>21. DataInv'
  BY <1>3 DEF Inv, DataInv
<1>22. ReceiverInv'
  <2> SUFFICES ASSUME NEW o \in Nodes, NEW s \in Nodes
               PROVE  /\ rx'[o][s].session.gen <= generation'[s]
                      /\ rx'[o][s].session # Exhausted => Proper(rx'[o][s].session)
                      /\ rx'[o][s].session = Exhausted =>
                            rx'[o][s].next = 1 /\ rx'[o][s].asm = NoReassembly
                      /\ Behind(rx'[o][s].session, rx'[o][s].next - 1, tx'[s][o])
                      /\ \A i \in Nat : i < rx'[o][s].next =>
                            DeliveredAt(s, o, rx'[o][s].session, i)
                      /\ FragmentsOf(rx'[o][s].asm, rx'[o][s].session, o, s)
    BY <1>3 DEF ReceiverInv, Behind, FragmentsOf, DeliveredAt
  <2>1. CASE o = n
    <3>1. /\ rx'[o][s].session = Exhausted
          /\ rx'[o][s].next = 1
          /\ rx'[o][s].asm = NoReassembly
          /\ rx'[o][s].next - 1 = 0
      BY <1>8, <1>9, <2>1
    <3>2. rx'[o][s].session.gen <= generation'[s]
      BY <1>8, <1>15, <3>1
    <3>3. Behind(Exhausted, 0, tx'[s][o])
      <4>1. tx'[s][o].session # Exhausted => Proper(tx'[s][o].session)
        BY <1>17 DEF SenderInv
      <4>2. tx'[s][o].session \in Session /\ tx'[s][o].next \in Nat
        BY <1>7 DEF TxRecord
      <4> QED
        BY <4>1, <4>2, ExhaustedLowest DEF Behind
    <3>4. \A i \in Nat : i < 1 => DeliveredAt(s, o, Exhausted, i)
      <4>1. \A m \in Msgs : order[m] > 0 => key[m].seq # 0
        BY DEF Inv, AcceptedInv
      <4> QED
        BY <4>1 DEF DeliveredAt
    <3>5. FragmentsOf(NoReassembly, Exhausted, o, s)
      BY NoPartsType DEF FragmentsOf, NoReassembly
    <3> QED
      BY <3>1, <3>2, <3>3, <3>4, <3>5
  <2>2. CASE o # n
    <3>1. rx'[o][s] = rx[o][s]
      BY <1>9, <2>2
    <3>2. rx[o][s].session \in Session /\ rx[o][s].next - 1 \in Nat
      BY RxType DEF Inv
    <3>3. ReceiverInv
      BY DEF Inv
    <3>4. /\ rx[o][s].session.gen <= generation[s]
          /\ Behind(rx[o][s].session, rx[o][s].next - 1, tx[s][o])
      BY <3>3 DEF ReceiverInv
    <3>5. rx[o][s].session.gen \in Nat
      BY <3>2 DEF Session
    <3>6. rx[o][s].session.gen <= generation'[s]
      BY <1>15, <3>4, <3>5
    <3>7. Behind(rx[o][s].session, rx[o][s].next - 1, tx'[s][o])
      BY <1>16, <3>2, <3>4
    <3> QED
      BY <3>1, <3>3, <3>6, <3>7 DEF ReceiverInv
  <2> QED
    BY <2>1, <2>2
<1>23. LogInv'
  <2> SUFFICES ASSUME NEW o \in Nodes, NEW i \in 1..Len(log'[o])
               PROVE  \E m \in Msgs :
                         /\ log'[o][i] = Whole(m)
                         /\ Dest[m] = o
                         /\ order[m] > 0
                         /\ Before(key[m].session, key[m].seq,
                                   rx'[o][Source[m]].session, rx'[o][Source[m]].next)
    BY <1>3 DEF LogInv
  <2>1. o # n
    BY <1>13
  <2>2. log'[o] = log[o] /\ \A s \in Nodes : rx'[o][s] = rx[o][s]
    BY <1>9, <1>13, <2>1
  <2>3. PICK m \in Msgs :
           /\ log[o][i] = Whole(m)
           /\ Dest[m] = o
           /\ order[m] > 0
           /\ Before(key[m].session, key[m].seq,
                     rx[o][Source[m]].session, rx[o][Source[m]].next)
    BY <2>2 DEF Inv, LogInv
  <2> QED
    BY <1>4, <2>2, <2>3
<1>24. AckInv'
  <2> SUFFICES ASSUME NEW f \in wire \cap AckFrames
               PROVE  /\ Proper(f.session)
                      /\ f.session.gen <= generation'[f.dst]
                      /\ Behind(f.session, f.ack, tx'[f.dst][f.src])
                      /\ DeliveredAt(f.dst, f.src, f.session, f.ack)
    BY <1>3 DEF AckInv, Behind, DeliveredAt
  <2>1. f.session \in Session /\ f.ack \in Nat /\ f.src \in Nodes /\ f.dst \in Nodes
    BY DEF AckFrames
  <2>2. /\ Proper(f.session)
        /\ f.session.gen <= generation[f.dst]
        /\ Behind(f.session, f.ack, tx[f.dst][f.src])
        /\ DeliveredAt(f.dst, f.src, f.session, f.ack)
    BY DEF Inv, AckInv
  <2>3. f.session.gen \in Nat
    BY <2>1 DEF Session
  <2>4. f.session.gen <= generation'[f.dst]
    BY <1>15, <2>1, <2>2, <2>3
  <2> QED
    BY <1>16, <2>1, <2>2, <2>4
<1>25. QueueInv'
  <2> SUFFICES ASSUME NEW o \in Nodes
               PROVE  /\ Len(received'[o]) <= MaxReceived
                      /\ pendingRecv'[o] => received'[o] = <<>>
    BY DEF QueueInv
  <2>1. CASE o = n
    BY <1>10, <1>11, <2>1, BoundAssumption
  <2>2. CASE o # n
    BY <1>10, <1>11, <2>2 DEF Inv, QueueInv
  <2> QED
    BY <2>1, <2>2
<1> QED
  BY <1>14, <1>17, <1>18, <1>19, <1>20, <1>21, <1>22, <1>23, <1>24, <1>25 DEF Inv

(* The invariant holds in the initial state.                               *)
LEMMA InitInv ==
    ASSUME Init
    PROVE  Inv
<1> USE DEF Init
<1>1. /\ NewTx(1) \in TxRecord
      /\ NewTx(1).session = InitialSession(1)
      /\ NewTx(1).next = 1
      /\ NewTx(1).msg = NoMsg
      /\ InitialSession(1) \in Session
      /\ Proper(InitialSession(1)) /\ InitialSession(1).gen = 1
  BY DEF NewTx, Quiet, TxRecord, InitialSession, Session, Proper
<1>2. /\ NewRx(Exhausted) \in RxRecord
      /\ NewRx(Exhausted).session = Exhausted
      /\ NewRx(Exhausted).next = 1
      /\ NewRx(Exhausted).asm = NoReassembly
      /\ Exhausted \in Session /\ Exhausted.gen = 0
  BY NoPartsType DEF NewRx, RxRecord, Exhausted, Session
<1>3. /\ \A n, p \in Nodes : tx[n][p] = NewTx(1)
      /\ \A n, p \in Nodes : rx[n][p] = NewRx(Exhausted)
      /\ \A n \in Nodes : /\ generation[n] = 1 /\ log[n] = <<>> /\ received[n] = <<>>
                          /\ ~pendingRecv[n]
      /\ \A m \in Msgs : order[m] = 0 /\ reply[m] = "idle"
      /\ accepted = 0 /\ wire = {} /\ done = {}
  OBVIOUS
<1>4. Types
  <2>1. <<>> \in Seq(Parts)
    OBVIOUS
  <2>2. [session |-> Exhausted, seq |-> 0] \in [session : Session, seq : Nat]
    BY <1>2
  <2> QED
    BY <1>1, <1>2, <2>1, <2>2 DEF Types, Replies
<1>5. SenderInv
  BY <1>1, <1>3 DEF SenderInv
<1>6. WaitingInv /\ AcceptedInv /\ OrderInv
  BY <1>3 DEF WaitingInv, AcceptedInv, OrderInv
<1>7. DataInv /\ AckInv
  BY <1>3 DEF DataInv, AckInv
<1>8. ReceiverInv
  <2>1. Behind(Exhausted, 0, NewTx(1))
    BY <1>1, ExhaustedLowest DEF Behind
  <2>2. \A n, p \in Nodes : FragmentsOf(NoReassembly, Exhausted, n, p)
    BY NoPartsType DEF FragmentsOf, NoReassembly
  <2>3. \A n, p \in Nodes : \A i \in Nat : DeliveredAt(p, n, Exhausted, i)
    BY <1>3 DEF DeliveredAt
  <2>4. 1 - 1 = 0 /\ 0 <= 1
    OBVIOUS
  <2> HIDE DEF Init
  <2> QED
    BY <1>2, <1>3, <2>1, <2>2, <2>3, <2>4 DEF ReceiverInv
<1>9. LogInv
  BY <1>3 DEF LogInv
<1>10. QueueInv
  BY <1>3, BoundAssumption DEF QueueInv
<1> QED
  BY <1>4, <1>5, <1>6, <1>7, <1>8, <1>9, <1>10 DEF Inv

(* Every step preserves the invariant.                                     *)
LEMMA NextInv ==
    ASSUME Inv, ~PartialSend, [Next]_vars
    PROVE  Inv'
<1>1. ASSUME NEW m \in Msgs, SendRefused(m)
      PROVE  Inv'
  BY <1>1, SendRefusedStep
<1>2. ASSUME NEW m \in Msgs, Send(m)
      PROVE  Inv'
  BY <1>2, SendStep
<1>3. ASSUME NEW m \in Msgs, NEW k \in 0..Size[m], SendFails(m, k)
      PROVE  Inv'
  BY <1>3, SendFailsStep
<1>4. ASSUME NEW f \in wire \cap AckFrames, ReceiveAck(f)
      PROVE  Inv'
  BY <1>4, ReceiveAckStep
<1>5. ASSUME NEW f \in wire \cap DataFrames, ReceiveData(f)
      PROVE  Inv'
  BY <1>5, ReceiveOtherStep, ReceiveFragmentStep, ReceiveLastStep DEF ReceiveData
<1>6. ASSUME NEW n \in Nodes, Tick(n)
      PROVE  Inv'
  BY <1>6, TickStep, SMTT(30)
<1>7. ASSUME NEW n \in Nodes, Recv(n)
      PROVE  Inv'
  BY <1>7, RecvStep, SMTT(30)
<1>8. ASSUME NEW n \in Nodes, Restart(n)
      PROVE  Inv'
  BY <1>8, RestartStep, SMTT(30)
<1>9. ASSUME UNCHANGED vars
      PROVE  Inv'
  BY <1>9 DEF vars, history, Inv, Types, SenderInv, WaitingInv, AcceptedInv, OrderInv, DataInv,
              ReceiverInv, LogInv, AckInv, QueueInv, Behind, DeliveredAt, FragmentsOf
<1> QED
  BY <1>1, <1>2, <1>3, <1>4, <1>5, <1>6, <1>7, <1>8, <1>9 DEF Next

-----------------------------------------------------------------------------
(* The service implements the channel                                      *)

(* The abstract log, for the sequences of bodies it is made of.            *)
LEMMA ContentsAppend ==
    ASSUME NEW s \in Seq(Parts), NEW m \in Msgs
    PROVE  Contents(Append(s, Whole(m))) = Append(Contents(s), m)
<1> DEFINE t == Append(s, Whole(m))
           c == Contents(s)
<1>1. /\ Len(s) \in Nat
      /\ Len(t) = Len(s) + 1
      /\ \A i \in 1..Len(s) : t[i] = s[i]
      /\ t[Len(s) + 1] = Whole(m)
  BY WholeType, AppendProperties, LenProperties
<1>2. Whole(m)[1] = m
  BY WholeType
<1> HIDE DEF t
<1>3. Contents(t) = [i \in 1..(Len(s) + 1) |-> t[i][1]]
  BY <1>1 DEF Contents
<1>4. Len(c) = Len(s) /\ DOMAIN c = 1..Len(s)
  BY <1>1 DEF Contents
<1>5. Append(c, m) = [i \in 1..(Len(s) + 1) |-> IF i = Len(s) + 1 THEN m ELSE c[i]]
  <2> DEFINE X == {c[i] : i \in 1..Len(s)} \cup {m}
  <2>1. c \in [1..Len(s) -> X]
    BY <1>4 DEF Contents
  <2> HIDE DEF c, X
  <2>2. c \in Seq(X) /\ m \in X
    BY <1>1, <2>1, SeqDef DEF X
  <2>3. /\ Append(c, m) \in Seq(X)
        /\ Len(Append(c, m)) = Len(c) + 1
        /\ \A i \in 1..Len(c) : Append(c, m)[i] = c[i]
        /\ Append(c, m)[Len(c) + 1] = m
    BY <2>2, AppendProperties
  <2>4. Append(c, m) \in [1..(Len(s) + 1) -> X]
    BY <1>4, <2>3, LenProperties
  <2>5. PICK F : F = Append(c, m)
    OBVIOUS
  <2>6. \A i \in 1..(Len(s) + 1) : F[i] = IF i = Len(s) + 1 THEN m ELSE c[i]
    BY <1>1, <1>4, <2>3, <2>5
  <2>7. F \in [1..(Len(s) + 1) -> X]
    BY <2>4, <2>5
  <2>8. F = [i \in 1..(Len(s) + 1) |-> IF i = Len(s) + 1 THEN m ELSE c[i]]
    BY ONLY <2>6, <2>7
  <2> QED
    BY <2>5, <2>8
<1>6. \A i \in 1..(Len(s) + 1) : t[i][1] = IF i = Len(s) + 1 THEN m ELSE c[i]
  BY <1>1, <1>2 DEF Contents
<1>7. Contents(t) = Append(c, m)
  BY <1>3, <1>5, <1>6
<1> QED
  BY <1>7 DEF t

(* The variables of the channel.                                           *)
Statuses == [m \in Msgs |-> AbstractStatus(m)]
Logs == [n \in Nodes |-> Contents(log[n])]

(* A step that changes no reply in the eyes of a client, and delivers      *)
(* nothing, is not seen.                                                   *)
LEMMA Unseen ==
    ASSUME \A m \in Msgs : AbstractStatus(m)' = AbstractStatus(m),
           accepted' = accepted, order' = order, log' = log, done' = done
    PROVE  UNCHANGED Channel!channelVars
<1>1. Statuses' = Statuses
  BY DEF Statuses
<1>2. Logs' = Logs
  BY DEF Logs, Contents
<1> QED
  BY <1>1, <1>2 DEF Channel!channelVars, Statuses, Logs

(* Calls that were idle or in flight fail.                                 *)
LEMMA Fails ==
    ASSUME NEW S \in SUBSET Msgs,
           \A m \in S : AbstractStatus(m) \in {"idle", "waiting"} /\ AbstractStatus(m)' = "failed",
           \A m \in Msgs \ S : AbstractStatus(m)' = AbstractStatus(m),
           accepted' = accepted, order' = order, log' = log, done' = done
    PROVE  Channel!Next
<1>1. Statuses' = [m \in Msgs |-> IF m \in S THEN "failed" ELSE Statuses[m]]
  BY DEF Statuses
<1>2. Logs' = Logs
  BY DEF Logs, Contents
<1>3. \A m \in S : Statuses[m] \in {"idle", "waiting"}
  BY DEF Statuses
<1>4. Channel!Fail(S)
  BY <1>1, <1>2, <1>3 DEF Channel!Fail, Statuses, Logs
<1> QED
  BY <1>4 DEF Channel!Next

(* The initial state is an initial state of the channel.                   *)
LEMMA InitMaps ==
    ASSUME Init
    PROVE  Channel!Init
<1>1. Statuses = [m \in Msgs |-> "idle"]
  BY DEF Init, Statuses, AbstractStatus
<1>2. Logs = [n \in Nodes |-> <<>>]
  <2>1. \A n \in Nodes : Contents(log[n]) = <<>>
    BY DEF Init, Contents
  <2> QED
    BY <2>1 DEF Logs
<1> QED
  BY <1>1, <1>2 DEF Init, Channel!Init, Statuses, Logs

LEMMA SendRefusedMaps ==
    ASSUME Inv, NEW m \in Msgs, SendRefused(m)
    PROVE  Channel!Next \/ UNCHANGED Channel!channelVars
<1>1. /\ reply[m] \in {"idle", "busy"}
      /\ reply' = [reply EXCEPT ![m] = Refusal(Source[m], m)]
      /\ accepted' = accepted /\ order' = order /\ log' = log /\ done' = done
  BY DEF SendRefused, history
<1>2. Refusal(Source[m], m) \in {"unknown", "busy", "unreachable"}
  BY DEF Refusal, SendRefused
<1>3. \A k \in Msgs : reply'[k] = IF k = m THEN Refusal(Source[m], m) ELSE reply[k]
  BY <1>1 DEF Inv, Types
<1>4. \A k \in Msgs \ {m} : AbstractStatus(k)' = AbstractStatus(k)
  BY <1>3 DEF AbstractStatus
<1>5. AbstractStatus(m) = "idle"
  BY <1>1 DEF AbstractStatus
<1>6. CASE Refusal(Source[m], m) = "busy"
  <2>1. AbstractStatus(m)' = "idle"
    BY <1>3, <1>6 DEF AbstractStatus
  <2> QED
    BY <1>1, <1>4, <1>5, <2>1, Unseen
<1>7. CASE Refusal(Source[m], m) # "busy"
  <2>1. AbstractStatus(m)' = "failed"
    BY <1>2, <1>3, <1>7 DEF AbstractStatus
  <2>2. {m} \in SUBSET Msgs
    OBVIOUS
  <2> QED
    BY <1>1, <1>4, <1>5, <2>1, <2>2, Fails
<1> QED
  BY <1>6, <1>7

LEMMA SendFailsMaps ==
    ASSUME Inv, NEW m \in Msgs, NEW k \in 0..Size[m], SendFails(m, k)
    PROVE  Channel!Next
<1>1. /\ reply[m] \in {"idle", "busy"}
      /\ reply' = [reply EXCEPT ![m] = "unreachable"]
      /\ accepted' = accepted /\ order' = order /\ log' = log /\ done' = done
  BY DEF SendFails, history
<1>2. \A j \in Msgs : reply'[j] = IF j = m THEN "unreachable" ELSE reply[j]
  BY <1>1 DEF Inv, Types
<1>3. \A j \in Msgs \ {m} : AbstractStatus(j)' = AbstractStatus(j)
  BY <1>2 DEF AbstractStatus
<1>4. AbstractStatus(m) = "idle" /\ AbstractStatus(m)' = "failed"
  BY <1>1, <1>2 DEF AbstractStatus
<1>5. {m} \in SUBSET Msgs
  OBVIOUS
<1> QED
  BY <1>1, <1>3, <1>4, <1>5, Fails

LEMMA SendMaps ==
    ASSUME Inv, NEW m \in Msgs, Send(m)
    PROVE  Channel!Next
<1>1. /\ reply[m] \in {"idle", "busy"}
      /\ reply' = [reply EXCEPT ![m] = "waiting"]
      /\ accepted' = accepted + 1
      /\ order' = [order EXCEPT ![m] = accepted + 1]
      /\ log' = log /\ done' = done
  BY DEF Send
<1>2. \A k \in Msgs : reply'[k] = IF k = m THEN "waiting" ELSE reply[k]
  BY <1>1 DEF Inv, Types
<1>3. \A k \in Msgs : AbstractStatus(k)' = IF k = m THEN "waiting" ELSE AbstractStatus(k)
  BY <1>2 DEF AbstractStatus
<1>4. Statuses' = [Statuses EXCEPT ![m] = "waiting"] /\ Statuses[m] = "idle"
  BY <1>1, <1>3 DEF Statuses, AbstractStatus
<1>5. Logs' = Logs
  BY <1>1 DEF Logs, Contents
<1>6. Channel!Call(m)
  BY <1>1, <1>4, <1>5 DEF Channel!Call, Statuses, Logs
<1> QED
  BY <1>6 DEF Channel!Next

LEMMA TickMaps ==
    ASSUME Inv, NEW n \in Nodes, Tick(n)
    PROVE  Channel!Next
<1> DEFINE S == {m \in Msgs : \E p \in Nodes : tx[n][p].msg = m /\ LeaseEnds(tx[n][p])}
<1>1. /\ \A m \in Msgs : reply'[m] = IF m \in S THEN "unreachable" ELSE reply[m]
      /\ accepted' = accepted /\ order' = order /\ log' = log /\ done' = done
  BY DEF Tick, history
<1>2. \A m \in S : reply[m] = "waiting"
  BY InFlight DEF LeaseEnds
<1>3. \A m \in S : AbstractStatus(m) \in {"idle", "waiting"} /\ AbstractStatus(m)' = "failed"
  BY <1>1, <1>2 DEF AbstractStatus
<1>4. \A m \in Msgs \ S : AbstractStatus(m)' = AbstractStatus(m)
  BY <1>1 DEF AbstractStatus
<1>5. S \in SUBSET Msgs
  OBVIOUS
<1> HIDE DEF S
<1> QED
  BY <1>1, <1>3, <1>4, <1>5, Fails

LEMMA ReceiveAckMaps ==
    ASSUME Inv, NEW f \in wire \cap AckFrames, ReceiveAck(f)
    PROVE  Channel!Next
<1>1. PICK m : m = tx[f.dst][f.src].msg
  OBVIOUS
<1>2. f.dst \in Nodes /\ f.src \in Nodes
  BY DEF AckFrames
<1>3. /\ m # NoMsg
      /\ reply' = [reply EXCEPT ![m] = "ok"]
      /\ accepted' = accepted /\ order' = order /\ log' = log /\ done' = done
  BY <1>1 DEF ReceiveAck, Completes, history
<1>4. m \in Msgs /\ reply[m] = "waiting" /\ m \in done
  BY <1>2, <1>3, <1>1, ReceiveAckStep, InFlight
<1>5. \A k \in Msgs : reply'[k] = IF k = m THEN "ok" ELSE reply[k]
  BY <1>3 DEF Inv, Types
<1>6. \A k \in Msgs : AbstractStatus(k)' = IF k = m THEN "ok" ELSE AbstractStatus(k)
  BY <1>5 DEF AbstractStatus
<1>7. Statuses' = [Statuses EXCEPT ![m] = "ok"] /\ Statuses[m] = "waiting"
  BY <1>4, <1>6 DEF Statuses, AbstractStatus
<1>8. Logs' = Logs
  BY <1>3 DEF Logs, Contents
<1>9. Channel!Succeed(m)
  BY <1>3, <1>4, <1>7, <1>8 DEF Channel!Succeed, Statuses, Logs
<1> QED
  BY <1>4, <1>9 DEF Channel!Next

(* A step that leaves the replies alone leaves the statuses alone.         *)
LEMMA SameReplies ==
    ASSUME reply' = reply
    PROVE  \A m \in Msgs : AbstractStatus(m)' = AbstractStatus(m)
BY DEF AbstractStatus

(* A body is queued: its message is newer than all messages of its sender  *)
(* in the log.                                                             *)
LEMMA DeliverMaps ==
    ASSUME Inv, NEW f \in wire \cap DataFrames, ReceiveLast(f, TRUE), HasRoom(f.dst)
    PROVE  Channel!Next
<1> DEFINE n == f.dst
           p == f.src
           m == f.part
<1>1. PICK r : r = Accepted(rx[n][p], f)
  OBVIOUS
<1>2. /\ m \in Msgs /\ n \in Nodes /\ p \in Nodes
      /\ order[m] > 0
      /\ key[m].session = f.session
      /\ key[m].seq = f.seq
      /\ p = Source[m]
      /\ n = Dest[m]
  BY FrameFacts
<1>3. Accepts(rx[n][p], f) /\ f.seq = r.next
  BY <1>1 DEF ReceiveLast
<1>4. reply' = reply /\ accepted' = accepted /\ order' = order
  BY DEF ReceiveLast
<1>5. /\ r \in RxRecord
      /\ r.session = f.session
      /\ GoodReceiver(r, n, p)
      /\ RxForward(rx[n][p], r)
  BY <1>2, <1>3, <1>1, AcceptedFacts
<1>6. PICK body \in Completed(n, r, f) :
         /\ log' = [log EXCEPT ![n] = Append(@, body)]
         /\ done' = done \cup {k \in Msgs : body = Whole(k)}
  BY <1>1 DEF ReceiveLast
<1>7. body = Whole(m)
  BY <1>5, CompletedFacts DEF GoodReceiver
<1>8. done' = done \cup {m}
  BY <1>2, <1>6, <1>7, WholeType
<1>9. log \in [Nodes -> Seq(Parts)]
  BY DEF Inv, Types
<1>10. Contents(Append(log[n], body)) = Append(Contents(log[n]), m)
  BY <1>2, <1>7, <1>9, ContentsAppend
<1>11. Logs' = [Logs EXCEPT ![n] = Append(Logs[n], m)]
  <2>1. \A o \in Nodes : log'[o] = IF o = n THEN Append(log[n], body) ELSE log[o]
    BY <1>2, <1>6, <1>9
  <2>2. \A o \in Nodes : Contents(log'[o]) = IF o = n THEN Append(Contents(log[n]), m)
                                             ELSE Contents(log[o])
    BY <1>10, <2>1
  <2>3. Logs' = [o \in Nodes |-> Contents(log'[o])]
    BY DEF Logs, Contents
  <2>4. Logs = [o \in Nodes |-> Contents(log[o])]
    BY DEF Logs
  <2> QED
    BY <1>2, <2>2, <2>3, <2>4
<1>12. Statuses' = Statuses
  BY <1>4, SameReplies DEF Statuses
<1>13. ASSUME NEW i \in 1..Len(Logs[n]), Source[Logs[n][i]] = Source[m]
       PROVE  order[Logs[n][i]] < order[m]
  <2>1. Len(log[n]) \in Nat
    BY <1>2, <1>9, LenProperties
  <2>2. Logs[n] = [j \in 1..Len(log[n]) |-> log[n][j][1]]
    BY <1>2 DEF Logs, Contents
  <2>3. Len(Logs[n]) = Len(log[n])
    BY <2>1, <2>2
  <2>4. i \in 1..Len(log[n]) /\ Logs[n][i] = log[n][i][1]
    BY <2>2, <2>3, <1>13
  <2>5. PICK k \in Msgs :
           /\ log[n][i] = Whole(k)
           /\ Dest[k] = n
           /\ order[k] > 0
           /\ Before(key[k].session, key[k].seq,
                     rx[n][Source[k]].session, rx[n][Source[k]].next)
    BY <1>2, <2>4, SMTT(30) DEF Inv, LogInv
  <2>6. Logs[n][i] = k
    BY <2>4, <2>5, WholeType
  <2>7. Source[k] = p
    BY <1>2, <1>13, <2>6
  <2>8. /\ key[k].session \in Session /\ key[k].seq \in Nat
        /\ key[m].session \in Session /\ key[m].seq \in Nat
        /\ order[k] \in Nat /\ order[m] \in Nat
    BY <1>2 DEF Inv, Types
  <2>9. Before(key[k].session, key[k].seq, key[m].session, key[m].seq)
    BY <1>2, <1>3, <1>5, <2>5, <2>7, <2>8 DEF RxForward
  <2>10. OrderInv
    BY DEF Inv
  <2>11. k # m
    BY <2>8, <2>9, BeforeIrreflexive
  <2>12. ~(order[m] < order[k])
    <3> SUFFICES ASSUME order[m] < order[k]
                 PROVE  FALSE
      OBVIOUS
    <3>1. Before(key[m].session, key[m].seq, key[k].session, key[k].seq)
      BY <1>2, <2>5, <2>7, <2>10 DEF OrderInv
    <3>2. Before(key[m].session, key[m].seq, key[m].session, key[m].seq)
      BY <2>8, <2>9, <3>1, BeforeTransitive
    <3> QED
      BY <2>8, <3>2, BeforeIrreflexive
  <2>13. order[k] # order[m]
    BY <1>2, <2>5, <2>10, <2>11 DEF OrderInv
  <2> QED
    BY <2>6, <2>8, <2>12, <2>13
<1>14. Channel!Deliver(m)
  BY <1>2, <1>4, <1>8, <1>11, <1>12, <1>13 DEF Channel!Deliver, Statuses, Logs
<1> QED
  BY <1>2, <1>14 DEF Channel!Next

LEMMA ReceiveDataMaps ==
    ASSUME Inv, NEW f \in wire \cap DataFrames, ReceiveData(f)
    PROVE  Channel!Next \/ UNCHANGED Channel!channelVars
<1>1. CASE ReceiveOther(f) \/ ReceiveFragment(f)
  <2>1. reply' = reply /\ accepted' = accepted /\ order' = order /\ log' = log /\ done' = done
    BY <1>1 DEF ReceiveOther, ReceiveFragment, history
  <2> QED
    BY <2>1, SameReplies, Unseen
<1>2. ASSUME NEW room \in BOOLEAN, ReceiveLast(f, room)
      PROVE  Channel!Next \/ UNCHANGED Channel!channelVars
  <2>1. CASE room /\ HasRoom(f.dst)
    <3>1. room = TRUE
      BY <2>1
    <3> QED
      BY <1>2, <2>1, <3>1, DeliverMaps
  <2>2. CASE ~(room /\ HasRoom(f.dst))
    <3>1. reply' = reply /\ accepted' = accepted /\ order' = order /\ log' = log /\ done' = done
      BY <1>2, <2>2 DEF ReceiveLast
    <3> QED
      BY <3>1, SameReplies, Unseen
  <2> QED
    BY <2>1, <2>2
<1> QED
  BY <1>1, <1>2 DEF ReceiveData

LEMMA RestartMaps ==
    ASSUME Inv, NEW n \in Nodes, Restart(n)
    PROVE  Channel!Next
<1>1. /\ \A m \in Msgs : reply'[m] = IF reply[m] = "waiting" /\ Source[m] = n
                                     THEN "unreachable" ELSE reply[m]
      /\ log' = [log EXCEPT ![n] = <<>>]
      /\ accepted' = accepted /\ order' = order /\ done' = done
  BY DEF Restart
<1>2. \A m \in Msgs : AbstractStatus(m)' = IF AbstractStatus(m) = "waiting" /\ Source[m] = n
                                           THEN "failed" ELSE AbstractStatus(m)
  <2> TAKE m \in Msgs
  <2>1. reply[m] \in Replies
    BY DEF Inv, Types
  <2>2. AbstractStatus(m) = "waiting" <=> reply[m] = "waiting"
    BY <2>1 DEF AbstractStatus, Replies
  <2> QED
    BY <1>1, <2>2 DEF AbstractStatus
<1>3. Statuses' = [m \in Msgs |-> IF Statuses[m] = "waiting" /\ Source[m] = n
                                  THEN "failed" ELSE Statuses[m]]
  BY <1>2 DEF Statuses
<1>4. Logs' = [Logs EXCEPT ![n] = <<>>]
  <2>1. \A o \in Nodes : log'[o] = IF o = n THEN <<>> ELSE log[o]
    BY <1>1 DEF Inv, Types
  <2>2. Contents(<<>>) = <<>>
    BY DEF Contents
  <2>3. \A o \in Nodes : Contents(log'[o]) = IF o = n THEN <<>> ELSE Contents(log[o])
    BY <2>1, <2>2
  <2>4. Logs' = [o \in Nodes |-> Contents(log'[o])]
    BY DEF Logs, Contents
  <2>5. Logs = [o \in Nodes |-> Contents(log[o])]
    BY DEF Logs
  <2> QED
    BY <2>3, <2>4, <2>5
<1>5. Channel!Restart(n)
  BY <1>1, <1>3, <1>4 DEF Channel!Restart, Statuses, Logs
<1> QED
  BY <1>5 DEF Channel!Next

(* Every step of the service is a step of the channel, or is not seen.     *)
LEMMA NextMaps ==
    ASSUME Inv, [Next]_vars
    PROVE  [Channel!Next]_Channel!channelVars
<1>1. ASSUME NEW m \in Msgs, SendRefused(m)
      PROVE  Channel!Next \/ UNCHANGED Channel!channelVars
  BY <1>1, SendRefusedMaps
<1>2. ASSUME NEW m \in Msgs, Send(m)
      PROVE  Channel!Next
  BY <1>2, SendMaps
<1>3. ASSUME NEW m \in Msgs, NEW k \in 0..Size[m], SendFails(m, k)
      PROVE  Channel!Next
  BY <1>3, SendFailsMaps
<1>4. ASSUME NEW f \in wire \cap AckFrames, ReceiveAck(f)
      PROVE  Channel!Next
  BY <1>4, ReceiveAckMaps
<1>5. ASSUME NEW f \in wire \cap DataFrames, ReceiveData(f)
      PROVE  Channel!Next \/ UNCHANGED Channel!channelVars
  BY <1>5, ReceiveDataMaps
<1>6. ASSUME NEW n \in Nodes, Tick(n)
      PROVE  Channel!Next
  BY <1>6, TickMaps
<1>7. ASSUME NEW n \in Nodes, Recv(n)
      PROVE  UNCHANGED Channel!channelVars
  <2>1. reply' = reply /\ accepted' = accepted /\ order' = order /\ log' = log /\ done' = done
    BY <1>7 DEF Recv, history
  <2> QED
    BY <2>1, SameReplies, Unseen
<1>8. ASSUME NEW n \in Nodes, Restart(n)
      PROVE  Channel!Next
  BY <1>8, RestartMaps
<1>9. ASSUME UNCHANGED vars
      PROVE  UNCHANGED Channel!channelVars
  <2>1. reply' = reply /\ accepted' = accepted /\ order' = order /\ log' = log /\ done' = done
    BY <1>9 DEF vars, history
  <2> QED
    BY <2>1, SameReplies, Unseen
<1> QED
  BY <1>1, <1>2, <1>3, <1>4, <1>5, <1>6, <1>7, <1>8, <1>9 DEF Next

-----------------------------------------------------------------------------
(* The theorems                                                            *)

(* The inductive invariant, for every set of machines and messages.        *)
THEOREM Invariance ==
    ASSUME ~PartialSend
    PROVE  Spec => []Inv
<1>1. Init => Inv
  BY InitInv
<1>2. Inv /\ [Next]_vars => Inv'
  BY NextInv
<1> QED
  BY <1>1, <1>2, PTL DEF Spec

(* The state of the messaging service has its types, and the queue of a    *)
(* service stays within its bound.                                         *)
THEOREM TypesPreserved ==
    ASSUME ~PartialSend
    PROVE  Spec => []TypeOK
<1>1. Inv => TypeOK
  <2> SUFFICES ASSUME Inv
               PROVE  TypeOK
    OBVIOUS
  <2>1. Types /\ QueueInv
    BY DEF Inv
  <2>2. \A n, p \in Nodes : /\ rx[n][p].session \in Session
                            /\ rx[n][p].next \in Nat \ {0}
                            /\ rx[n][p].asm.seq \in Nat
    BY <2>1, RxType
  <2> QED
    BY <2>1, <2>2 DEF TypeOK, Types, QueueInv
<1> QED
  BY <1>1, Invariance, PTL

(* Every body a service queues is one whole message for this machine,      *)
(* whatever the network does to the fragments.                             *)
THEOREM BodiesUntorn ==
    ASSUME ~PartialSend
    PROVE  Spec => []Untorn
<1>1. Inv => Untorn
  BY DEF Inv, LogInv, Untorn
<1> QED
  BY <1>1, Invariance, PTL

(* A client in OP_RECV does not wait beside a queued message.              *)
THEOREM ReceiversServed ==
    ASSUME ~PartialSend
    PROVE  Spec => []NoIdleReceiver
<1>1. Inv => NoIdleReceiver
  BY DEF Inv, QueueInv, NoIdleReceiver
<1> QED
  BY <1>1, Invariance, PTL

(* The service implements the channel: at most one delivery of a message   *)
(* in the life of a receiver, in the order of acceptance, and success only *)
(* after a delivery, for every loss, duplication, delay and restart.       *)
THEOREM ServiceImplementsChannel ==
    ASSUME ~PartialSend
    PROVE  Spec => ImplementsChannel
<1>1. Init => Channel!Init
  BY InitMaps
<1>2. Inv /\ [Next]_vars => [Channel!Next]_Channel!channelVars
  BY NextMaps
<1> QED
  BY <1>1, <1>2, Invariance, PTL DEF Spec, ImplementsChannel, Channel!Spec
====
