------------------------------- MODULE RelMsg -------------------------------
(***************************************************************************)
(* The reliable messaging service (catten-services/src/bin/relmsg.rs) on a *)
(* network that loses, duplicates, delays and reorders frames without      *)
(* limit.  Each service keeps, for every peer, a transmit half (one        *)
(* message in flight, retransmitted a bounded number of times) and a       *)
(* receive half (next expected sequence number, fragments of the expected  *)
(* message).  Sessions order everything: a restarted service takes a new   *)
(* generation from the name service, and a transmit half that gives up on  *)
(* a message continues in the next session of its generation.              *)
(*                                                                         *)
(* Lengths are counted in frame payloads.  A frame that was put on the     *)
(* wire stays there: delivering it never, late or repeatedly are all       *)
(* behaviours, so a retransmission is only visible in the retry state.     *)
(***************************************************************************)
EXTENDS Naturals, Sequences, FiniteSets, FiniteSetsExt

CONSTANTS Nodes,
          Receivers,      \* the machines with a client that receives
          Msgs,           \* the messages clients ever send
          NoMsg,          \* no message
          Source,         \* the machine each message is sent from
          Dest,           \* and the one it is sent to
          Size,           \* number of frames of a message
          MaxRetries,     \* relmsg::MAX_RETRIES
          MaxRetryDelay,  \* relmsg::MAX_RETRY_DELAY_TICKS
          MaxAttempt,     \* SESSION_ATTEMPT_MASK: last retry epoch of a generation
          MaxGeneration,  \* bound: last generation of each service
          MaxReceived,    \* MAX_RECEIVED_MESSAGES
          MaxReassembly,  \* MAX_REASSEMBLY_BYTES, in frames
          MaxOutbound,    \* MAX_OUTBOUND_BYTES, in frames
          PartialSend     \* TRUE: the NIC may refuse a frame after it took
                          \* earlier frames of the same message

ASSUME ChannelAssumption ==
    /\ NoMsg \notin Msgs
    /\ Source \in [Msgs -> Nodes]
    /\ Dest \in [Msgs -> Nodes]
    /\ \A m \in Msgs : Source[m] # Dest[m]
    /\ Size \in [Msgs -> Nat \ {0}]

ASSUME BoundAssumption ==
    /\ MaxRetries \in Nat
    /\ MaxRetryDelay \in Nat \ {0}
    /\ MaxAttempt \in Nat \ {0}
    /\ MaxGeneration \in [Nodes -> Nat]
    /\ MaxReceived \in Nat \ {0}
    /\ MaxReassembly \in Nat
    /\ MaxOutbound \in Nat
    /\ PartialSend \in BOOLEAN

VARIABLES generation,   \* per machine: generation of the running service
          tx,           \* tx[n][p]: transmit half of n's record of peer p
          rx,           \* rx[n][p]: receive half of n's record of peer p
          received,     \* per machine: messages not yet taken by a client
          pendingRecv,  \* per machine: a client waits in OP_RECV
          wire,         \* every frame ever handed to a NIC
          reply,        \* what the call that sends a message has returned
          key,          \* history: session and sequence number of a message
          accepted,     \* history: the number of accepted messages
          order,        \* history: stamp of a message in acceptance order
          log,          \* history: bodies queued since the service started
          done          \* history: the messages that were ever queued

history == <<key, accepted, order, log, done>>
vars == <<generation, tx, rx, received, pendingRecv, wire, reply, history>>

-----------------------------------------------------------------------------
(* Wire sessions: the packed (generation, retry epoch), ordered as packed. *)

Session == [gen : Nat, attempt : Nat]
Exhausted == [gen |-> 0, attempt |-> 0]

InitialSession(g) == [gen |-> g, attempt |-> 1]

NextSession(s) ==
    IF s.gen = 0 \/ s.attempt = 0 \/ s.attempt = MaxAttempt
    THEN Exhausted ELSE [s EXCEPT !.attempt = @ + 1]

Older(s, t) == s.gen < t.gen \/ (s.gen = t.gen /\ s.attempt < t.attempt)

Newer(candidate, current) ==
    candidate.gen # 0 /\ candidate.attempt # 0 /\ Older(current, candidate)

(* Sequence numbers start again in every session.                          *)
Before(s, i, t, j) == Older(s, t) \/ (s = t /\ i < j)

-----------------------------------------------------------------------------
(* Records of a peer                                                       *)

NoParts == [k \in {} |-> NoMsg]
NoReassembly == [seq |-> 0, total |-> 0, parts |-> NoParts]

(* Peer::new, and what remains of the transmit half once nothing is in     *)
(* flight.                                                                 *)
Quiet(s, i) ==
    [session |-> s, next |-> i, msg |-> NoMsg, seq |-> 0, retries |-> 0, ticks |-> 0]
NewTx(g) == Quiet(InitialSession(g), 1)
NewRx(s) == [session |-> s, next |-> 1, asm |-> NoReassembly]

DataFrame(m, s, i, k) ==
    [src |-> Source[m], dst |-> Dest[m], session |-> s, seq |-> i,
     total |-> Size[m], offset |-> k, part |-> m]

Frames(m, s, i, k) == {DataFrame(m, s, i, j) : j \in 1..k}

AckFrame(n, p, s, i) == [src |-> n, dst |-> p, session |-> s, ack |-> i]

DataFrames == [src : Nodes, dst : Nodes, session : Session, seq : Nat,
               total : Nat, offset : Nat, part : Msgs]
AckFrames == [src : Nodes, dst : Nodes, session : Session, ack : Nat]

RetryDelay(m) == IF Size[m] < MaxRetryDelay THEN Size[m] ELSE MaxRetryDelay

(* The body of a message that arrived whole.                               *)
Whole(m) == [k \in 1..Size[m] |-> m]

Outbound(n) ==
    MapThenSumSet(LAMBDA p : Size[tx[n][p].msg], {p \in Nodes : tx[n][p].msg # NoMsg})

(* Fragments buffered for the peers of n other than p.                     *)
Buffered(n, p) ==
    MapThenSumSet(LAMBDA q : Cardinality(DOMAIN rx[n][q].asm.parts), Nodes \ {p})

-----------------------------------------------------------------------------

Init ==
    /\ generation = [n \in Nodes |-> 1]
    /\ tx = [n \in Nodes |-> [p \in Nodes |-> NewTx(1)]]
    /\ rx = [n \in Nodes |-> [p \in Nodes |-> NewRx(Exhausted)]]
    /\ received = [n \in Nodes |-> <<>>]
    /\ pendingRecv = [n \in Nodes |-> FALSE]
    /\ wire = {}
    /\ reply = [m \in Msgs |-> "idle"]
    /\ key = [m \in Msgs |-> [session |-> Exhausted, seq |-> 0]]
    /\ accepted = 0
    /\ order = [m \in Msgs |-> 0]
    /\ log = [n \in Nodes |-> <<>>]
    /\ done = {}

(* OP_SEND refused before a frame is built: too many bytes in flight, one  *)
(* message already in flight to this peer, or no session left.  A client   *)
(* that is told the service is busy calls again.                           *)
Refusal(n, m) ==
    LET t == tx[n][Dest[m]] IN
    IF Outbound(n) + Size[m] > MaxOutbound THEN "unknown"
    ELSE IF t.msg # NoMsg THEN "busy"
    ELSE IF t.session = Exhausted THEN "unreachable"
    ELSE "none"

SendRefused(m) ==
    LET n == Source[m] IN
    /\ reply[m] \in {"idle", "busy"}
    /\ Refusal(n, m) # "none"
    /\ reply' = [reply EXCEPT ![m] = Refusal(n, m)]
    /\ UNCHANGED <<generation, tx, rx, received, pendingRecv, wire, history>>

(* OP_SEND: all frames are handed to the NIC and the call is retained      *)
(* until the acknowledgement.                                              *)
Send(m) ==
    LET n == Source[m]
        p == Dest[m]
        t == tx[n][p]
    IN
    /\ reply[m] \in {"idle", "busy"}
    /\ Refusal(n, m) = "none"
    /\ wire' = wire \cup Frames(m, t.session, t.next, Size[m])
    /\ tx' = [tx EXCEPT ![n][p] =
                 [session |-> t.session, next |-> t.next + 1, msg |-> m, seq |-> t.next,
                  retries |-> 0, ticks |-> RetryDelay(m)]]
    /\ reply' = [reply EXCEPT ![m] = "waiting"]
    /\ key' = [key EXCEPT ![m] = [session |-> t.session, seq |-> t.next]]
    /\ accepted' = accepted + 1
    /\ order' = [order EXCEPT ![m] = accepted + 1]
    /\ UNCHANGED <<generation, rx, received, pendingRecv, log, done>>

(* OP_SEND with a NIC that refuses frame k + 1: the call fails, the        *)
(* transmit half keeps its session and sequence number, and the k frames   *)
(* already handed over are on the wire.                                    *)
SendFails(m, k) ==
    LET n == Source[m]
        t == tx[n][Dest[m]]
    IN
    /\ reply[m] \in {"idle", "busy"}
    /\ Refusal(n, m) = "none"
    /\ k < Size[m]
    /\ PartialSend \/ k = 0
    /\ wire' = wire \cup Frames(m, t.session, t.next, k)
    /\ reply' = [reply EXCEPT ![m] = "unreachable"]
    /\ UNCHANGED <<generation, tx, rx, received, pendingRecv, history>>

\* Mutant of Retried: the retransmissions are not counted.
RetriedForever(t) ==
    IF t.msg = NoMsg THEN t
    ELSE IF t.ticks > 1 THEN [t EXCEPT !.ticks = @ - 1]
    ELSE [t EXCEPT !.ticks = RetryDelay(t.msg)]

(* retransmit_pending, for one peer.                                       *)
Retried(t) ==
    IF t.msg = NoMsg THEN t
    ELSE IF t.ticks > 1 THEN [t EXCEPT !.ticks = @ - 1]
    ELSE IF t.retries >= MaxRetries THEN Quiet(NextSession(t.session), 1)
    ELSE [t EXCEPT !.retries = @ + 1, !.ticks = RetryDelay(t.msg)]

(* The retry lease of a message in flight is over.                         *)
LeaseEnds(t) == t.msg # NoMsg /\ t.ticks <= 1 /\ t.retries >= MaxRetries

(* The retransmission timer of machine n.  The frames it sends again are   *)
(* on the wire already.                                                    *)
Tick(n) ==
    /\ \E p \in Nodes : tx[n][p].msg # NoMsg
    /\ tx' = [tx EXCEPT ![n] = [p \in Nodes |-> Retried(tx[n][p])]]
    /\ reply' = [m \in Msgs |->
                    IF \E p \in Nodes : tx[n][p].msg = m /\ LeaseEnds(tx[n][p])
                    THEN "unreachable" ELSE reply[m]]
    /\ UNCHANGED <<generation, rx, received, pendingRecv, wire, history>>

\* Mutant of Completes: the session of an acknowledgement is not compared.
CompletesBySequence(t, f) == t.msg # NoMsg /\ f.ack = t.seq

(* process_frame for an acknowledgement: it completes the message in       *)
(* flight when both the session and the sequence number are those of it.   *)
Completes(t, f) == f.session = t.session /\ t.msg # NoMsg /\ f.ack = t.seq

ReceiveAck(f) ==
    LET n == f.dst
        p == f.src
        t == tx[n][p]
    IN
    /\ Completes(t, f)
    /\ tx' = [tx EXCEPT ![n][p] = Quiet(t.session, t.next)]
    /\ reply' = [reply EXCEPT ![t.msg] = "ok"]
    /\ UNCHANGED <<generation, rx, received, pendingRecv, wire, history>>

-----------------------------------------------------------------------------
(* process_frame for a data frame                                          *)

(* accept_session: the receive half after the session of the frame was     *)
(* accepted.                                                               *)
Accepts(r, f) == f.session = r.session \/ Newer(f.session, r.session)

\* Mutant of Accepted: a new session does not discard the fragments of the old one.
KeepsFragments(r, f) == [r EXCEPT !.session = f.session, !.next = 1]

Accepted(r, f) == IF f.session = r.session THEN r ELSE NewRx(f.session)

(* The reassembly a fragment belongs to, and the same with the fragment.   *)
Assembly(r, f) ==
    IF r.asm.seq = f.seq THEN r.asm
    ELSE [seq |-> f.seq, total |-> f.total, parts |-> NoParts]
WithPart(a, f) ==
    [a EXCEPT !.parts = [k \in DOMAIN a.parts \cup {f.offset} |->
                            IF k = f.offset THEN f.part ELSE a.parts[k]]]

(* A fragment is of no use when its total is not the one of the fragments  *)
(* before it, or when it is new and the buffers are full.                  *)
TotalsDisagree(r, f) == Assembly(r, f).total # f.total
BuffersFull(n, r, f) ==
    /\ f.offset \notin DOMAIN Assembly(r, f).parts
    /\ Buffered(n, f.src) + Cardinality(DOMAIN r.asm.parts) + 1 > MaxReassembly

(* The reassembly after the expected fragment.                             *)
Reassembled(n, r, f) ==
    IF TotalsDisagree(r, f) THEN NoReassembly
    ELSE IF BuffersFull(n, r, f) THEN Assembly(r, f)
    ELSE WithPart(Assembly(r, f), f)

(* The bodies that a frame may complete, functions from frame numbers to   *)
(* contents: none while frames are missing, and none when the copy of a    *)
(* fragmented body cannot be reserved.                                     *)
Completed(n, r, f) ==
    IF f.total = 1 THEN {[k \in 1..1 |-> f.part]}
    ELSE LET a == Reassembled(n, r, f)
         IN IF ~TotalsDisagree(r, f) /\ ~BuffersFull(n, r, f) /\ DOMAIN a.parts = 1..a.total
            THEN {a.parts} ELSE {}

(* The reassembly after an attempt to queue a body.                        *)
Emptied(r, f) == IF f.total = 1 THEN r.asm ELSE NoReassembly

\* Mutant of HasRoom: the limit is off by one.
HasRoomAtLimit(n) == Len(received[n]) <= MaxReceived

HasRoom(n) == Len(received[n]) < MaxReceived

\* Mutant of HandOver: a client that begins to wait is not served from the queue.
HandOverLater(n, queue, waiting) ==
    /\ received' = [received EXCEPT ![n] = queue]
    /\ pendingRecv' = [pendingRecv EXCEPT ![n] = waiting]

(* deliver_received: a waiting client takes the oldest message.            *)
HandOver(n, queue, waiting) ==
    /\ received' = [received EXCEPT ![n] = IF waiting /\ queue # <<>> THEN Tail(queue) ELSE queue]
    /\ pendingRecv' = [pendingRecv EXCEPT ![n] = waiting /\ queue = <<>>]

(* The frame is not the expected one.                                      *)
ReceiveOther(f) ==
    LET n == f.dst
        p == f.src
        r == Accepted(rx[n][p], f)
    IN
    /\ Accepts(rx[n][p], f)
    /\ f.seq # r.next
    /\ rx' = [rx EXCEPT ![n][p] = r]
    /\ wire' = wire \cup {AckFrame(n, p, f.session, r.next - 1)}
    /\ UNCHANGED <<generation, tx, received, pendingRecv, reply, history>>

(* The expected frame is buffered, or of no use, or the body it completes  *)
(* cannot be reserved.                                                     *)
ReceiveFragment(f) ==
    LET n == f.dst
        p == f.src
        r == Accepted(rx[n][p], f)
    IN
    /\ Accepts(rx[n][p], f)
    /\ f.seq = r.next
    /\ f.total > 1
    /\ rx' = [rx EXCEPT ![n][p] = [r EXCEPT !.asm = Reassembled(n, r, f)]]
    /\ UNCHANGED <<generation, tx, received, pendingRecv, wire, reply, history>>

(* The expected frame completes a body.  Without room for it (room also    *)
(* stands for the byte limit of the queue and for the allocation of the    *)
(* memory object) the reassembly is dropped and the frame not              *)
(* acknowledged.                                                           *)
ReceiveLast(f, room) ==
    LET n == f.dst
        p == f.src
        r == Accepted(rx[n][p], f)
    IN
    /\ Accepts(rx[n][p], f)
    /\ f.seq = r.next
    /\ \E body \in Completed(n, r, f) :
          IF room /\ HasRoom(n)
          THEN /\ rx' = [rx EXCEPT ![n][p] = [r EXCEPT !.asm = Emptied(r, f), !.next = @ + 1]]
               /\ HandOver(n, Append(received[n], body), pendingRecv[n])
               /\ wire' = wire \cup {AckFrame(n, p, f.session, r.next)}
               /\ log' = [log EXCEPT ![n] = Append(@, body)]
               /\ done' = done \cup {m \in Msgs : body = Whole(m)}
          ELSE /\ rx' = [rx EXCEPT ![n][p] = [r EXCEPT !.asm = Emptied(r, f)]]
               /\ UNCHANGED <<received, pendingRecv, wire, log, done>>
    /\ UNCHANGED <<generation, tx, reply, key, accepted, order>>

ReceiveData(f) ==
    \/ ReceiveOther(f)
    \/ ReceiveFragment(f)
    \/ \E room \in BOOLEAN : ReceiveLast(f, room)

-----------------------------------------------------------------------------

(* OP_RECV                                                                 *)
Recv(n) ==
    /\ n \in Receivers
    /\ ~pendingRecv[n]
    /\ HandOver(n, received[n], TRUE)
    /\ UNCHANGED <<generation, tx, rx, wire, reply, history>>

(* The service ends, orderly or not, and its replacement registers under   *)
(* the next generation of its name.  The calls it retained fail, and the   *)
(* messages no client has taken are gone.                                  *)
Restart(n) ==
    /\ generation[n] < MaxGeneration[n]
    /\ generation' = [generation EXCEPT ![n] = @ + 1]
    /\ tx' = [tx EXCEPT ![n] = [p \in Nodes |-> NewTx(generation[n] + 1)]]
    /\ rx' = [rx EXCEPT ![n] = [p \in Nodes |-> NewRx(Exhausted)]]
    /\ received' = [received EXCEPT ![n] = <<>>]
    /\ pendingRecv' = [pendingRecv EXCEPT ![n] = FALSE]
    /\ reply' = [m \in Msgs |-> IF reply[m] = "waiting" /\ Source[m] = n
                                THEN "unreachable" ELSE reply[m]]
    /\ log' = [log EXCEPT ![n] = <<>>]
    /\ UNCHANGED <<wire, key, accepted, order, done>>

Next ==
    \/ \E m \in Msgs : SendRefused(m) \/ Send(m) \/ \E k \in 0..Size[m] : SendFails(m, k)
    \/ \E f \in wire \cap AckFrames : ReceiveAck(f)
    \/ \E f \in wire \cap DataFrames : ReceiveData(f)
    \/ \E n \in Nodes : Tick(n) \/ Recv(n) \/ Restart(n)

Spec == Init /\ [][Next]_vars

(* The retransmission timer is armed again on every turn of the service's  *)
(* loop; nothing is assumed of the network, of clients or of the NIC.      *)
FairSpec == Spec /\ \A n \in Nodes : WF_vars(Tick(n))

-----------------------------------------------------------------------------
(* Properties                                                              *)

Replies == {"idle", "busy", "waiting", "ok", "unreachable", "unknown"}

TxRecord == [session : Session, next : Nat \ {0}, msg : Msgs \cup {NoMsg},
             seq : Nat, retries : Nat, ticks : Nat]

(* Types of the state of the messaging service; the queue of a service is  *)
(* never longer than MAX_RECEIVED_MESSAGES.                                *)
TypeOK ==
    /\ generation \in [Nodes -> Nat \ {0}]
    /\ tx \in [Nodes -> [Nodes -> TxRecord]]
    /\ \A n, p \in Nodes :
          /\ rx[n][p].session \in Session
          /\ rx[n][p].next \in Nat \ {0}
          /\ rx[n][p].asm.seq \in Nat
    /\ \A n \in Nodes : Len(received[n]) <= MaxReceived
    /\ pendingRecv \in [Nodes -> BOOLEAN]
    /\ wire \subseteq DataFrames \cup AckFrames
    /\ reply \in [Msgs -> Replies]
    /\ done \subseteq Msgs

(* Everything the service queued for its clients is one message as it was  *)
(* sent, addressed to this machine: fragments of two messages never end up *)
(* in one body.                                                            *)
Untorn ==
    \A n \in Nodes : \A i \in 1..Len(log[n]) :
        \E m \in Msgs : Dest[m] = n /\ log[n][i] = Whole(m)

(* A client that waits in OP_RECV is never left waiting while a message is *)
(* queued.                                                                 *)
NoIdleReceiver == \A n \in Nodes : pendingRecv[n] => received[n] = <<>>

(* A call that sends a message is answered: the retry lease ends whatever  *)
(* the network does.                                                       *)
CallsAnswered == \A m \in Msgs : reply[m] = "waiting" ~> reply[m] # "waiting"

(* The service implements the channel of MessageChannel.tla: deliveries    *)
(* at most once and in order in the life of a receiver, and success only   *)
(* after a delivery, through lost and late acknowledgements, abandoned     *)
(* sessions and restarts of both sides.                                    *)
AbstractStatus(m) ==
    IF reply[m] \in {"idle", "busy"} THEN "idle"
    ELSE IF reply[m] \in {"unreachable", "unknown"} THEN "failed"
    ELSE reply[m]

(* The messages of a sequence of bodies, each known by its first part.     *)
Contents(s) == [i \in 1..Len(s) |-> s[i][1]]

Channel == INSTANCE MessageChannel WITH
    status <- [m \in Msgs |-> AbstractStatus(m)],
    log <- [n \in Nodes |-> Contents(log[n])]

ImplementsChannel == Channel!Spec

=============================================================================
