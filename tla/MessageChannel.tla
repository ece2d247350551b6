--------------------------- MODULE MessageChannel ---------------------------
(***************************************************************************)
(* What the reliable messaging service promises its clients: an abstract   *)
(* specification with no frames, sessions, sequence numbers or retries.    *)
(* A client hands over a message and waits; the message may be delivered   *)
(* at its destination at most once in the life of the receiving service,   *)
(* after every earlier message of the same sender that this service has    *)
(* seen; a call succeeds only when its message was delivered; a failed     *)
(* call says nothing, its message may still arrive, but never behind a     *)
(* later one.  RelMsg.tla implements this specification.                   *)
(***************************************************************************)
EXTENDS Naturals, Sequences

CONSTANTS Nodes,   \* the machines
          Msgs,    \* the messages clients ever send
          Source,  \* the machine each message is sent from
          Dest     \* and the one it is sent to

VARIABLES status,    \* "idle", "waiting", "ok" or "failed", for every message
          accepted,  \* the number of accepted messages
          order,     \* stamp of every accepted message; 0: not accepted
          log,       \* per receiver: what it delivered since it started
          done       \* the messages that were ever delivered

channelVars == <<status, accepted, order, log, done>>

-----------------------------------------------------------------------------

Init ==
    /\ status = [m \in Msgs |-> "idle"]
    /\ accepted = 0
    /\ order = [m \in Msgs |-> 0]
    /\ log = [n \in Nodes |-> <<>>]
    /\ done = {}

(* A message is accepted behind all messages accepted so far.              *)
Call(m) ==
    /\ status[m] = "idle"
    /\ accepted' = accepted + 1
    /\ order' = [order EXCEPT ![m] = accepted + 1]
    /\ status' = [status EXCEPT ![m] = "waiting"]
    /\ UNCHANGED <<log, done>>

(* A call that was not accepted, or whose fate is unknown, fails.          *)
Fail(S) ==
    /\ \A m \in S : status[m] \in {"idle", "waiting"}
    /\ status' = [m \in Msgs |-> IF m \in S THEN "failed" ELSE status[m]]
    /\ UNCHANGED <<accepted, order, log, done>>

(* The receiver delivers an accepted message that is newer than every      *)
(* message of the same sender in its log.                                  *)
Deliver(m) ==
    LET n == Dest[m] IN
    /\ order[m] > 0
    /\ \A i \in 1..Len(log[n]) :
          Source[log[n][i]] = Source[m] => order[log[n][i]] < order[m]
    /\ log' = [log EXCEPT ![n] = Append(@, m)]
    /\ done' = done \cup {m}
    /\ UNCHANGED <<status, accepted, order>>

Succeed(m) ==
    /\ status[m] = "waiting"
    /\ m \in done
    /\ status' = [status EXCEPT ![m] = "ok"]
    /\ UNCHANGED <<accepted, order, log, done>>

(* The service of machine n is replaced: it forgets what it delivered, and *)
(* the calls of its clients fail.                                          *)
Restart(n) ==
    /\ log' = [log EXCEPT ![n] = <<>>]
    /\ status' = [m \in Msgs |-> IF status[m] = "waiting" /\ Source[m] = n
                                 THEN "failed" ELSE status[m]]
    /\ UNCHANGED <<accepted, order, done>>

Next ==
    \/ \E m \in Msgs : Call(m) \/ Deliver(m) \/ Succeed(m)
    \/ \E S \in SUBSET Msgs : Fail(S)
    \/ \E n \in Nodes : Restart(n)

Spec == Init /\ [][Next]_channelVars

=============================================================================
