---------------------------- MODULE DurableObjects ----------------------------
(***************************************************************************)
(* What the object store promises its clients, whatever its disk format:   *)
(* one request at a time replaces one object; what was answered with       *)
(* success survives every crash; a request that was not is in doubt        *)
(* between the old and the new contents; and no request touches another    *)
(* object.                                                                 *)
(***************************************************************************)
CONSTANTS Ids,       \* the names of objects
          Contents   \* what an object may hold; one of them stands for its absence

VARIABLES current,   \* what a read of each object returns
          doubt,     \* what each object may hold after a crash
          request,   \* the request in progress, as a set of at most one
          answer     \* the last answer, "none" since a request began or the store crashed

vars == <<current, doubt, request, answer>>

Request == [id : Ids, to : Contents]

Init ==
  /\ \E c \in Contents : current = [i \in Ids |-> c]
  /\ doubt = [i \in Ids |-> {current[i]}]
  /\ request = {} /\ answer = "none"

Begin(r) ==
  /\ request = {} /\ request' = {r}
  /\ answer' = "none"
  /\ UNCHANGED <<current, doubt>>

\* The new contents are where reads find them, and may be lost again.
Apply(r) ==
  /\ current' = [current EXCEPT ![r.id] = r.to]
  /\ doubt' = [doubt EXCEPT ![r.id] = @ \cup {r.to}]
  /\ UNCHANGED <<request, answer>>

NoDoubt == doubt' = [i \in Ids |-> {current[i]}]

\* What is current has become durable.
Settle == NoDoubt /\ UNCHANGED <<current, request, answer>>

\* Success is reported only for what is current and no crash can undo.
Succeed(r) ==
  /\ current[r.id] = r.to
  /\ NoDoubt
  /\ request' = {} /\ answer' = "ok"
  /\ UNCHANGED current

\* A failed request leaves its object as it is, possibly in doubt.
Fail ==
  /\ request # {} /\ request' = {}
  /\ answer' = "failed"
  /\ UNCHANGED <<current, doubt>>

\* A request to make everything durable.
Sync ==
  /\ request = {}
  /\ NoDoubt
  /\ answer' = "ok"
  /\ UNCHANGED <<current, request>>

\* A request that is refused at once, or a sync that fails.
Refuse ==
  /\ request = {}
  /\ answer' = "failed"
  /\ UNCHANGED <<current, doubt, request>>

Crash ==
  /\ current' \in {f \in [Ids -> Contents] : \A i \in Ids : f[i] \in doubt[i]}
  /\ doubt' = [i \in Ids |-> {current'[i]}]
  /\ request' = {} /\ answer' = "none"

Next ==
  \/ \E r \in Request : Begin(r)
  \/ \E r \in request : Apply(r) \/ Succeed(r)
  \/ Settle
  \/ Fail
  \/ Sync
  \/ Refuse
  \/ Crash

Spec == Init /\ [][Next]_vars
=============================================================================
