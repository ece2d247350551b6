---------------------------- MODULE Invalidation ----------------------------
(***************************************************************************)
(* What a caller of the translation-invalidation service relies on, and    *)
(* nothing of how it is done.  A caller detaches a mapping, asks for the   *)
(* invalidation, and may reuse the backing frames only after an answer     *)
(* `Ok(())': at that moment no processor can still reach the frames        *)
(* through a cached translation.  An error says nothing; the caller keeps  *)
(* the backing and may ask again.                                          *)
(***************************************************************************)
CONSTANT Callers        \* the owners of detached mappings

VARIABLES reachable,    \* callers whose detached mapping may still be cached
          answer        \* what each caller was told

Init == /\ reachable = {}
        /\ answer = [t \in Callers |-> "none"]

(* The leaves of t's mapping are removed; every processor may cache them. *)
Detach(t) ==
  /\ answer[t] = "none"
  /\ reachable' = reachable \cup {t}
  /\ answer' = [answer EXCEPT ![t] = "asked"]

(* Cached translations disappear, at any time and for any reason. *)
Forget ==
  /\ reachable' \in SUBSET reachable
  /\ UNCHANGED answer

(* Ok(()): only once nothing caches the mapping. *)
Confirm(t) ==
  /\ answer[t] = "asked"
  /\ t \notin reachable
  /\ answer' = [answer EXCEPT ![t] = "ok"]
  /\ UNCHANGED reachable

Refuse(t) ==
  /\ answer[t] = "asked"
  /\ answer' = [answer EXCEPT ![t] = "err"]
  /\ UNCHANGED reachable

AskAgain(t) ==
  /\ answer[t] = "err"
  /\ answer' = [answer EXCEPT ![t] = "asked"]
  /\ UNCHANGED reachable

(* The frames go back to the allocator. *)
Reuse(t) ==
  /\ answer[t] = "ok"
  /\ answer' = [answer EXCEPT ![t] = "none"]
  /\ UNCHANGED reachable

Next == \/ Forget
        \/ \E t \in Callers : Detach(t) \/ Confirm(t) \/ Refuse(t) \/ AskAgain(t) \/ Reuse(t)

Spec == Init /\ [][Next]_<<reachable, answer>>
=============================================================================
