----------------------------- MODULE MCRaftNode -----------------------------
(***************************************************************************)
(* Instances of RaftNode for TLC: which servers may stand in which terms.  *)
(* TLC tells states apart by their Visible part: no guard and no property  *)
(* of the runs reads the voters and the log that an election remembers.    *)
(***************************************************************************)
EXTENDS RaftNode

CONSTANTS s1, s2, s3, s4   \* the servers; s4 starts outside the cluster

\* One leader after another.
Succession == {<<s1, 1>>, <<s2, 2>>}

\* One leader, then two candidates in the next term.
Contested == {<<s1, 1>>, <<s2, 2>>, <<s3, 2>>}

\* Two single-server clusters, one of which joins the other and may lead it.
Alone == {<<s1, 1>>, <<s1, 2>>, <<s1, 3>>, <<s4, 1>>, <<s4, 2>>}

Visible ==
  <<node, msgs, votes, committed, reads,
    {[term |-> e.term, leader |-> e.leader, moves |-> e.moves, conf |-> e.conf] :
       e \in elections}>>
=============================================================================
