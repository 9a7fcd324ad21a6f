------------------------------- MODULE People -------------------------------
(***************************************************************************)
(* What reconciliation promises: every source id a tour has ever shown     *)
(* belongs to one person for good, and all that ever happens to people is  *)
(* that two of them turn out to be one.  Identity is shown to implement    *)
(* this module.                                                            *)
(***************************************************************************)
CONSTANT Ids   \* <<tour, source id>>

VARIABLE people  \* each person is the set of its ids

Seen == UNION people

Init == people = {}

\* Ids are seen for the first time, each a person of its own.
Appear ==
    /\ people \subseteq people'
    /\ \A p \in people' \ people : \E i \in Ids \ Seen : p = {i}

\* Two people turn out to be one.
Unite ==
    \E p, q \in people :
        p # q /\ people' = (people \ {p, q}) \cup {p \cup q}

Next == Appear \/ Unite

Spec == Init /\ [][Next]_people
=============================================================================
