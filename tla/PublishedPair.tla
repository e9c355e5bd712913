---------------------------- MODULE PublishedPair ----------------------------
(***************************************************************************)
(* What publication promises its readers: the graph and its metadata are   *)
(* one register, replaced at once.  A reader that goes on has used nothing *)
(* but one value the register held while it read, and a router finds that  *)
(* value in place once more before it writes routes.  A reader may always  *)
(* refuse instead.                                                         *)
(***************************************************************************)
CONSTANTS Reader,   \* processes that read the pair
          PairId    \* identities of pairs, with one that stands for none

VARIABLES published,  \* identity of the pair in place
          state,      \* of a reader
          seen,       \* the identity a reader has sampled
          used        \* identities of everything it has accepted

vars == <<published, state, seen, used>>

Init ==
    /\ published \in PairId
    /\ state = [r \in Reader |-> "new"]
    /\ seen \in [Reader -> PairId]
    /\ used = [r \in Reader |-> {}]

Publish == published' \in PairId /\ UNCHANGED <<state, seen, used>>

Sample(r) ==
    /\ state[r] = "new"
    /\ state' = [state EXCEPT ![r] = "reading"]
    /\ seen' = [seen EXCEPT ![r] = published]
    /\ UNCHANGED <<published, used>>

Accept(r) ==
    /\ state[r] = "reading"
    /\ state' = [state EXCEPT ![r] = "accepted"]
    /\ used' = [used EXCEPT ![r] = {seen[r]}]
    /\ UNCHANGED <<published, seen>>

Confirm(r) ==
    /\ state[r] = "accepted" /\ published = seen[r]
    /\ state' = [state EXCEPT ![r] = "confirmed"]
    /\ UNCHANGED <<published, seen, used>>

Write(r) ==
    /\ state[r] = "confirmed"
    /\ state' = [state EXCEPT ![r] = "wrote"]
    /\ UNCHANGED <<published, seen, used>>

Refuse(r) ==
    /\ state[r] \notin {"wrote", "failed"}
    /\ state' = [state EXCEPT ![r] = "failed"]
    /\ used' = [used EXCEPT ![r] = {}]
    /\ UNCHANGED <<published, seen>>

Next == \/ Publish
        \/ \E r \in Reader : Sample(r) \/ Accept(r) \/ Confirm(r) \/ Write(r) \/ Refuse(r)

PairSpec == Init /\ [][Next]_vars
=============================================================================
