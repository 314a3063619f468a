----------------------------- MODULE Onboarding -----------------------------
(***************************************************************************)
(* What the onboarding of members promises, whatever the requests, retries *)
(* and failures it is made of: a person is served by a system only when    *)
(* the systems before it are on record, what is on record has happened and *)
(* stays on record, and a person is welcomed as new once, at the end.      *)
(***************************************************************************)
EXTENDS Naturals

CONSTANTS
    Person,
    System,
    Before,      \* system -> the systems that must be on record first
    Exclusive    \* systems that serve nobody twice

VARIABLES
    known,       \* who is on record
    record,      \* person -> the systems on record
    served,      \* system -> person -> how often
    welcomed     \* person -> how often

vars == << known, record, served, welcomed >>

Init ==
    /\ known = {}
    /\ record = [p \in Person |-> {}]
    /\ served = [s \in System |-> [p \in Person |-> 0]]
    /\ welcomed = [p \in Person |-> 0]

Enrol(p) ==
    /\ p \notin known
    /\ known' = known \cup {p}
    /\ UNCHANGED << record, served, welcomed >>

Serve(s, p) ==
    /\ p \in known /\ Before[s] \subseteq record[p]
    /\ s \in Exclusive => served[s][p] = 0
    /\ served' = [served EXCEPT ![s] = [served[s] EXCEPT ![p] = served[s][p] + 1]]
    /\ UNCHANGED << known, record, welcomed >>

Note(s, p) ==
    /\ served[s][p] > 0
    /\ record' = [record EXCEPT ![p] = record[p] \cup {s}]
    /\ UNCHANGED << known, served, welcomed >>

Welcome(p) ==
    /\ record[p] = System /\ welcomed[p] = 0
    /\ welcomed' = [welcomed EXCEPT ![p] = 1]
    /\ UNCHANGED << known, record, served >>

Next ==
    \E p \in Person :
        \/ Enrol(p) \/ Welcome(p)
        \/ \E s \in System : Serve(s, p) \/ Note(s, p)

Spec == Init /\ [][Next]_vars
=============================================================================
