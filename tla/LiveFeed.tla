------------------------------ MODULE LiveFeed ------------------------------
(***************************************************************************)
(* What the live event stream of augurScan promises a page: the published  *)
(* events are a log in the order of their ids, and whoever reads it gets   *)
(* each event after the last it got, in that order and once, unless it is  *)
(* told where it starts again: a page that comes without a cursor, or with *)
(* one older than what is kept, reloads its views.                         *)
(***************************************************************************)
EXTENDS Naturals

CONSTANTS
    Page,
    Id                     \* positive numbers

VARIABLES
    published,             \* ids of the events ever published
    through,               \* [page]: the last event it got or started again from
    restarted              \* [page]: the event it last started again from

feedVars == <<published, through, restarted>>

Init ==
    /\ published = {}
    /\ through = [c \in Page |-> 0]
    /\ restarted = [c \in Page |-> 0]

Publish ==
    /\ \E n \in Id : /\ \A i \in published : n > i
                     /\ published' = published \cup {n}
    /\ UNCHANGED <<through, restarted>>

\* The next event, and no event between it and the last one.
Deliver(c) ==
    /\ \E n \in published :
         /\ n > through[c]
         /\ \A i \in published : i > through[c] => n <= i
         /\ through' = [through EXCEPT ![c] = n]
    /\ UNCHANGED <<published, restarted>>

\* Several pages may have waited for the same answer.
StartAgain(pages) ==
    /\ \E n \in published \cup {0} :
         /\ through' = [c \in Page |-> IF c \in pages THEN n ELSE through[c]]
         /\ restarted' = [c \in Page |-> IF c \in pages THEN n ELSE restarted[c]]
    /\ UNCHANGED published

Next ==
    \/ Publish
    \/ \E c \in Page : Deliver(c)
    \/ \E pages \in SUBSET Page : StartAgain(pages)

Spec == Init /\ [][Next]_feedVars
=============================================================================
