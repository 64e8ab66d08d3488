------------------------------- MODULE Custody ------------------------------
(***************************************************************************)
(* What the inventory promises about each physical unit, without           *)
(* movements, kardex or counters: where the unit is, and which moves       *)
(* between places exist.  A loan is a book that is opened once, holds at    *)
(* least one unit while it is open and none once it is closed.             *)
(***************************************************************************)
CONSTANTS Unit, Loan

VARIABLES place,    \* a place of Premises, or the loan that holds the unit
          book      \* "blank", "open" or "closed"

custody == <<place, book>>

Premises == {"ABSENT", "AVAILABLE", "DAMAGED", "IN_MAINTENANCE", "RETIRED"}

\* The moves between premises; nothing leaves RETIRED or returns to ABSENT.
Leg == {<<"ABSENT", "AVAILABLE">>,
        <<"AVAILABLE", "IN_MAINTENANCE">>, <<"AVAILABLE", "RETIRED">>,
        <<"DAMAGED", "IN_MAINTENANCE">>, <<"DAMAGED", "RETIRED">>,
        <<"IN_MAINTENANCE", "AVAILABLE">>, <<"IN_MAINTENANCE", "DAMAGED">>,
        <<"IN_MAINTENANCE", "RETIRED">>}

Init ==
  /\ place = [u \in Unit |-> "ABSENT"]
  /\ book = [l \in Loan |-> "blank"]

\* Units move between premises; no loan is involved.
Move ==
  /\ place' \in [Unit -> Premises \cup Loan]
  /\ \A u \in Unit : place'[u] = place[u] \/ <<place[u], place'[u]>> \in Leg
  /\ UNCHANGED book

\* A blank book is opened with units from the shelf.
Open(l) ==
  /\ book[l] = "blank"
  /\ \E units \in SUBSET Unit :
       /\ units # {}
       /\ \A u \in units : place[u] = "AVAILABLE"
       /\ place' = [u \in Unit |-> IF u \in units THEN l ELSE place[u]]
  /\ book' = [book EXCEPT ![l] = "open"]

\* An open book swaps units with the shelf and never ends up empty.
Exchange(l) ==
  /\ book[l] = "open"
  /\ place' \in [Unit -> Premises \cup Loan]
  /\ \A u \in Unit :
       \/ place'[u] = place[u]
       \/ place[u] = l /\ place'[u] = "AVAILABLE"
       \/ place[u] = "AVAILABLE" /\ place'[u] = l
  /\ \E u \in Unit : place'[u] = l
  /\ UNCHANGED book

\* Units of an open book come back, and the book closes with the last of them.
GiveBack(l) ==
  /\ book[l] = "open"
  /\ place' \in [Unit -> Premises \cup Loan]
  /\ place' # place
  /\ \A u \in Unit :
       \/ place'[u] = place[u]
       \/ place[u] = l /\ place'[u] \in {"AVAILABLE", "DAMAGED", "RETIRED"}
  /\ book' = [book EXCEPT ![l] =
                IF \E u \in Unit : place'[u] = l THEN "open" ELSE "closed"]

Next == Move \/ \E l \in Loan : Open(l) \/ Exchange(l) \/ GiveBack(l)

Spec == Init /\ [][Next]_custody
=============================================================================
