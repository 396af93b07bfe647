---------------------------- MODULE BookReplica ----------------------------
(***************************************************************************)
(* What a market-data adapter promises of the order book it keeps: nothing *)
(* is shown until a book of the exchange is installed, and from there the  *)
(* copy goes through every later book of the exchange, one by one, never   *)
(* past the newest and never through one the exchange did not have.        *)
(* A feed that reports several updates at once skips books in between.     *)
(***************************************************************************)
EXTENDS Integers

VARIABLES books,   \* the books of the exchange, by the number of updates
          at,      \* the book the copy is at; -1 before the first
          shown    \* the copy

vars == <<books, at, shown>>

NoBook == << >>

Init == DOMAIN books = {0} /\ at = -1 /\ shown = NoBook

Extend ==
    /\ \E last \in DOMAIN books :
          /\ DOMAIN books' = DOMAIN books \cup {last + 1}
          /\ last + 1 \notin DOMAIN books
          /\ \A n \in DOMAIN books : books'[n] = books[n]
    /\ UNCHANGED <<at, shown>>

Install ==
    /\ at = -1
    /\ at' \in DOMAIN books
    /\ shown' = books[at']
    /\ UNCHANGED books

Advance ==
    /\ at >= 0
    /\ at + 1 \in DOMAIN books
    /\ at' = at + 1
    /\ shown' = books[at + 1]
    /\ UNCHANGED books

Skip ==
    /\ at >= 0
    /\ at' \in DOMAIN books /\ at' > at
    /\ shown' = books[at']
    /\ UNCHANGED books

Next == Extend \/ Install \/ Advance

Spec == Init /\ [][Next]_vars

SkippingSpec == Init /\ [][Extend \/ Install \/ Skip]_vars
=============================================================================
