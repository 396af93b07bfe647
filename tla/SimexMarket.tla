---------------------------- MODULE SimexMarket ----------------------------
(***************************************************************************)
(* The market-data half of the simex adapter: the order book of the venue  *)
(* is rebuilt from one snapshot and numbered increments, each a datagram   *)
(* that may be lost, late, repeated or overtaken.  The market thread polls *)
(* the socket and looks at its two timers after every batch.               *)
(*                                                                         *)
(* An order in a book is represented by the number of the update that last *)
(* wrote it: two books are the same only if every order is of the same     *)
(* update.  A buffered increment is represented by its sequence number.    *)
(***************************************************************************)
EXTENDS Integers, Sequences, FiniteSets

CONSTANTS Ids,           \* the market order ids of the venue
          Capacity,      \* buffer_capacity
          FeedTimeout,   \* feed_timeout_ms, in ticks of the model
          MaxUpdates     \* bound of the model: updates of the venue

ASSUME MarketAssumption ==
    /\ Capacity \in Nat
    /\ FeedTimeout \in Nat
    /\ MaxUpdates \in Nat

VARIABLES updates,       \* the updates of the venue, in order
          books,         \* the book of the venue after so many updates
          phase,         \* where the adapter is: see Phases
          pending,       \* the increments buffered before synchronisation
          book,          \* the book of the adapter
          sequence,      \* market_sequence
          snapshot,      \* snapshot_sequence
          advertised,    \* advertised_sequence
          ahead,         \* ticks since ahead_since; Unset
          quiet,         \* ticks since last_packet
          waiting,       \* ticks since a watermark first covered an increment
          fatal          \* what ended the process

venueVars == <<updates, books>>
clockVars == <<ahead, quiet, waiting>>
vars == <<venueVars, phase, pending, book, sequence, snapshot, advertised, clockVars, fatal>>

Phases == {"waiting", "joining", "synchronized"}
Failures == {"none", "inconsistent", "duplicate", "overflow", "gap", "book full",
             "missing", "silent"}
Kinds == {"ADD", "MODIFY", "CANCEL", "TRADE"}
Unset == -1
NoBook == << >>
Numbers == 1 .. MaxUpdates

Init ==
    /\ updates = << >>
    /\ books = [n \in {0} |-> NoBook]
    /\ phase = "waiting"
    /\ pending = {}
    /\ book = NoBook
    /\ sequence = 0
    /\ snapshot = 0
    /\ advertised = 0
    /\ ahead = Unset
    /\ quiet = 0
    /\ waiting = [n \in Numbers |-> Unset]
    /\ fatal = "none"

Alive == fatal = "none"
Die(reason) == fatal' = reason
-----------------------------------------------------------------------------
(***************************************************************************)
(* Books and updates.                                                      *)
(***************************************************************************)

\* The checks of apply() on an increment.
Accepts(old, update) ==
    CASE update.kind = "ADD" -> update.id \notin DOMAIN old
      [] update.kind \in {"MODIFY", "CANCEL"} -> update.id \in DOMAIN old
      [] update.kind = "TRADE" -> TRUE

\* The book after update number n.
After(old, update, n) ==
    CASE update.kind \in {"ADD", "MODIFY"} ->
            [id \in DOMAIN old \cup {update.id} |-> IF id = update.id THEN n ELSE old[id]]
      [] update.kind = "CANCEL" -> [id \in DOMAIN old \ {update.id} |-> old[id]]
      [] update.kind = "TRADE" -> old

\* The venue: an update that makes sense for its book.
VenueUpdates(update) ==
    LET n == Len(updates) + 1
    IN  /\ n <= MaxUpdates
        /\ Accepts(books[n - 1], update)
        /\ updates' = Append(updates, update)
        /\ books' = [k \in 0 .. n |-> IF k = n THEN After(books[n - 1], update, n)
                                      ELSE books[k]]
        /\ UNCHANGED <<phase, pending, book, sequence, snapshot, advertised, clockVars, fatal>>

\* apply() of the increment that follows the book, with its checks.
Apply(n) ==
    LET new == After(book, updates[n], n)
    IN  IF ~ Accepts(book, updates[n])
        THEN Die("inconsistent") /\ UNCHANGED <<book, sequence>>
        ELSE IF Cardinality(DOMAIN new) > Capacity
        THEN Die("book full") /\ UNCHANGED <<book, sequence>>
        ELSE book' = new /\ sequence' = n /\ UNCHANGED fatal
-----------------------------------------------------------------------------
(***************************************************************************)
(* Datagrams.  Any increment and any snapshot of the venue may arrive, at  *)
(* any time and any number of times; one that is lost never does.          *)
(***************************************************************************)

\* An increment before synchronisation is kept for later.
BufferIncrement(n) ==
    /\ Alive /\ phase = "waiting"
    /\ quiet' = 0
    /\ IF Cardinality(pending) >= Capacity THEN Die("overflow") /\ UNCHANGED pending
       ELSE IF n \in pending THEN Die("duplicate") /\ UNCHANGED pending
       ELSE pending' = pending \cup {n} /\ UNCHANGED fatal
    /\ UNCHANGED <<venueVars, phase, book, sequence, snapshot, advertised, ahead, waiting>>

\* Wrong on purpose: an increment that skips some is applied all the same.
ReceiveIncrement_SkipsGap(n) ==
    /\ Alive /\ phase = "synchronized"
    /\ quiet' = 0
    /\ IF n <= sequence THEN UNCHANGED <<book, sequence, fatal, waiting>>
       ELSE Apply(n) /\ waiting' = [waiting EXCEPT ![n] = Unset]
    /\ UNCHANGED <<venueVars, phase, pending, snapshot, advertised, ahead>>

\* An increment after synchronisation: older than the snapshot it is ignored,
\* otherwise it must be the next.
ReceiveIncrement(n) ==
    /\ Alive /\ phase = "synchronized"
    /\ quiet' = 0
    /\ IF n <= snapshot THEN UNCHANGED <<book, sequence, fatal, waiting>>
       ELSE IF n # sequence + 1
       THEN Die("gap") /\ UNCHANGED <<book, sequence, waiting>>
       ELSE Apply(n) /\ waiting' = [waiting EXCEPT ![n] = Unset]
    /\ UNCHANGED <<venueVars, phase, pending, snapshot, advertised, ahead>>

\* The first snapshot is installed; the buffered increments follow.
InstallSnapshot(n) ==
    /\ Alive /\ phase = "waiting"
    /\ quiet' = 0
    /\ IF Cardinality(DOMAIN books[n]) > Capacity
       THEN Die("book full") /\ UNCHANGED <<phase, book, sequence, snapshot>>
       ELSE /\ book' = books[n]
            /\ sequence' = n
            /\ snapshot' = n
            /\ phase' = "joining"
            /\ UNCHANGED fatal
    /\ UNCHANGED <<venueVars, pending, advertised, ahead, waiting>>

\* Wrong on purpose: buffered increments of the snapshot are applied to it again.
Join_AppliesOld ==
    /\ Alive /\ phase = "joining"
    /\ \E n \in pending :
          /\ \A m \in pending : n <= m
          /\ pending' = pending \ {n}
          /\ Apply(n)
    /\ UNCHANGED <<venueVars, phase, snapshot, advertised, clockVars>>

\* One turn of the loop over the buffered increments, in ascending order.
Join ==
    /\ Alive /\ phase = "joining"
    /\ \E n \in pending :
          /\ \A m \in pending : n <= m
          /\ pending' = pending \ {n}
          /\ IF n <= sequence THEN UNCHANGED <<book, sequence, fatal>>
             ELSE IF n # sequence + 1 THEN Die("gap") /\ UNCHANGED <<book, sequence>>
             ELSE Apply(n)
    /\ UNCHANGED <<venueVars, phase, snapshot, advertised, clockVars>>

\* After the last of them the book is published for the first time.
Joined ==
    /\ Alive /\ phase = "joining"
    /\ pending = {}
    /\ phase' = "synchronized"
    /\ UNCHANGED <<venueVars, pending, book, sequence, snapshot, advertised, clockVars, fatal>>

\* The increments a watermark covers and the adapter does not have yet wait
\* from now on, unless they did before.
Awaited(n) ==
    [k \in Numbers |-> IF k \in sequence + 1 .. n /\ waiting[k] = Unset THEN 0 ELSE waiting[k]]

\* Wrong on purpose: every snapshot that is ahead starts the timer again.
ReceiveWatermark_RestartsTimer(n) ==
    /\ Alive /\ phase = "synchronized"
    /\ quiet' = 0
    /\ advertised' = IF n > advertised THEN n ELSE advertised
    /\ ahead' = IF advertised' > sequence THEN 0 ELSE ahead
    /\ waiting' = Awaited(n)
    /\ UNCHANGED <<venueVars, phase, pending, book, sequence, snapshot, fatal>>

\* Wrong on purpose: a later snapshot that is ahead replaces the book.
ReceiveWatermark_Installs(n) ==
    /\ Alive /\ phase = "synchronized"
    /\ quiet' = 0
    /\ sequence' = IF n > sequence THEN n ELSE sequence
    /\ book' = books[sequence']
    /\ UNCHANGED <<venueVars, phase, pending, snapshot, advertised, ahead, waiting, fatal>>

\* A later snapshot only tells how far the venue is; its size is checked too.
ReceiveWatermark(n) ==
    /\ Alive /\ phase = "synchronized"
    /\ quiet' = 0
    /\ IF Cardinality(DOMAIN books[n]) > Capacity
       THEN Die("book full") /\ UNCHANGED <<advertised, ahead, waiting>>
       ELSE /\ advertised' = IF n > advertised THEN n ELSE advertised
            /\ ahead' = IF advertised' > sequence /\ ahead = Unset THEN 0 ELSE ahead
            /\ waiting' = Awaited(n)
            /\ UNCHANGED fatal
    /\ UNCHANGED <<venueVars, phase, pending, book, sequence, snapshot>>
-----------------------------------------------------------------------------
(***************************************************************************)
(* Time.                                                                   *)
(***************************************************************************)

\* A timer that runs, up to the first value that is past the timeout.
Aged(timer) == IF timer \in 0 .. FeedTimeout THEN timer + 1 ELSE timer

Tick ==
    /\ Alive
    /\ ahead' = Aged(ahead)
    /\ quiet' = Aged(quiet)
    /\ waiting' = [n \in Numbers |-> Aged(waiting[n])]
    /\ UNCHANGED <<venueVars, phase, pending, book, sequence, snapshot, advertised, fatal>>

\* The end of pollMarket().
CheckTimers ==
    /\ Alive /\ phase # "joining"
    /\ LET late == IF sequence >= advertised THEN Unset ELSE ahead
       IN  IF quiet > FeedTimeout THEN Die("silent") /\ UNCHANGED ahead
           ELSE /\ ahead' = late
                /\ IF late > FeedTimeout THEN Die("missing") ELSE UNCHANGED fatal
    /\ UNCHANGED <<venueVars, phase, pending, book, sequence, snapshot, advertised,
                   quiet, waiting>>
-----------------------------------------------------------------------------
Updates == [kind : Kinds, id : Ids]

Datagram ==
    \/ \E n \in 1 .. Len(updates) : BufferIncrement(n)
    \/ \E n \in 1 .. Len(updates) : ReceiveIncrement(n)
    \/ \E n \in 0 .. Len(updates) : InstallSnapshot(n)
    \/ \E n \in 0 .. Len(updates) : ReceiveWatermark(n)

Next ==
    \/ \E update \in Updates : VenueUpdates(update)
    \/ Datagram
    \/ Join
    \/ Joined
    \/ Tick
    \/ CheckTimers

SafeSpec == Init /\ [][Next]_vars

\* Time passes and the market thread keeps polling; no datagram need arrive.
Spec == SafeSpec /\ WF_vars(Tick) /\ WF_vars(Join \/ Joined) /\ WF_vars(CheckTimers)

\* A thread that is never late: it has looked at its timers before each tick.
Polled ==
    /\ phase # "joining"
    /\ ahead # Unset => sequence < advertised /\ ahead <= FeedTimeout
    /\ quiet <= FeedTimeout
PunctualSpec == Init /\ [][Next /\ (Tick => Polled)]_vars
-----------------------------------------------------------------------------
(***************************************************************************)
(* Properties.                                                             *)
(***************************************************************************)

\* The types of the variables.
TypeOK ==
    /\ updates \in Seq(Updates)
    /\ DOMAIN books = 0 .. Len(updates)
    /\ phase \in Phases
    /\ pending \in SUBSET (1 .. Len(updates))
    /\ sequence \in 0 .. Len(updates)
    /\ snapshot \in 0 .. Len(updates)
    /\ advertised \in 0 .. Len(updates)
    /\ ahead \in -1 .. FeedTimeout + 1
    /\ quiet \in 0 .. FeedTimeout + 1
    /\ waiting \in [Numbers -> -1 .. FeedTimeout + 1]
    /\ fatal \in Failures

\* Whatever arrived and in whatever order, the book of the adapter is the one the
\* venue had after as many updates as the adapter counts, also while buffered
\* increments are joined to the snapshot.
ReplicaInv ==
    /\ TypeOK
    /\ \A n \in 1 .. Len(updates) :
          /\ Accepts(books[n - 1], updates[n])
          /\ books[n] = After(books[n - 1], updates[n], n)
    /\ books[0] = NoBook
    /\ snapshot <= sequence
    /\ phase = "waiting" => book = NoBook /\ sequence = 0
    /\ phase # "waiting" => book = books[sequence]

\* The check of apply() that an increment fits the book never fails: what the
\* sequence numbers let through is consistent.
NeverInconsistent == fatal # "inconsistent"

\* What is published follows the book of the venue update by update.
Replica == INSTANCE BookReplica
    WITH at <- IF phase = "synchronized" THEN sequence ELSE Unset,
         shown <- IF phase = "synchronized" THEN book ELSE NoBook
ImplementsReplica == Replica!Spec

\* A lost tail is noticed: what a snapshot has announced arrives, or the process
\* ends, however many more snapshots come.
TailNoticed ==
    \A n \in Numbers :
        phase = "synchronized" /\ advertised >= n ~> sequence >= n \/ ~ Alive

\* The snapshots confirm a missing increment only after one that was announced has
\* not come for longer than the timeout.
AlarmIsJustified ==
    fatal = "missing" => \E n \in Numbers : waiting[n] > FeedTimeout
=============================================================================
