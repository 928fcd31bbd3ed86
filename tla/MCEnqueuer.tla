----------------------------- MODULE MCEnqueuer -----------------------------
(***************************************************************************)
(* Instances of Enqueuer for TLC: days of four ticks.                      *)
(***************************************************************************)
EXTENDS Enqueuer

Terms(mode, delay, times) ==
    [mode |-> mode, delay |-> delay, times |-> times, businessDaysOnly |-> FALSE]

AllTerms == {Terms("INSTANT", 0, {}),
             Terms("FOLLOW_UPSTREAM", 0, {}),
             Terms("FIXED_DELAY", 0, {2}),
             Terms("FIXED_DELAY", 1, {1}),
             Terms("SCHEDULED", 0, {1, 3}),
             [Terms("SCHEDULED", 0, {2}) EXCEPT !.businessDaysOnly = TRUE]}

\* One partner settles QRIS the next day at a stated time, in a zone a tick
\* ahead of Jakarta, and EWALLET the same day with no time stated; nobody has
\* said when VA is settled, and two partners settle CARD.
Upstream(offset, time, zone) == [offset |-> offset, time |-> time, zone |-> zone]

SomeMethods == {"QRIS", "EWALLET", "VA", "CARD"}
SomeWindows == [QRIS    |-> {Upstream(1, 1, 1)},
                EWALLET |-> {Upstream(0, Null, 0)},
                VA      |-> {},
                CARD    |-> {Upstream(0, 2, 0), Upstream(1, 1, 0)}]

\* A merchant has a default, or terms for one method and no default.
DefaultOrOne == {{"*"}, {"VA"}}

OnePayment == {"p"}

=============================================================================
