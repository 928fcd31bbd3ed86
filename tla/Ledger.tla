------------------------------ MODULE Ledger -------------------------------
(***************************************************************************)
(* What libs/balance promises its callers, told without sessions, locks,   *)
(* snapshots or ids: a transaction posts all its movements at once, or     *)
(* none of them; nothing is posted twice; and a reservation is posted only *)
(* if the ledger covers it at that very moment.  BalanceLedger is the      *)
(* program that keeps this promise.                                        *)
(***************************************************************************)
EXTENDS Movements, Sequences

CONSTANT
    Program         \* what a transaction may run

VARIABLE
    lines           \* what each posted leg has added to which row, and why

\* The key under which a leg of a movement is posted.
KeyOf(line) == <<line.row, line.reason, line.source>>

Keys(set) == {KeyOf(line) : line \in set}

Line(m, l) ==
    [row |-> l.row, amount |-> Signed(l), reason |-> m.reason, source |-> m.source]

LinesOf(m) == {Line(m, l) : l \in m.legs}

Amount(line) == line.amount

\* The balance is what has been posted, and nothing else.
Balance(row) == MapThenSumSet(Amount, {line \in lines : line.row = row})

Posted(reason, source) ==
    \E line \in lines : line.reason = reason /\ line.source = source

Init == lines = {}

Covered(m) ==
    m.reason = "PAYOUT_RESERVED" =>
        \A l \in DebitsOf(m) : Balance(l.row) >= l.amount

Post(p) ==
    LET at == DOMAIN p.movements
        m == p.movements
    IN  /\ \A need \in p.needs : Posted(need.reason, need.source)
        /\ \A i \in at : Keys(LinesOf(m[i])) \cap Keys(lines) = {}
        /\ \A i, j \in at : i # j => Keys(LinesOf(m[i])) \cap Keys(LinesOf(m[j])) = {}
        /\ \A i \in at : Valid(m[i]) /\ Covered(m[i])
        /\ lines' = lines \cup UNION {LinesOf(m[i]) : i \in at}

Next == \E p \in Program : Post(p)

Spec == Init /\ [][Next]_lines

=============================================================================
