---------------------------- MODULE DurableStore ----------------------------
(* What a table promises its caller, without files, arrays or compactions:   *)
(* a set of values on disk and the values it owes.  Values are numbered in   *)
(* the order of the inserts that bring them.                                 *)
EXTENDS Integers

VARIABLES
    stored,     \* values that are live in the table file
    owed,       \* values accepted since the table was opened, not deleted since
    used        \* inserts so far

vars == <<stored, owed, used>>

Init == stored = {} /\ owed = {} /\ used = 0

\* An insert that returned 0: the value is on disk and owed.
Accept ==
    /\ used' = used + 1
    /\ stored' = stored \cup {used + 1}
    /\ owed' = owed \cup {used + 1}

\* An insert that failed, or whose caller never learnt: it may be on disk.
Unanswered ==
    /\ used' = used + 1
    /\ stored' \in {stored, stored \cup {used + 1}}
    /\ UNCHANGED owed

\* A delete takes the promise back at once, the value with it or not.
Delete(v) ==
    /\ owed' = owed \ {v}
    /\ stored' \in {stored, stored \ {v}}
    /\ UNCHANGED used

\* A compaction, in one step: it may drop anything it does not owe, and it
\* brings nothing back.
Rewrite ==
    /\ stored' \subseteq stored /\ owed \subseteq stored'
    /\ UNCHANGED <<owed, used>>

\* A new session owes nothing yet.
Reopen ==
    /\ owed' = {}
    /\ UNCHANGED <<stored, used>>

Next == Accept \/ Unanswered \/ (\E v \in 1 .. used : Delete(v)) \/ Rewrite \/ Reopen

Spec == Init /\ [][Next]_vars

--------------------------------------------------------------------------

\* What is owed is on disk.
Kept == owed \subseteq stored
=============================================================================
