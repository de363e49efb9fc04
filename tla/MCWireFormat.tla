---------------------------- MODULE MCWireFormat ----------------------------
(***************************************************************************)
(* Values for model checking WireFormat.                                   *)
(***************************************************************************)
EXTENDS WireFormat

\* A double by its two highest bytes.
Binary64(high, low) == [k \in 1 .. 8 |-> IF k = 8 THEN high ELSE IF k = 7 THEN low ELSE 0]

MCSubjects == Classes
MCTexts == {<< >>, AddInt}
MCNumbers == {0, -1, 300}
MCDoubles == {Binary64(0, 0), Binary64(192, 8)}

\* Names of functions, by their lengths.
MCAddInt == [k \in 1 .. 6 |-> 65]
MCPlayerMove == [k \in 1 .. 10 |-> 80]
MCAddString == [k \in 1 .. 9 |-> 65]

\* x, 1.0, y, 2.0, acceleration, 3.0, speed, 4.0, angle, 5.0, aspect, 6.0.
MCMove == [x |-> Binary64(63, 240), y |-> Binary64(64, 0), acceleration |-> Binary64(64, 8),
           speed |-> Binary64(64, 16), angle |-> Binary64(64, 20), aspect |-> Binary64(64, 24)]
MCPage == [k \in 1 .. 110 |-> 90]
MCOutcomes == {[x |-> Binary64(64, 28), y |-> Binary64(64, 32), speed |-> Binary64(64, 34)]}
=============================================================================
