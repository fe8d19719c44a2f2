------------------------------ MODULE MCConsole ------------------------------
(* The instances of Console that TLC checks. *)
EXTENDS Console, Sequences, TLC

CONSTANTS a, b, c, q, r, u, p1, p2   \* texts, nodes and assets; queries; a unit; jobs

\* The server suggests both texts for an empty box, one for a and nothing for b.
MCSuggest == Blank :> <<a, b>> @@ a :> <<a>> @@ b :> <<>>

\* Two searches that find a node each, over a chain of three nodes.
MCLinks == {<<a, b>>, <<b, c>>}
MCFound == q :> {b} @@ r :> {c}

\* Both assets are of one unit.
MCUnitOf == [x \in Assets |-> u]

\* The optimisation moves one job and leaves the other.
MCProposed == p1 :> 2 @@ p2 :> None
=============================================================================
