---------------------------- MODULE MCWorkOrders ----------------------------
(* Values of the constants of WorkOrders for TLC. *)
EXTENDS WorkOrders

CONSTANTS p1, p2

WholeUnits == {-4, 4}   \* one unit, in quarters
Qty0 == {0}
Qty1 == {1}
Qty12 == {1, 2}

Planned(id, p, q) == [id |-> id, part |-> p, planned |-> q, used |-> NULL]

\* One part, or two in either order: two closes then lock them in opposite orders.
Lists == { <<>>, <<Planned(-1, p1, 1)>>,
           <<Planned(-1, p1, 1), Planned(-2, p2, 1)>>,
           <<Planned(-3, p2, 1), Planned(-4, p1, 1)>> }

OppositeLists == { <<>>, <<Planned(-1, p1, 1), Planned(-2, p2, 1)>>,
                   <<Planned(-3, p2, 1), Planned(-4, p1, 1)>> }
=============================================================================
