----------------------------- MODULE MCWarehouse -----------------------------
(* Two orders and two customers; o1 comes in two versions, one of them with *)
(* two contents, and moves between customers.                               *)
EXTENDS Warehouse

CONSTANTS o1, o2, c1, c2

MCOrders == {o1, o2}
MCCustomers == {c1, c2}

Line(o, c, ts, ver, kind) ==
    [order |-> o, customer |-> c, ts |-> ts, ver |-> ver, kind |-> kind]

MCValid ==
    {Line(o1, c1, 2, 1, "valid"), Line(o1, c2, 1, 1, "valid"),
     Line(o1, c1, 3, 2, "valid"), Line(o2, c1, 1, 1, "valid")}

\* The unstorable line loses to a newer version and may lose a tie.
MCBadLines ==
    {Line(o1, c1, 1, 3, "unreadable"), Line(o1, c1, 1, 3, "unprintable"),
     Line(o1, c1, 1, 1, "unstorable"), Line(o2, c1, 1, 3, "invalid")}

MCRows == MCValid \cup MCBadLines
=============================================================================
