---------------------------- MODULE MCBmsManager ----------------------------
(* Four numbers, with two valid configurations that put each of them       *)
(* inside, on and beyond a limit, and one invalid configuration per check  *)
(* of bms_limits_validate.                                                 *)
EXTENDS BmsManager

F(x) == [n |-> x, finite |-> TRUE]

Conf(v0, v1, i1, t0, t1) ==
    [min_voltage |-> F(v0), max_voltage |-> F(v1), max_current |-> F(i1),
     min_temperature |-> F(t0), max_temperature |-> F(t1)]

MCNumber == {-2, 0, 1, 2}

Good == Conf(0, 1, 1, 0, 1)

MCLimitSets == {Good, Conf(-2, 1, 2, -2, 1),
                [Good EXCEPT !.max_current = [n |-> 0, finite |-> FALSE]],
                Conf(1, 1, 1, 0, 1), Conf(0, 1, 0, 0, 1), Conf(0, 1, 1, 1, 0)}
=============================================================================
