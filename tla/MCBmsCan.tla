------------------------------ MODULE MCBmsCan ------------------------------
(* The limits and test vectors of main.c in halves of the units on the     *)
(* wire, readings half a unit inside and beyond a limit, beyond the range  *)
(* of the wire and of the integer, failed and non-finite readings.         *)
EXTENDS BmsCan

F(x) == [n |-> x, finite |-> TRUE]

Conf(v0, v1, i1, t0, t1) ==
    [min_voltage |-> F(v0), max_voltage |-> F(v1), max_current |-> F(i1),
     min_temperature |-> F(t0), max_temperature |-> F(t1)]

MainLimits == Conf(8000, 10800, 40000, -400, 1200)
WideLimits == Conf(0, 2200000, 140001, -4000, 2200000)
MCLimitSets == {MainLimits, WideLimits}

MCIntMax == 1048575
Huge == 2 * MCIntMax - 1500   \* overflows once the offset is added

MCNumber == {-140000, -39999, -400, -401, -399, -4000, 0, 500, 1200, 1201, 8000, 10799, 10800,
             10801, 20000, 40000, 140001, 131072, 2200000, Huge}

Answer(x)  == [reading |-> [value |-> x, status |-> "VALID"], ok |-> TRUE]
Failed(x)  == [reading |-> [value |-> x, status |-> "INVALID"], ok |-> FALSE]
NotANumber == [n |-> 0, finite |-> FALSE]

Sample(v, i, t) == [ch \in Channel |-> CASE ch = "voltage" -> v [] ch = "current" -> i [] OTHER -> t]
Vector(v, i, t) == Sample(Answer(F(v)), Answer(F(i)), Answer(F(t)))

MCSamples == {Vector(10799, -39999, -399), Vector(10801, 20000, 1201),
              Vector(131072, -140000, Huge), Vector(2200000, 140001, -4000),
              Sample(Failed(F(8000)), Answer(F(20000)), Answer(F(-400))),
              Sample(Answer(F(10800)), Answer(NotANumber), Answer(NotANumber))}

Words == [ch \in Channel |-> 65535]
MCOtherFrames ==
    {[id |-> DefaultId, dlc |-> 7, words |-> Words, state |-> "NORMAL", fault |-> "NONE"],
     [id |-> 512, dlc |-> 8, words |-> Words, state |-> OtherCode, fault |-> "NONE"],
     [id |-> DefaultId, dlc |-> 8, words |-> Words, state |-> "NORMAL", fault |-> OtherCode]}
=============================================================================
