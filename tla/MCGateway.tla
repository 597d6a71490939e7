----------------------------- MODULE MCGateway ------------------------------
(***************************************************************************)
(* Small instances of Gateway for TLC: one client address, one user whose  *)
(* id ends in 0, and requests without the header.                          *)
(***************************************************************************)
EXTENDS Gateway

CONSTANTS i1, u10

Ask(user, route) == [ip |-> i1, user |-> user, route |-> route]

MCIps == {i1}
MCUsers == {u10}

\* What the routes of the program offer, and a path that the breaker guards.
MCTraffic ==
    {Ask(None, "book"), Ask(u10, "book"), Ask(u10, "preload"), Ask(None, "reset"),
     Ask(None, "other")}

Bookings == {Ask(None, "book")}
=============================================================================
