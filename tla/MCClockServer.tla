--------------------------- MODULE MCClockServer ---------------------------
(***************************************************************************)
(* The clock server with three interchangeable clients.                    *)
(***************************************************************************)
EXTENDS ClockServer, TLC

\* No action tells one client from another.
Symmetry == Permutations(Clients)
=============================================================================
