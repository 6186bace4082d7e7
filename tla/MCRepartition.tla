--------------------------- MODULE MCRepartition ---------------------------
(***************************************************************************)
(* Repartition between three packages: cache or userdata move, or both, up *)
(* and down.  Each unit of the eMMC is one place a partition may start at. *)
(***************************************************************************)
EXTENDS Repartition

MCOffsets == {[cache |-> 1, userdata |-> 2], [cache |-> 1, userdata |-> 3],
              [cache |-> 2, userdata |-> 3]}

\* Nothing is explored beyond a state in which entries that fail their CRC have
\* been taken over for another layout: the properties say nothing from there on.
Sighted == ~blind
=============================================================================
