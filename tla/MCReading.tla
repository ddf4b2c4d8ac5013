---------------------------- MODULE MCReading ----------------------------
(* The small instances of Queries and of Content, and an archive of no    *)
(* messages.                                                               *)
EXTENDS Reading, MCQueries, MCContent

MCHoldings == SmallHoldings \cup {NoHolding}
==========================================================================
