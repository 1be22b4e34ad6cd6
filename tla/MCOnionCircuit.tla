--------------------------- MODULE MCOnionCircuit ---------------------------
(* OnionCircuit and OnionSession for TLC; circuit.cfg gives the constants   *)
(* their values.  Two messages take two fragments each, the first of        *)
(* which fills a cell of one hop.                                           *)
EXTENDS OnionSession

MCLengths == <<1000, 0, 1000>>
=============================================================================
