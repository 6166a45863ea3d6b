------------------------------ MODULE MCGossip ------------------------------
EXTENDS Gossip, TLC

CONSTANTS a, b, c

\* Both a and c know b from their config; they learn of each other through it.
ConSeeds == a :> <<b>> @@ b :> <<>> @@ c :> <<b>>
=============================================================================
