---------------------------- MODULE MCPlanificador ----------------------------
EXTENDS Planificador, TLC

CONSTANTS p1, p2

Con(n) == [lineas |-> n, terminada |-> TRUE]
Sin(n) == [lineas |-> n, terminada |-> FALSE]

\* With and without a newline at the end; an empty line first, between two, last,
\* twice; a line too short, as it is and after an empty one; an empty file.
ConGuiones ==
    {Con(<<>>),
     Sin(<<"orden", "orden", "orden">>),
     Con(<<"orden", "orden">>),
     Con(<<"vacia", "orden", "orden">>),
     Sin(<<"orden", "vacia", "orden">>),
     Con(<<"orden", "vacia">>),
     Sin(<<"vacia", "vacia", "orden">>),
     Sin(<<"vacia", "corta">>)}
=============================================================================
