------------------------------ MODULE MCReading ------------------------------
EXTENDS Reading

MCKindOf == (1 :> "memory") @@ (2 :> "session") @@ (3 :> "memory")
MCSizeOf == ("a" :> 1) @@ ("b" :> 2) @@ ("c" :> 1) @@ ("d" :> 4)

MCProfile ==
  {Plain,
   [Plain EXCEPT !.tags = 1],
   [Plain EXCEPT !.tags = 2, !.typed = TRUE],
   [Plain EXCEPT !.tags = 2, !.typed = TRUE, !.superseded = TRUE],
   [Plain EXCEPT !.tags = 2, !.selected = FALSE],
   [Plain EXCEPT !.described = FALSE]}
==============================================================================
