--------------------------- MODULE MCConfigReload ---------------------------
(* Five versions of a configuration file, one of them invalid, one with a  *)
(* port out of range and one on which the process exits.                   *)
EXTENDS ConfigReload

CONSTANTS any1, lo1, any2, bad

MCAddresses == {any1, lo1, any2, bad}

MCWildcards == {any1, any2}

MCOverlapping == {<<any1, lo1>>, <<lo1, any1>>}

Content(valid, addresses) == [valid |-> valid, exits |-> FALSE, addresses |-> addresses]

Exiting == [Content(FALSE, << >>) EXCEPT !.exits = TRUE]

MCContents ==
  <<Content(TRUE, <<any1>>), Content(TRUE, <<lo1, bad, any2>>),
    Content(FALSE, << >>), Content(TRUE, <<any1, any2, any1>>), Exiting>>

=============================================================================
