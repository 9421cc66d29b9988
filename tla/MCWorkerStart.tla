--------------------------- MODULE MCWorkerStart ---------------------------
(* An app in R that runs as another user than the server, one in Python    *)
(* that runs as the same, whose logs are kept, and one that is refused.    *)
EXTENDS WorkerStart

AppOf(python, switchUser, superuser, keepsLog) ==
  [python |-> python, switchUser |-> switchUser, superuser |-> superuser,
   logAsUser |-> keepsLog, preserveLogs |-> keepsLog]

MCConfigs == {AppOf(FALSE, TRUE, TRUE, FALSE), AppOf(TRUE, FALSE, FALSE, TRUE),
              AppOf(FALSE, FALSE, TRUE, FALSE)}

\* For the runs on the log of an app in R, and of one in Python.
MCShiny == {c \in Config : ~c.python /\ (c.switchUser \/ ~c.superuser)}

MCPython == {c \in Config : c.python /\ c.switchUser /\ c.superuser}

MCMaxKills == [idle |-> 3, force |-> 1]

=============================================================================
