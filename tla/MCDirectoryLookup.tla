------------------------- MODULE MCDirectoryLookup -------------------------
(* A directory "log", one whose name begins so, and one below each.        *)
EXTENDS DirectoryLookup

CONSTANTS r1, r2

MCNames == {"log", "logistic"}

Logistic(escaped) == [kind |-> "name", name |-> "logistic", escaped |-> escaped]
Log == [kind |-> "name", name |-> "log", escaped |-> FALSE]
Special(kind) == [kind |-> kind, name |-> "", escaped |-> FALSE]

MCSegments == {Empty, Special("hidden"), Special("slash"), Logistic(FALSE), Log}

MCSegmentsSpelled == {Empty, Logistic(FALSE), Logistic(TRUE)}

File == [is |-> "file", entries |-> {}]
Dir(entries) == [is |-> "dir", entries |-> entries]

\* The root, one directory in it, and one in that.
Tree(root, outer, inner) ==
  [p \in Paths |->
     CASE p = << >> -> root
       [] p = <<"logistic">> -> outer
       [] p = <<"logistic", "log">> -> inner
       [] OTHER -> Nothing]

Trees(roots, contents) ==
  {Tree(root, outer, inner) : root \in roots, outer \in contents, inner \in contents \cup {Nothing, File}}
  \cup {Tree(root, outer, Nothing) : root \in roots, outer \in {Nothing, File}}

MCFileSystems ==
  Trees({Dir({}), Dir({"app.R"})},
        {Dir({}), Dir({"index.html"}), Dir({"app.py"}), Dir({"doc.Rmd", "index.html"})})

MCFileSystemsIndex == Trees({Dir({})}, {Dir({"doc.Rmd", "reindex.html"})})

=============================================================================
