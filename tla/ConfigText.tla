----------------------------- MODULE ConfigText -----------------------------
(***************************************************************************)
(* What a configuration text says, stated without tokens and without a     *)
(* parser: how each character is to be read follows from those before it,  *)
(* and the structure is a matter of counting braces.  ConfigFile is        *)
(* compared with it.                                                       *)
(***************************************************************************)
EXTENDS Naturals, Sequences, FiniteSets

Structure == {"{", "}", ";"}
Space == {" ", "\n", "\r"}
Quote == {"'", "\""}

Escaped(quote) == IF quote = "'" THEN "escaped in '" ELSE "escaped in \""

\* What the first i characters leave the reader in: "plain", a "word", a
\* "comment", within quotes, or within quotes after a backslash.  (The
\* comparison has TLC compute the function once, and not when it is applied.)
Modes(text) ==
  LET plain(c) == IF c \in Quote THEN c
                  ELSE IF c = "#" THEN "comment"
                  ELSE IF c \in Structure \cup Space \cup {"control"} THEN "plain"
                  ELSE "word"
      mode[i \in 0 .. Len(text)] ==
        IF i = 0 THEN "plain"
        ELSE LET c == text[i]
                 m == mode[i - 1]
             IN  CASE m = "comment" -> IF c = "\n" THEN "plain" ELSE m
                   [] m \in Quote -> IF c = m THEN "plain"
                                     ELSE IF c = "\\" THEN Escaped(m) ELSE m
                   [] m = Escaped("'") -> "'"
                   [] m = Escaped("\"") -> "\""
                   [] OTHER -> plain(c)
  IN  CHOOSE m \in {mode} : m = mode

\* The structure of a text of which m are the modes.
Outside(m, i) == m[i - 1] \in {"plain", "word"}

Structural(text, m, i) == Outside(m, i) /\ text[i] \in Structure

WordAt(m, i) == Outside(m, i) /\ m[i] \in {"word"} \cup Quote

\* A directive has been begun and not ended in the first i - 1 characters.
Begun(text, m, i) ==
  \E j \in 1 .. i - 1 :
    WordAt(m, j) /\ \A k \in j + 1 .. i - 1 : ~Structural(text, m, k)

Balance(text, m, i) ==
  LET count(c) == Cardinality({j \in 1 .. i : text[j] = c /\ Outside(m, j)})
  IN  [opened |-> count("{"), closed |-> count("}")]

\* No directive can go on with the i-th character.
Fault(text, m, i) ==
  /\ Outside(m, i)
  /\ \/ text[i] = "control"
     \/ text[i] = "{" /\ ~Begun(text, m, i)
     \/ /\ text[i] = "}"
        /\ \/ Begun(text, m, i)
           \/ Balance(text, m, i).closed > Balance(text, m, i).opened

Faults(text) == LET m == Modes(text) IN {i \in DOMAIN text : Fault(text, m, i)}

\* Something is left open at the end.
Unfinished(text) ==
  LET m == Modes(text)
      n == Len(text)
  IN  \/ m[n] \notin {"plain", "word", "comment"}
      \/ Begun(text, m, n + 1)
      \/ Balance(text, m, n).opened > Balance(text, m, n).closed

WellFormed(text) == Faults(text) = {} /\ ~Unfinished(text)

(***************************************************************************)
(* The directives of a text, with the words they are made of.              *)
(***************************************************************************)

\* Where words begin: what has been a word goes on unless something else comes.
WordStarts(text, m) ==
  {i \in DOMAIN text : WordAt(m, i) /\ ~(m[i - 1] = "word" /\ m[i] = "word")}

\* The characters that spell the word which begins at i: not its quotes, and
\* not the backslashes that take the next character literally.
Letters(text, m, i) ==
  {k \in i .. Len(text) :
     /\ m[k] = m[i] /\ \A j \in i .. k : m[j] \in {m[i], Escaped(m[i])}
     /\ m[i] \in Quote => k # i}

\* How many of a set of numbers are up to i, and the numbers in their order.
Rank(S, i) == Cardinality({j \in S : j <= i})

Ascending(S) == [k \in 1 .. Cardinality(S) |-> CHOOSE i \in S : Rank(S, i) = k]

Spelled(text, m, i) ==
  LET letters == Ascending(Letters(text, m, i))
  IN  [k \in DOMAIN letters |-> text[letters[k]]]

\* The line and column of the i-th character.
PositionOf(text, i) ==
  LET eols == {j \in 1 .. i - 1 : text[j] = "\n"}
      last == IF eols = {} THEN 0 ELSE CHOOSE j \in eols : \A k \in eols : k <= j
  IN  [line |-> Cardinality(eols) + 1, col |-> i - last]

\* The last brace that led to the depth at which the first i characters leave
\* off, which opened the innermost of the blocks that are open there; or 0.
BlockStart(text, m, i) ==
  LET same(o) == Balance(text, m, o).opened + Balance(text, m, i).closed
                 = Balance(text, m, i).opened + Balance(text, m, o).closed
      braces == {o \in 1 .. i : text[o] = "{" /\ Outside(m, o) /\ same(o)}
  IN  IF braces = {} THEN 0 ELSE CHOOSE o \in braces : \A k \in braces : k <= o

\* The words of the first i characters that begin directives.
Heads(text, m, i) == {h \in WordStarts(text, m) : h <= i /\ ~Begun(text, m, h)}

\* The directives of the first i characters: a word and, as its arguments, those
\* up to the next one; it is in the directive before the brace of its block.
DirectivesIn(text, m, i) ==
  LET heads == Heads(text, m, i)
      rest == {w \in WordStarts(text, m) : w <= i} \ heads
      directive(n) ==
        LET head == Ascending(heads)[n]
            args == Ascending({w \in rest : Rank(heads, w) = n})
        IN  [name |-> Spelled(text, m, head),
             args |-> [k \in DOMAIN args |-> Spelled(text, m, args[k])],
             parent |-> Rank(heads, BlockStart(text, m, head - 1)),
             position |-> PositionOf(text, head)]
  IN  [n \in 1 .. Cardinality(heads) |-> directive(n)]

=============================================================================
