----------------------------- MODULE ConfigFile -----------------------------
(***************************************************************************)
(* Reading a configuration file: lib/config/lexer.js cuts the text into    *)
(* tokens, lib/config/parser.js builds the tree of directives and          *)
(* lib/config/schema.js checks the tree against the rules of               *)
(* config/shiny-server-rules.config, node by node.                         *)
(*                                                                         *)
(* A text is a sequence of characters.  Characters the lexer does not tell *)
(* apart (letters, digits, a backslash out of quotes, ...) are any others  *)
(* than the named ones; the name of a directive is one such character, so  *)
(* that a text stays short.  A word is the sequence of its characters.     *)
(*                                                                         *)
(* The directives are kept in the order of the file, which is the          *)
(* pre-order of their tree, each with the number of the directive it is    *)
(* in; 0 is the root.                                                      *)
(***************************************************************************)
EXTENDS Naturals, Sequences, SequencesExt, FiniteSets

CONSTANTS
  Documents,   \* what is read: the text, and what else a document comes with
  Rules,       \* the directives there are: word -> rule
  TypedWords,  \* the words that convert() accepts: type (but String) -> words
  Unlimited    \* the maxcount of rules without one: infinity

Root == 0
RootName == <<"$">>   \* as the rules call it

ParamKinds == {"required", "optional", "vararg"}

\* What ConfigSchemaRule makes sure of: required parameters come first, and
\* one vararg, if any, last.
InParamOrder(params) ==
  \A i, j \in DOMAIN params : i < j =>
    /\ params[i].kind # "vararg"
    /\ params[j].kind = "required" => params[i].kind = "required"

\* No document has so many directives, which have one character at least.
ASSUME ConfigFileAssumption ==
  /\ Unlimited \in Nat
  /\ \A d \in Documents : d.text \in Seq(STRING) /\ Len(d.text) < Unlimited
  /\ RootName \notin DOMAIN Rules
  /\ \A name \in DOMAIN Rules :
       /\ Rules[name].at \subseteq DOMAIN Rules \cup {RootName}
       /\ Rules[name].precludes \subseteq DOMAIN Rules
       /\ Rules[name].maxcount \in 1 .. Unlimited
       /\ Rules[name].params \in Seq([kind : ParamKinds, type : DOMAIN TypedWords \cup {"String"}])
       /\ InParamOrder(Rules[name].params)

VARIABLES
  doc,      \* the document
  data,     \* the lexer's $data
  offset,   \* $pos: how many characters have been consumed
  line,     \* $line and $col, from 1, of the next character
  col,
  nodes,    \* the directives found so far: [name, args, parent, position]
  scope,    \* the directive whose block is being read
  open,     \* the last directive still takes arguments
  checked,  \* how many directives applySchema has accepted
  status,   \* "parsing", then "checking", then "valid", or "rejected"
  error     \* why it was rejected, and at which position

lexVars == <<data, offset, line, col>>
treeVars == <<nodes, scope, open>>
fileVars == <<doc, lexVars, treeVars, checked, status, error>>

NoPosition == [line |-> 0, col |-> 0]
NoError == [reason |-> "none", at |-> NoPosition]

(***************************************************************************)
(* lexer.js                                                                *)
(***************************************************************************)
EOL == "\n"
CR == "\r"
Control == "control"
Quotes == {"'", "\""}
Blank == {" ", CR}

\* The characters at which $matchWord stops.
Special == {"{", "}", ";", "#", EOL, Control} \cup Quotes \cup Blank

\* data.replace(/\r/, ''): only the first one goes.
StripCR(text) == IF CR \in ToSet(text) THEN RemoveFirst(text, CR) ELSE text

\* The number of the first character from "from" on that is (not) one of chars.
FirstIn(from, chars) ==
  CHOOSE i \in from .. Len(data) + 1 :
    /\ i = Len(data) + 1 \/ data[i] \in chars
    /\ \A j \in from .. i - 1 : data[j] \notin chars

FirstNotIn(from, chars) ==
  CHOOSE i \in from .. Len(data) + 1 :
    /\ i = Len(data) + 1 \/ data[i] \notin chars
    /\ \A j \in from .. i - 1 : data[j] \in chars

Token(type, next, content) == [type |-> type, next |-> next, content |-> content]
LexicalError == Token("ERROR", 1, << >>)

\* Mutant of Quoted: a backslash is an ordinary character.
QuotedVerbatim(from, quot) ==
  IF FirstIn(from, {quot}) > Len(data) THEN LexicalError
  ELSE Token("WORD", FirstIn(from, {quot}) + 1,
             SubSeq(data, from, FirstIn(from, {quot}) - 1))

\* $matchQuoted, after the opening quote; a backslash takes what follows it
\* literally, and the other kind of quote is an ordinary character.
Quoted(from, quot) ==
  LET with(c, token) ==
        IF token = LexicalError THEN token ELSE [token EXCEPT !.content = <<c>> \o @]
      rest[i \in from .. Len(data) + 1] ==
        IF i > Len(data) \/ (data[i] = "\\" /\ i = Len(data)) THEN LexicalError
        ELSE IF data[i] = quot THEN Token("WORD", i + 1, << >>)
        ELSE IF data[i] = "\\" THEN with(data[i + 1], rest[i + 2])
        ELSE with(data[i], rest[i + 1])
  IN  rest[from]

\* nextToken
NextToken ==
  LET start == offset + 1
      first == data[start]
      upTo(type, next) == Token(type, next, SubSeq(data, start, next - 1))
  IN  IF start > Len(data) THEN Token("EOD", start, << >>)
      ELSE CASE first = ";" -> upTo("TERM", start + 1)
             [] first = "{" -> upTo("OPENBRACE", start + 1)
             [] first = "}" -> upTo("CLOSEBRACE", start + 1)
             [] first = EOL -> upTo("WS", start + 1)
             [] first \in Blank -> upTo("WS", FirstNotIn(start, Blank))
             [] first = "#" -> upTo("COMMENT", FirstIn(start, {EOL}))
             [] first \in Quotes -> Quoted(start + 1, first)
             [] first = Control -> LexicalError
             [] OTHER -> upTo("WORD", FirstIn(start, Special))

\* Mutant of Advance: quoted words are taken to be on one line.
AdvanceInLine(next) ==
  /\ offset' = next - 1
  /\ IF data[next - 1] = EOL THEN line' = line + 1 /\ col' = 1
     ELSE col' = col + (next - 1 - offset) /\ UNCHANGED line
  /\ UNCHANGED data

\* $nextChar for each character of the token.
Advance(next) ==
  LET eols == {i \in offset + 1 .. next - 1 : data[i] = EOL}
      last == CHOOSE i \in eols : \A j \in eols : j <= i
  IN  /\ offset' = next - 1
      /\ line' = line + Cardinality(eols)
      /\ col' = IF eols = {} THEN col + (next - 1 - offset) ELSE next - last
      /\ UNCHANGED data

Here == [line |-> line, col |-> col]

(***************************************************************************)
(* parser.js                                                               *)
(***************************************************************************)
Reject(reason, position) ==
  /\ status' = "rejected"
  /\ error' = [reason |-> reason, at |-> position]
  /\ UNCHANGED <<doc, lexVars, treeVars, checked>>

FileInit ==
  /\ doc \in Documents
  /\ data = StripCR(doc.text)
  /\ offset = 0 /\ line = 1 /\ col = 1
  /\ nodes = << >> /\ scope = Root /\ open = FALSE
  /\ checked = 0
  /\ status = "parsing" /\ error = NoError

Consume(type) ==
  /\ status = "parsing"
  /\ NextToken.type = type
  /\ Advance(NextToken.next)
  /\ UNCHANGED <<doc, checked, status, error>>

\* $nextToken filters out whitespace and comments.
Skip == (Consume("WS") \/ Consume("COMMENT")) /\ UNCHANGED treeVars

\* A word is an argument, or begins a directive.
ReadWord ==
  /\ Consume("WORD")
  /\ nodes' = IF open
              THEN [nodes EXCEPT ![Len(nodes)].args = Append(@, NextToken.content)]
              ELSE Append(nodes, [name |-> NextToken.content, args |-> << >>,
                                  parent |-> scope, position |-> Here])
  /\ open' = TRUE
  /\ UNCHANGED scope

\* The end of a directive; an empty statement is skipped.
ReadTerm ==
  /\ Consume("TERM")
  /\ open' = FALSE
  /\ UNCHANGED <<nodes, scope>>

\* $parseChildDirectives of the directive
OpenBlock ==
  /\ Consume("OPENBRACE")
  /\ open
  /\ scope' = Len(nodes)
  /\ open' = FALSE
  /\ UNCHANGED nodes

CloseBlock ==
  /\ Consume("CLOSEBRACE")
  /\ ~open /\ scope # Root
  /\ scope' = nodes[scope].parent
  /\ UNCHANGED <<nodes, open>>

\* A token that cannot come here.
Misplaced(type) ==
  \/ type = "OPENBRACE" /\ ~open
  \/ type = "CLOSEBRACE" /\ (open \/ scope = Root)

SyntaxError ==
  /\ status = "parsing"
  /\ NextToken.type = "ERROR" \/ Misplaced(NextToken.type)
  /\ Reject("syntax", Here)

\* Mutant of EndOfData: the end closes all blocks.
EndOfDataCloses ==
  /\ status = "parsing"
  /\ NextToken.type = "EOD"
  /\ IF open THEN Reject("syntax", nodes[Len(nodes)].position)
     ELSE status' = "checking" /\ UNCHANGED <<doc, lexVars, treeVars, checked, error>>

\* The data ended: within a directive, within a block, or at the root.
EndOfData ==
  /\ status = "parsing"
  /\ NextToken.type = "EOD"
  /\ IF open THEN Reject("syntax", nodes[Len(nodes)].position)
     ELSE IF scope # Root THEN Reject("syntax", nodes[scope].position)
     ELSE status' = "checking" /\ UNCHANGED <<doc, lexVars, treeVars, checked, error>>

(***************************************************************************)
(* schema.js                                                               *)
(***************************************************************************)
NameOf(n) == IF n = Root THEN RootName ELSE nodes[n].name

Children(n) == {m \in DOMAIN nodes : nodes[m].parent = n}

\* ConfigNode.getOne without inheritance
GetOne(n, name) ==
  LET found == {m \in Children(n) : nodes[m].name = name}
  IN  IF found = {} THEN Root ELSE CHOOSE m \in found : \A k \in found : m <= k

RuleOf(n) == Rules[nodes[n].name]

MinParams(rule) == Cardinality({i \in DOMAIN rule.params : rule.params[i].kind = "required"})

\* $minParams and $maxParams, which is infinite with a vararg.
Takes(rule, argc) ==
  /\ argc >= MinParams(rule)
  /\ argc > Len(rule.params) => \E i \in DOMAIN rule.params : rule.params[i].kind = "vararg"

\* The parameter that takes the i-th argument; a vararg takes all that follow.
ParamFor(rule, i) ==
  rule.params[IF i <= Len(rule.params) THEN i ELSE Len(rule.params)]

Converts(param, word) == param.type = "String" \/ word \in TypedWords[param.type]

\* Mutant of PrecludedBy: only the directives before it.
PrecludedByEarlier(n) ==
  \E name \in RuleOf(n).precludes : GetOne(nodes[n].parent, name) \in 1 .. n - 1

\* $validatePrecludes
PrecludedBy(n) ==
  \E name \in RuleOf(n).precludes : GetOne(nodes[n].parent, name) # Root

\* $validateMaxCount: the count up to this one.
TooMany(n) ==
  Cardinality({m \in Children(nodes[n].parent) : m <= n /\ nodes[m].name = nodes[n].name})
    > RuleOf(n).maxcount

\* What applyTo finds wrong with a directive, in the order it looks, and the
\* directive it names; convert throws without a position.
Complaint(n) ==
  LET rule == RuleOf(n)
      args == nodes[n].args
      about(reason, m) ==
        [reason |-> reason, at |-> IF m = Root THEN NoPosition ELSE nodes[m].position]
  IN  IF nodes[n].name \notin DOMAIN Rules THEN about("unknown", n)
      ELSE IF NameOf(nodes[n].parent) \notin rule.at THEN about("place", n)
      ELSE IF ~Takes(rule, Len(args)) THEN about("arguments", n)
      ELSE IF \E i \in DOMAIN args : ~Converts(ParamFor(rule, i), args[i])
           THEN about("type", Root)
      ELSE IF TooMany(n) THEN about("maxcount", n)
      ELSE IF PrecludedBy(n) THEN about("precludes", nodes[n].parent)
      ELSE NoError

\* applySchema: the next node of search(true), in pre-order.
CheckDirective ==
  /\ status = "checking"
  /\ checked < Len(nodes)
  /\ IF Complaint(checked + 1) = NoError
     THEN checked' = checked + 1 /\ UNCHANGED <<doc, lexVars, treeVars, status, error>>
     ELSE /\ status' = "rejected"
          /\ error' = Complaint(checked + 1)
          /\ UNCHANGED <<doc, lexVars, treeVars, checked>>

Conforming ==
  /\ status = "checking"
  /\ checked = Len(nodes)
  /\ status' = "valid"
  /\ UNCHANGED <<doc, lexVars, treeVars, checked, error>>

FileNext ==
  \/ Skip \/ ReadWord \/ ReadTerm \/ OpenBlock \/ CloseBlock
  \/ SyntaxError \/ EndOfData \/ CheckDirective \/ Conforming

FileSpec == FileInit /\ [][FileNext]_fileVars

=============================================================================
