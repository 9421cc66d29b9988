--------------------------- MODULE Configuration ---------------------------
(***************************************************************************)
(* A server that reads its configuration and answers a request: the text   *)
(* (ConfigFile) becomes a tree of directives, createRouter_p               *)
(* (lib/router/config-router.js) makes servers and locations of the tree,  *)
(* and these are asked for an answer (Routing).                            *)
(***************************************************************************)
EXTENDS ConfigFile, ConfigText, Routing

CONSTANTS
  PrivilegedPorts, \* the ports below 1024
  ProcessUser,     \* whom the server runs as
  Groups           \* the groups of users there are

configurationVars == <<fileVars, routingVars>>

Word(name) == <<name>>

HostingNames ==
  {Word(d) : d \in {"site_dir", "user_dirs", "app_dir", "user_apps", "redirect"}}

\* A document comes with whether the server that reads it runs as root.
\* The directives of the rules that come into it are those of the schema:
\* servers are in no block and locations in those of servers and locations; a
\* server has one address and one list of names, in its block; and of two
\* hosting models in one location one precludes the other.
ASSUME ConfigurationAssumption ==
  /\ \A d \in Documents : d.superuser \in BOOLEAN
  /\ \A name \in DOMAIN Rules :
       /\ name = Word("server") => Rules[name].at = {RootName}
       /\ name = Word("location") => Rules[name].at \subseteq {Word("server"), Word("location")}
       /\ name \in {Word("listen"), Word("server_name")} =>
            Rules[name].at = {Word("server")} /\ Rules[name].maxcount = 1
  /\ \A name \in HostingNames \cap DOMAIN Rules :
       /\ Rules[name].maxcount = 1
       /\ \A other \in (HostingNames \cap DOMAIN Rules) \ {name} :
            name \in Rules[other].precludes \/ other \in Rules[name].precludes

\* What ToBoolean takes for true.
Yes == {Word("true"), Word("yes"), Word("on")}

(***************************************************************************)
(* ConfigNode: looking up directives.                                      *)
(***************************************************************************)

\* Mutant of Inherited: the outermost scope is searched first.
InheritedOutermost(n, names) ==
  LET down[m \in 0 .. n] ==
        LET found == {k \in Children(m) : nodes[k].name \in names}
            above == IF m = Root THEN Root ELSE down[nodes[m].parent]
        IN  IF above # Root \/ found = {} THEN above
            ELSE CHOOSE k \in found : \A j \in found : k <= j
  IN  down[n]

\* getOne with inheritance: the first directive with one of the names in the
\* closest scope around n that has any; Root if there is none.
Inherited(n, names) ==
  LET up[m \in 0 .. n] ==
        LET found == {k \in Children(m) : nodes[k].name \in names}
        IN  IF found # {} THEN CHOOSE k \in found : \A j \in found : k <= j
            ELSE IF m = Root THEN Root ELSE up[nodes[m].parent]
  IN  up[n]

\* search(name)
Search(name) == {n \in DOMAIN nodes : nodes[n].name = name}

\* The argument for a parameter, or its default.
Value(n, i, default) == IF i <= Len(nodes[n].args) THEN nodes[n].args[i] ELSE default

(***************************************************************************)
(* createServers and createLocation: servers and locations from the tree.  *)
(***************************************************************************)
\* The router that a directive asks for.
DirectiveOf(node) ==
  CASE node.name \in {Word("user_apps"), Word("user_dirs")} -> "user_dirs"
    [] node.name = Word("redirect") ->
         IF Len(node.args) >= 3 => node.args[3] \in Yes THEN "redirect_exact" ELSE "redirect"
    [] OTHER -> Head(node.name)

\* The segments of a location's path
PathOf(word) == SelectSeq(word, LAMBDA c : c # "/")

LocationsIn(s) == {n \in Search(Word("location")) : Inside(nodes, n, s)}

LocationOf(s, n) ==
  LET own == {k \in Children(n) : nodes[k].name \in HostingNames}
  IN  [parent |-> IF nodes[n].parent = s THEN 0 ELSE nodes[n].parent,
       path |-> PathOf(nodes[n].args[1]),
       directive |-> IF own = {} THEN "none" ELSE DirectiveOf(nodes[Inherited(n, HostingNames)])]

\* The host of a listen directive; what iputil.isValid accepts has an address.
HostOf(listen) ==
  LET host == Head(Value(listen, 2, Word("*")))
  IN  IF host = "*" THEN "::" ELSE host

ServerOf(s) ==
  LET listen == Inherited(s, {Word("listen")})
      named == Inherited(s, {Word("server_name")})
  IN  [port |-> Head(nodes[listen].args[1]),
       host |-> HostOf(listen),
       names |-> IF named = Root THEN {} ELSE {Head(w) : w \in ToSet(nodes[named].args)},
       locations |-> [n \in LocationsIn(s) |-> LocationOf(s, n)]]

Servers == [s \in Search(Word("server")) |-> ServerOf(s)]

(***************************************************************************)
(* What createRouter_p refuses.                                            *)
(***************************************************************************)

\* createServers: a server listens on a valid address.
Listens(s) ==
  LET listen == Inherited(s, {Word("listen")})
  IN  /\ listen # Root
      /\ nodes[listen].args[1] # Word("0")
      /\ HostOf(listen) \in DOMAIN AddressOf

\* createSiteDir and createAppDir: the apps have a user and a log;
\* createUserApps: they are enabled, and their groups exist.
Provided(l) ==
  LET node == Inherited(l, HostingNames)
      users == Inherited(l, {Word("run_as")})
      groups == Inherited(l, {Word("members_of")})
      is(names) == node # Root /\ nodes[node].name \in {Word(name) : name \in names}
  IN  /\ is({"site_dir", "app_dir"}) =>
           /\ users # Root /\ nodes[users].args # << >>
           /\ Inherited(l, {Word("log_dir")}) # Root
      /\ is({"user_apps", "user_dirs"}) =>
           /\ Value(node, 1, Word("on")) \in Yes
           /\ groups # Root => ToSet(nodes[groups].args) \subseteq Groups

\* checkPermissions
Permitted ==
  \/ doc.superuser
  \/ \A n \in DOMAIN nodes :
       /\ nodes[n].name = Word("run_as") => ToSet(nodes[n].args) \subseteq {ProcessUser}
       /\ nodes[n].name \notin {Word("user_apps"), Word("user_dirs")}
       /\ nodes[n].name = Word("listen") => nodes[n].args[1] \notin PrivilegedPorts

Usable ==
  /\ Permitted
  /\ \A s \in Search(Word("server")) : Listens(s)
  /\ \A l \in Search(Word("location")) : Provided(l)
  /\ Accepted(Servers)

NoServers == << >>
NoRequest == "no request"

ConfigurationInit ==
  /\ FileInit
  /\ config = NoServers
  /\ target = NoRequest /\ kind = "page" /\ files = << >> /\ apps = << >>
  /\ declined = {}
  /\ result = Pending

\* createRouter_p fails after the schema was applied; or, with the servers
\* made, the process exits because of a directive that is no longer supported.
Refuse ==
  /\ status = "valid"
  /\ \/ ~Usable /\ Reject("servers", NoPosition)
     \/ Usable /\ Search(Word("application")) # {} /\ Reject("exit", NoPosition)
  /\ UNCHANGED routingVars

\* new ConfigRouter, and the request that is going to be routed.
Configure ==
  /\ status = "valid"
  /\ Usable /\ Search(Word("application")) = {}
  /\ status' = "configured"
  /\ config' = Servers
  /\ target' \in Targets /\ kind' \in Kinds
  /\ files' \in FilesFor(Servers, target')
  /\ apps' \in AppsFor(Servers)
  /\ UNCHANGED <<doc, lexVars, treeVars, checked, error, declined, result>>

ConfigurationNext ==
  \/ FileNext /\ UNCHANGED routingVars
  \/ Configure \/ Refuse
  \/ status = "configured" /\ RoutingNext /\ UNCHANGED fileVars

ConfigurationSpec == ConfigurationInit /\ [][ConfigurationNext]_configurationVars

Configured == status = "configured"

\* The directives are a tree in pre-order, of which the last branch is being
\* read.
InPreOrder ==
  /\ InFileOrder(nodes)
  /\ scope \in 0 .. Len(nodes)
  /\ status = "parsing" => \A n \in scope + 1 .. Len(nodes) : Inside(nodes, n, scope)
  /\ open => nodes # << >>

\* How far applySchema has come, and what it has said.
SchemaApplied ==
  /\ checked \in 0 .. Len(nodes)
  /\ ~Configured => \A n \in 1 .. checked : Complaint(n) = NoError
  /\ status = "valid" \/ error.reason \in {"servers", "exit"} => checked = Len(nodes)
  /\ status = "rejected" <=> error.reason # "none"
  /\ error.reason \notin {"none", "syntax", "servers", "exit"} =>
       checked < Len(nodes) /\ error = Complaint(checked + 1)

\* In which order the routers are asked: there is always one that is next.
Routed ==
  /\ DOMAIN config \subseteq DOMAIN nodes
  /\ \A s \in DOMAIN config :
       /\ DOMAIN config[s].locations \subseteq DOMAIN nodes
       /\ InFileOrder(config[s].locations)
  /\ Accepted(config) /\ files \in FilesFor(config, target) /\ apps \in AppsFor(config)
  /\ AnswerOK /\ TiesAreAliases /\ TiesInFileOrder
  /\ \A r \in declined : Outcome(r) = "none"
  /\ Left # {} => \E r \in Left : First(r)
  /\ Answered =>
       /\ First(result.by)
       /\ \/ result.answer = Outcome(result.by)
          \/ kind = "sock" /\ result.answer = "thrown" /\ Outcome(result.by) = "content"
  /\ result = NoApp => Left = {}

\* The invariant: the lexer knows where it is, parser and schema do not get out
\* of step with the tree, and a request is routed to servers that createServers
\* accepts together, of which only those that are written in two ways tie.
ConfigurationInv ==
  /\ status = "parsing" => Here = PositionOf(data, offset + 1)
  /\ InPreOrder
  /\ SchemaApplied
  /\ Configured => Routed
  /\ ~Configured => result = Pending /\ declined = {}

\* Parsing is over, and nothing else has been done.
Parsed == (status = "checking" /\ checked = 0) \/ error.reason = "syntax"

(***************************************************************************)
(* A text is parsed if and only if it is well-formed, whatever is quoted,  *)
(* escaped or commented out in it; and if some character cannot come where *)
(* it is, that is the position of the error that is reported.              *)
(***************************************************************************)
SyntaxChecked ==
  Parsed =>
    /\ status = "checking" <=> WellFormed(data)
    /\ Faults(data) # {} =>
         error.at = PositionOf(data, CHOOSE i \in Faults(data) : \A j \in Faults(data) : i <= j)

\* The servers of a tree of directives, without a search in it: what is in the
\* block of a server or of a location counts for it, and the locations of a
\* server are those before the next directive that is in no block.
ServersIn(tree) ==
  LET named(name) == {n \in DOMAIN tree : tree[n].name = Word(name)}
      in(n, set) == {k \in set : tree[k].parent = n}
      the(set) == tree[CHOOSE k \in set : TRUE]
      hosting == {k \in DOMAIN tree : tree[k].name \in HostingNames}
      location(s, l) ==
        LET models == in(l, hosting)
        IN  [parent |-> IF tree[l].parent = s THEN 0 ELSE tree[l].parent,
             path |-> PathOf(tree[l].args[1]),
             directive |-> IF models = {} THEN "none" ELSE DirectiveOf(the(models))]
      server(s) ==
        LET address == the(in(s, named("listen"))).args
            names == UNION {ToSet(tree[k].args) : k \in in(s, named("server_name"))}
            within == {l \in named("location") :
                         s < l /\ \A n \in s + 1 .. l : tree[n].parent # Root}
        IN  [port |-> Head(address[1]),
             host |-> IF Len(address) < 2 \/ Head(address[2]) = "*" THEN "::" ELSE Head(address[2]),
             names |-> {Head(w) : w \in names},
             locations |-> [l \in within |-> location(s, l)]]
  IN  [s \in named("server") |-> server(s)]

(***************************************************************************)
(* The directives and their arguments are those that were written, in the  *)
(* blocks they were written in, however the words are quoted, separated    *)
(* and commented.  And createServers makes of them servers and locations   *)
(* that have addresses, names and hosting models of their own, and not     *)
(* those that getOne finds in the blocks around them.                      *)
(***************************************************************************)
ParsedAsWritten ==
  /\ Parsed /\ status = "checking" => nodes = DirectivesIn(data, Modes(data), Len(data))
  /\ status = "valid" /\ (\A s \in Search(Word("server")) : Listens(s)) => Servers = ServersIn(nodes)
  /\ Configured => config = ServersIn(nodes)

\* The rules, of the whole file at once.
Conforms ==
  /\ \A n \in DOMAIN nodes :
       LET node == nodes[n]
           rule == Rules[node.name]
           required == {i \in DOMAIN rule.params : rule.params[i].kind = "required"}
       IN  /\ node.name \in DOMAIN Rules
           /\ NameOf(node.parent) \in rule.at
           /\ required \subseteq DOMAIN node.args
           /\ \A i \in DOMAIN node.args :
                \E p \in DOMAIN rule.params :
                  /\ p = i \/ (p < i /\ rule.params[p].kind = "vararg")
                  /\ Converts(rule.params[p], node.args[i])
  /\ \A n \in DOMAIN nodes :
       LET siblings == Children(nodes[n].parent)
       IN  /\ Cardinality({m \in siblings : nodes[m].name = nodes[n].name})
                <= Rules[nodes[n].name].maxcount
           /\ \A m \in siblings : nodes[m].name \notin Rules[nodes[n].name].precludes

(***************************************************************************)
(* config/shiny-server-rules.config: a location has one hosting model.     *)
(***************************************************************************)
OneHostingModel ==
  \A n, m \in DOMAIN nodes :
    /\ nodes[n].name \in HostingNames /\ nodes[m].name \in HostingNames
    /\ nodes[n].parent = nodes[m].parent
    => n = m

(***************************************************************************)
(* applySchema, which goes through the file once and stops at the first    *)
(* complaint, accepts the files that conform to the rules and no others.   *)
(* So there is one hosting model, though "redirect" does not preclude the  *)
(* others, which preclude it, whichever is written first: createLocation   *)
(* would take the first.                                                   *)
(***************************************************************************)
SchemaEnforced ==
  /\ error.reason # "syntax" /\ status \in {"valid", "rejected"} =>
       (error.reason \in {"none", "servers", "exit"} <=> Conforms)
  /\ status = "valid" => OneHostingModel

=============================================================================
