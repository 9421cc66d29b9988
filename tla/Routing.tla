------------------------------ MODULE Routing ------------------------------
(***************************************************************************)
(* Which location of the configuration answers a request:                  *)
(* lib/router/config-router.js (servers, their scores, locations),         *)
(* lib/router/router.js (the routers of locations) and                     *)
(* qutil.forEachPromise_p, which asks them one after the other.            *)
(*                                                                         *)
(* Servers and locations have numbers, which are in the order of the file. *)
(* A configuration has a server for some of them, and a server locations   *)
(* for others, each with the number of the location it is nested in, or 0. *)
(* Paths are sequences of segments.  What a router finds in its directory  *)
(* for a request is an input ("files" and "apps").                         *)
(*                                                                         *)
(* A request is for a page, with a response to write to, or a SockJS       *)
(* connection, which an app's page opens, without one.  What becomes of a  *)
(* router's attempt to write follows from that.                            *)
(***************************************************************************)
EXTENDS Naturals, Sequences, SequencesExt, FiniteSets

CONSTANTS
  Targets,    \* what a request is for: [port, ip, name, path, slash]
  AddressOf,  \* hosts as they are written -> addresses that iputil.equal tells apart
  LowerCase   \* names that have capitals -> names in lower case

Directives == {"none", "app_dir", "site_dir", "user_dirs", "redirect", "redirect_exact"}

\* Those whose routers look into directories: DirectoryRouter, UserDirsRouter.
Browsing == {"site_dir", "user_dirs"}

Kinds == {"page", "sock"}

\* The address of all wildcards; no request comes in on it.
Wildcard == "any"

Lower(name) == IF name \in DOMAIN LowerCase THEN LowerCase[name] ELSE name

ASSUME RoutingAssumption ==
  \A t \in Targets : /\ t.slash \in BOOLEAN /\ (t.path = << >> => t.slash)
                     /\ t.ip # Wildcard

VARIABLES
  config,    \* the configuration that was loaded
  kind,      \* of the request
  target,    \* what it is for
  files,     \* what each router that looks into directories finds there
  apps,      \* and each app_dir's in its own
  declined,  \* the routers that have been asked and have no answer
  result     \* the answer and who gave it

inputs == <<config, kind, target, files, apps>>
routingVars == <<inputs, declined, result>>

(***************************************************************************)
(* createServers and createLocation.                                       *)
(***************************************************************************)

\* ConfigNode.getOne with inheritance: l or the closest location around it
\* that has one of the routing directives; 0 if there is none.
HostingNode(locs, l) ==
  LET up[i \in {0} \cup DOMAIN locs] ==
        IF i = 0 \/ locs[i].directive # "none" THEN i ELSE up[locs[i].parent]
  IN  up[l]

\* deriveLocationPath
LocationPath(locs, l) ==
  LET full[i \in {0} \cup DOMAIN locs] ==
        IF i = 0 THEN << >> ELSE full[locs[i].parent] \o locs[i].path
  IN  full[l]

\* A location, or a directive of a tree of them, is in another.
Inside(locs, inner, outer) ==
  LET within[i \in {0} \cup DOMAIN locs] ==
        i # 0 /\ (locs[i].parent = outer \/ within[locs[i].parent])
  IN  within[inner]

\* The numbers are in the order of the file: between a location and the one it
\* is nested in there are only others nested in that one.
InFileOrder(locs) ==
  \A l \in DOMAIN locs :
    LET outer == locs[l].parent
    IN  /\ outer \in {0} \cup DOMAIN locs /\ outer < l
        /\ \A m \in DOMAIN locs : outer < m /\ m < l => Inside(locs, m, outer)

Terminal(locs, l) == \A i \in DOMAIN locs : locs[i].parent # l

\* createLocation throws, or the location is dropped by _.compact if it only
\* has others in it.
LocationAccepted(locs, l) ==
  LET node == HostingNode(locs, l)
  IN  IF node = 0 THEN ~Terminal(locs, l)
      ELSE locs[node].directive = "app_dir" => node = l

\* Mutant of PostOrder: the order of the file.
FileOrder(locs, a, b) == a < b

\* ConfigNode.search in post-order: what is nested comes first.
PostOrder(locs, a, b) == Inside(locs, a, b) \/ (a < b /\ ~Inside(locs, b, a))

\* Mutant of ServerKeys: _.each(serverNames || [])
NamedKeys(server) == {<<server.host, server.port, n>> : n \in server.names}

\* The keys under which createServers remembers a server: as it is written.
ServerKeys(server) ==
  {<<server.host, server.port, n>> :
     n \in IF server.names = {} THEN {""} ELSE server.names}

Accepted(servers) ==
  /\ \A s, t \in DOMAIN servers :
       s # t => ServerKeys(servers[s]) \cap ServerKeys(servers[t]) = {}
  /\ \A s \in DOMAIN servers : \A l \in DOMAIN servers[s].locations :
       LocationAccepted(servers[s].locations, l)

(***************************************************************************)
(* ServerRouter.getScore                                                   *)
(***************************************************************************)
HostScore(server, t) ==
  IF AddressOf[server.host] = Wildcard THEN 1     \* iputil.isWildcard
  ELSE IF AddressOf[server.host] = t.ip THEN 2 ELSE 0

NamesOf(server) == {Lower(n) : n \in server.names}

NameMatches(server, t) == server.names = {} \/ Lower(t.name) \in NamesOf(server)

Score(server, t) ==
  IF server.port = t.port /\ HostScore(server, t) > 0 /\ NameMatches(server, t)
  THEN HostScore(server, t) + (IF server.names = {} THEN 0 ELSE 3)
  ELSE 0

(***************************************************************************)
(* A server's $locations have routers, but those that were dropped.        *)
(***************************************************************************)
RoutersIn(servers, s) ==
  LET locs == servers[s].locations
  IN  {[server |-> s, location |-> l] : l \in {l \in DOMAIN locs : HostingNode(locs, l) # 0}}

AllRouters(servers) == UNION {RoutersIn(servers, s) : s \in DOMAIN servers}

\* Those that are asked.
Asked(servers, t) == {r \in AllRouters(servers) : Score(servers[r.server], t) > 0}

(***************************************************************************)
(* The order in which they are asked.  The servers are meant to be sorted  *)
(* by score, but the comparator returns a Boolean: never a negative        *)
(* number, so that the sort of Node 12 and later finds the array in order. *)
(***************************************************************************)
Before(servers, q, r) ==
  \/ q.server < r.server
  \/ q.server = r.server /\ PostOrder(servers[q.server].locations, q.location, r.location)

(***************************************************************************)
(* What the router of a location answers: "app" is an AppSpec, "content"   *)
(* is true (it has responded), "none" is null, "error" is a rejection.     *)
(* "thrown" is no answer but an exception out of every promise: it ends    *)
(* the server, by "uncaughtException".                                     *)
(***************************************************************************)

\* RedirectRouter: without a response there is nothing to redirect.
Redirects(exact, root, t) ==
  kind = "page" /\ IF exact THEN t.path = root ELSE IsPrefix(root, t.path)

\* SingleAppRouter: a missing slash is added by a redirection, and a document
\* without index.Rmd is shown its index.html, whoever asks.
SingleApp(path, t, found) ==
  IF t.path = path /\ ~t.slash THEN (IF kind = "page" THEN "content" ELSE "none")
  ELSE IF found = "unreadable" THEN "error"
  ELSE IF found = "index" /\ t.path = path THEN "content" ELSE "app"

\* What a DirectoryRouter finds that it writes about before its promise is
\* settled, so that it fails if there is no response ...
WrittenInPromise == {"hidden", "app without slash", "listing"}

\* ... or that send writes, later and out of the promise: it is never settled.
WrittenBySend == {"file", "directory without slash"}

\* An index.html, of a document or a directory, is announced before it is
\* written.
Announced == {"index", "directory with index"}

Shown == WrittenInPromise \cup WrittenBySend \cup Announced

Found(t) ==
  {"app", "none", "error", "hidden"}
  \cup IF t.slash THEN {"index", "directory with index", "listing"}
       ELSE {"app without slash", "directory without slash", "file"}

\* DirectoryRouter
Answer(found) ==
  IF found \notin Shown THEN found
  ELSE IF kind = "page" \/ found \in Announced THEN "content"
  ELSE IF found \in WrittenInPromise THEN "error" ELSE "thrown"

Outcome(r) ==
  LET locs == config[r.server].locations
      node == HostingNode(locs, r.location)
      path == LocationPath(locs, r.location)
      root == LocationPath(locs, node)
      directive == locs[node].directive
  IN  IF ~IsPrefix(path, target.path) THEN "none"      \* PrefixFilterRouter
      ELSE CASE directive \in Browsing -> Answer(files[r])
             [] directive = "app_dir"  -> SingleApp(path, target, apps[r])
             [] OTHER -> IF Redirects(directive = "redirect_exact", root, target)
                         THEN "content" ELSE "none"

RoutersOf(servers, directives) ==
  {r \in AllRouters(servers) :
     LET locs == servers[r.server].locations
     IN  locs[HostingNode(locs, r.location)].directive \in directives}

\* What the file system may hold for a request.
FilesFor(servers, t) == [RoutersOf(servers, Browsing) -> Found(t)]

AppsFor(servers) == [RoutersOf(servers, {"app_dir"}) -> {"app", "index", "unreadable"}]

Pending == [answer |-> "pending"]
NoApp == [answer |-> "none"]

AnswerOK ==
  /\ target \in Targets
  /\ kind \in Kinds
  /\ declined \subseteq Asked(config, target)
  /\ \/ result \in {Pending, NoApp}
     \/ /\ result.answer \in {"app", "content", "error", "thrown"}
        /\ result.by \in Asked(config, target)

\* The routers that are left, and whether r is the first of them.
Left == Asked(config, target) \ declined

First(r) == r \in Left /\ \A q \in Left \ {r} : Before(config, r, q)

\* Mutant of Ask: the first answer is taken, whatever it is.
AskOnce(r) ==
  /\ result = Pending
  /\ First(r)
  /\ result' = IF Outcome(r) = "none" THEN NoApp ELSE [answer |-> Outcome(r), by |-> r]
  /\ UNCHANGED <<inputs, declined>>

\* forEachPromise_p: the next router answers.
Ask(r) ==
  /\ result = Pending
  /\ First(r)
  /\ IF Outcome(r) = "none"
     THEN declined' = declined \cup {r} /\ UNCHANGED result
     ELSE result' = [answer |-> Outcome(r), by |-> r] /\ UNCHANGED declined
  /\ UNCHANGED inputs

\* No router is left: the default value.
GiveUp ==
  /\ result = Pending
  /\ Left = {}
  /\ result' = NoApp
  /\ UNCHANGED <<inputs, declined>>

\* What was announced is written, and there is no response to write it to.
WriteToNobody ==
  /\ kind = "sock" /\ result.answer = "content"
  /\ result' = [answer |-> "thrown", by |-> result.by]
  /\ UNCHANGED <<inputs, declined>>

RoutingNext ==
  \/ GiveUp \/ WriteToNobody
  \/ \E r \in Asked(config, target) : Ask(r)

\* A router has ended the search.
Answered == result.answer \in {"app", "content", "error", "thrown"}

(***************************************************************************)
(* config-router.js:219: "Use post-order traversal so that nested locs get *)
(* priority over their parents."  When a location answers, those inside it *)
(* have had their chance and declined, at any depth and whatever comes     *)
(* between them in the file.                                               *)
(***************************************************************************)
InnermostFirst ==
  Answered =>
    \A r \in AllRouters(config) :
      /\ r.server = result.by.server
      /\ Inside(config[r.server].locations, r.location, result.by.location)
      => Outcome(r) = "none"

(***************************************************************************)
(* A request is answered by a server that is meant for its address and     *)
(* name, and it is a 404 only if no location of such a server has an       *)
(* answer.                                                                 *)
(***************************************************************************)
NoneSkipped ==
  LET meant == {s \in DOMAIN config :
                  /\ config[s].port = target.port
                  /\ AddressOf[config[s].host] \in {Wildcard, target.ip}
                  /\ NameMatches(config[s], target)}
  IN  /\ Answered => result.by.server \in meant
      /\ result = NoApp =>
           \A r \in AllRouters(config) : r.server \in meant => Outcome(r) = "none"

Tied(s, t) ==
  /\ s # t
  /\ Score(config[s], target) > 0
  /\ Score(config[s], target) = Score(config[t], target)

(***************************************************************************)
(* createServers refuses two servers that are meant for the same address   *)
(* and name, by comparing what is written.  Two that it accepts have the   *)
(* same score for a request only if they write one address, a wildcard     *)
(* say, or one name in two ways.                                           *)
(***************************************************************************)
TiesAreAliases ==
  \A s, t \in DOMAIN config : Tied(s, t) =>
    LET a == config[s]
        b == config[t]
    IN  /\ AddressOf[a.host] = AddressOf[b.host]
        /\ NamesOf(a) = NamesOf(b) \/ NamesOf(a) \cap NamesOf(b) # {}
        /\ a.host = b.host => a.names \cap b.names = {} /\ a.names # b.names

(***************************************************************************)
(* config-router.js:275: "if two servers have the same score then they are *)
(* tried in the order they are found in the configuration file".           *)
(***************************************************************************)
TiesInFileOrder ==
  Answered =>
    \A r \in AllRouters(config) :
      Tied(r.server, result.by.server) /\ r.server < result.by.server => Outcome(r) = "none"

(***************************************************************************)
(* config-router.js:273: "This score helps determine the order in which    *)
(* servers will be tried for a given request. Higher scores are tried      *)
(* first".  So the answer comes from the best server that has one.         *)
(***************************************************************************)
BestServerFirst ==
  Answered =>
    \A r \in AllRouters(config) :
      Score(config[r.server], target) > Score(config[result.by.server], target)
      => Outcome(r) = "none"

=============================================================================
