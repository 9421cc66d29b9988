-------------------------- MODULE DirectoryLookup --------------------------
(***************************************************************************)
(* How a site_dir or the ShinyApps directory of a user answers a page: it  *)
(* looks for an app along the path of the URL, and serves files if there   *)
(* is none.                                                                *)
(*                                                                         *)
(*   lib/router/directory-router.js   DirectoryRouter                      *)
(*   lib/router/user-dirs-router.js   its blacklist                        *)
(*   lib/core/qutil.js                forEachPromise_p                     *)
(*                                                                         *)
(* A URL is what follows the prefix of the location, the sequence of what  *)
(* stands between slashes: "/a/b" is <<a, b>>, "/a/" is <<a, empty>>.      *)
(* A directory of the root is the sequence of its names.                   *)
(***************************************************************************)
EXTENDS Naturals, Sequences, SequencesExt, FiniteSets

CONSTANTS
  Requests,      \* requests
  Names,         \* names of files and directories, strings
  LogNames,      \* those that begin with "log"
  Segments,      \* segments of URLs that occur, see Segment
  MaxSegments,   \* bound: segments of a URL
  FileSystems,   \* states of the root directory and what is below it
  MaxChanges     \* bound: changes of it

\* A segment is a name, perhaps spelled with escapes, or of a special kind:
\* "hidden" begins with a dot, "blank" is spaces, "slash" has an escaped one.
Kinds == {"name", "empty", "hidden", "blank", "slash"}

Segment == [kind : Kinds, name : Names \cup {""}, escaped : BOOLEAN]

Empty == [kind |-> "empty", name |-> "", escaped |-> FALSE]

\* The files that decide what a directory is.  "reindex" is another file
\* with a name that ends in index.html.
Entries == {"app.R", "app.py", "doc.Rmd", "index.Rmd", "index.html", "reindex.html"}

Node == [is : {"none", "file", "dir"}, entries : SUBSET Entries]

Paths == {<< >>} \cup [1 .. 1 -> Names] \cup [1 .. 2 -> Names]

ASSUME DirectoryLookupAssumption ==
  /\ Names \subseteq STRING /\ LogNames \subseteq Names /\ "log" \in Names
  /\ Segments \subseteq Segment /\ Empty \in Segments
  /\ FileSystems \subseteq [Paths -> Node]
  /\ \A f \in FileSystems : \A p \in Paths \ {<< >>} :
       f[p].is # "none" => f[Front(p)].is = "dir"
  /\ MaxSegments \in Nat /\ MaxChanges \in Nat

Urls == UNION {[1 .. n -> Segments] : n \in 0 .. MaxSegments}

VARIABLES
  fs,        \* the file system
  changes,   \* changes of it
  userDirs,  \* the location is user_dirs: there is a blacklist
  dirIndex,  \* directory_index
  req        \* the requests: URL, stage, candidate that is looked at,
             \* redirections followed, directories that have been apps all
             \* the time or at some time, and the answer

vars == <<fs, changes, userDirs, dirIndex, req>>

Answers ==
  [is : {"none", "forbidden", "declined", "redirect", "file", "listing", "index", "app"},
   dir : Paths, raw : Urls]

TypeOK ==
  /\ fs \in FileSystems
  /\ changes \in 0 .. MaxChanges
  /\ userDirs \in BOOLEAN /\ dirIndex \in BOOLEAN
  /\ req \in [Requests ->
       [url : Urls, stage : {"new", "exists", "readdir", "static", "answered"},
        at : 1 .. MaxSegments + 1, hops : Nat,
        always : SUBSET Paths, been : SUBSET Paths, answer : Answers]]

NoAnswer == [is |-> "none", dir |-> << >>, raw |-> << >>]

\* What readdir tells of a directory.
IsApp(node) == node.is = "dir" /\ "app.R" \in node.entries
IsRmd(node) == node.is = "dir" /\ node.entries \cap {"doc.Rmd", "index.Rmd"} # {}
IsPyApp(node) == node.is = "dir" /\ "app.py" \in node.entries
Hosts(node) == IsApp(node) \/ IsRmd(node) \/ IsPyApp(node)

Apps == {p \in Paths : Hosts(fs[p])}

Nothing == [is |-> "none", entries |-> {}]

At(path) == IF path \in Paths THEN fs[path] ELSE Nothing

\* A missing index.Rmd, and an HTML index in its place.
HtmlIndex(node) ==
  /\ ~IsApp(node) /\ IsRmd(node) /\ "index.Rmd" \notin node.entries
  /\ node.entries \cap {"index.html", "reindex.html"} # {}

Init ==
  /\ fs \in FileSystems
  /\ changes = 0
  /\ userDirs \in BOOLEAN /\ dirIndex \in BOOLEAN
  /\ req \in [Requests -> [url : Urls, stage : {"new"}, at : {1}, hops : {0},
                           always : {{}}, been : {{}}, answer : {NoAnswer}]]

(***************************************************************************)
(* extractUnescapedDirs: the candidates, each with the number of segments  *)
(* that lead to it.  Null if a segment cannot be a name.                   *)
(***************************************************************************)
Unsafe(url) == url = << >> \/ \E i \in DOMAIN url : url[i].kind \in {"blank", "slash"}

Root == [path |-> << >>, raw |-> 0]

Element(outer, url, n) == [path |-> Append(outer.path, url[n].name), raw |-> n]

\* Mutant of Candidates: the innermost directory comes first.
CandidatesReversed(url) ==
  LET pathElements[n \in 0 .. Len(url)] ==
        IF n = 0 THEN <<Root>>
        ELSE IF url[n].kind # "name" THEN pathElements[n - 1]
        ELSE <<Element(Head(pathElements[n - 1]), url, n)>> \o pathElements[n - 1]
  IN  pathElements[Len(url)]

Candidates(url) ==
  LET pathElements[n \in 0 .. Len(url)] ==
        IF n = 0 THEN <<Root>>
        ELSE IF url[n].kind # "name" THEN pathElements[n - 1]
        ELSE Append(pathElements[n - 1], Element(Last(pathElements[n - 1]), url, n))
  IN  pathElements[Len(url)]

\* Hidden segments, and the blacklist of UserDirsRouter.
Forbidden(url) ==
  \/ \E i \in DOMAIN url : url[i].kind = "hidden"
  \/ /\ userDirs /\ url # << >>
     /\ url[1].kind = "name" /\ ~url[1].escaped /\ url[1].name \in LogNames

Answer(r, answer) == [req[r] EXCEPT !.stage = "answered", !.answer = answer]

Simple(is) == [NoAnswer EXCEPT !.is = is]

\* getAppSpec_p before anything is looked up.
Begin(r) ==
  LET url == req[r].url
  IN  /\ req[r].stage = "new"
      /\ req' = [req EXCEPT ![r] =
           IF Forbidden(url) THEN Answer(r, Simple("forbidden"))
           ELSE IF Unsafe(url) THEN Answer(r, Simple("declined"))
           ELSE [req[r] EXCEPT !.stage = "exists", !.at = 1, !.always = Apps, !.been = Apps]]
      /\ UNCHANGED <<fs, changes, userDirs, dirIndex>>

Candidate(r) == Candidates(req[r].url)[req[r].at]

\* Mutant of NextCandidate: the last one is not asked.
NextCandidateButLast(r) ==
  IF req[r].at + 1 < Len(Candidates(req[r].url))
  THEN [req[r] EXCEPT !.stage = "exists", !.at = @ + 1]
  ELSE [req[r] EXCEPT !.stage = "static"]

NextCandidate(r) ==
  IF req[r].at < Len(Candidates(req[r].url))
  THEN [req[r] EXCEPT !.stage = "exists", !.at = @ + 1]
  ELSE [req[r] EXCEPT !.stage = "static"]

\* isAppDir_p: fs.exists.  Where there is nothing the search ends.
Exists(r) ==
  /\ req[r].stage = "exists"
  /\ req' = [req EXCEPT ![r].stage =
       IF At(Candidate(r).path).is = "none" THEN "static" ELSE "readdir"]
  /\ UNCHANGED <<fs, changes, userDirs, dirIndex>>

\* Mutant of Complete: a slash at the end does not count.
CompleteWithSlash(url, raw) ==
  \A i \in DOMAIN url : i > raw => url[i].kind = "empty"

\* The URL ends with the name of the app's directory.
Complete(url, raw) == raw = Len(url)

\* isAppDir_p: readdir, of a directory, a file (ENOTDIR) or what is no more.
ReadDir(r) ==
  LET url == req[r].url
      c == Candidate(r)
      node == At(c.path)
      found == [NoAnswer EXCEPT !.dir = c.path, !.raw = SubSeq(url, 1, c.raw)]
  IN  /\ req[r].stage = "readdir"
      /\ req' = [req EXCEPT ![r] =
           CASE node.is = "file" -> [req[r] EXCEPT !.stage = "static"]
             [] node.is # "file" /\ ~Hosts(node) -> NextCandidate(r)
             [] Hosts(node) /\ Complete(url, c.raw) -> Answer(r, [found EXCEPT !.is = "redirect"])
             [] OTHER ->
                  IF HtmlIndex(node) /\ SubSeq(url, c.raw + 1, Len(url)) = <<Empty>>
                  THEN Answer(r, [found EXCEPT !.is = "index"])
                  ELSE Answer(r, [found EXCEPT !.is = "app"])]
      /\ UNCHANGED <<fs, changes, userDirs, dirIndex>>

\* $staticServe_p
Static(r) ==
  LET url == req[r].url
      node == At(Last(Candidates(url)).path)
      slash == url[Len(url)].kind = "empty"
      result == CASE node.is = "none" -> "declined"
                  [] node.is = "file" -> IF slash THEN "declined" ELSE "file"
                  [] node.is = "dir" ->
                       IF ~slash THEN "redirect"
                       ELSE IF "index.html" \in node.entries THEN "file"
                       ELSE IF dirIndex THEN "listing" ELSE "declined"
  IN  /\ req[r].stage = "static"
      /\ req' = [req EXCEPT ![r] = Answer(r, Simple(result))]
      /\ UNCHANGED <<fs, changes, userDirs, dirIndex>>

\* The browser follows the redirection, which has added a slash.
Follow(r) ==
  /\ req[r].stage = "answered" /\ req[r].answer.is = "redirect"
  /\ Len(req[r].url) < MaxSegments
  /\ req' = [req EXCEPT ![r].url = Append(@, Empty), ![r].stage = "new",
                        ![r].hops = @ + 1, ![r].answer = NoAnswer]
  /\ UNCHANGED <<fs, changes, userDirs, dirIndex>>

\* A file or directory comes, goes or changes while others are looked at.
Change ==
  /\ changes < MaxChanges
  /\ changes' = changes + 1
  /\ fs' \in {f \in FileSystems : Cardinality({p \in Paths : f[p] # fs[p]}) = 1}
  /\ req' = [r \in Requests |->
       [req[r] EXCEPT !.always = @ \cap {p \in Paths : Hosts(fs'[p])},
                      !.been = @ \cup {p \in Paths : Hosts(fs'[p])}]]
  /\ UNCHANGED <<userDirs, dirIndex>>

Next ==
  \/ Change
  \/ \E r \in Requests : Begin(r) \/ Exists(r) \/ ReadDir(r) \/ Static(r) \/ Follow(r)

Spec == Init /\ [][Next]_vars

Along(r) == {Candidates(req[r].url)[i].path : i \in DOMAIN Candidates(req[r].url)}

(***************************************************************************)
(* Whatever files come and go meanwhile: the app that answers has been     *)
(* there, and none further out on the path has been there all the time.    *)
(***************************************************************************)
OutermostAnswers ==
  \A r \in Requests : req[r].answer.is \in {"app", "index"} =>
    /\ req[r].answer.dir \in req[r].been
    /\ \A p \in Along(r) : Len(p) < Len(req[r].answer.dir) => p \notin req[r].always

(***************************************************************************)
(* An app on the path that has been there all the time is not missed:      *)
(* neither its files are served nor are other routers asked.               *)
(***************************************************************************)
NoAppMissed ==
  \A r \in Requests :
    /\ req[r].answer.is \in {"file", "listing", "declined"}
    /\ ~Unsafe(req[r].url)
    => Along(r) \cap req[r].always = {}

(***************************************************************************)
(* Who has been redirected is not redirected again.                        *)
(***************************************************************************)
RedirectedOnce == \A r \in Requests : req[r].hops <= 1

Underway(r) == req[r].stage \in {"exists", "readdir", "static"}

\* The candidates that are no apps, as far as the look-up knows.
Excluded(r) ==
  IF req[r].stage = "static" THEN DOMAIN Candidates(req[r].url) ELSE 1 .. req[r].at - 1

\* What a look-up relies on: apps that have been there all the time are there
\* now and not behind it.
Progress ==
  \A r \in Requests :
    /\ req[r].always \subseteq Apps
    /\ req[r].stage # "answered" => req[r].answer = NoAnswer
    /\ Underway(r) =>
         /\ ~Unsafe(req[r].url)
         /\ Apps \subseteq req[r].been
         /\ req[r].stage # "static" => req[r].at <= Len(Candidates(req[r].url))
         /\ \A i \in Excluded(r) : Candidates(req[r].url)[i].path \notin req[r].always

\* What a redirection adds is a slash, and with it no other follows.
Redirections ==
  \A r \in Requests :
    /\ req[r].hops > 0 => req[r].url # << >> /\ Last(req[r].url).kind = "empty"
    /\ req[r].answer.is = "redirect" => req[r].hops = 0

\* The invariant of a look-up and of the redirections it leads to.
Inv == TypeOK /\ RedirectedOnce /\ Redirections /\ Progress

(***************************************************************************)
(* user-dirs-router.js:81: the blacklist is to "Exclude log dir."  Nothing *)
(* else of a user's is forbidden but what is hidden.                       *)
(***************************************************************************)
ForbiddenIsLog ==
  \A r \in Requests : req[r].answer.is = "forbidden" =>
    LET url == req[r].url
    IN  \/ url[1].name = "log"
        \/ \E i \in DOMAIN url : url[i].kind = "hidden"

(***************************************************************************)
(* directory-router.js:107, of what is served instead of starting an Rmd   *)
(* document: "we DO have an index.html file".                              *)
(***************************************************************************)
IndexIsThere ==
  \A r \in Requests : req[r].answer.is = "index" /\ changes = 0 =>
    "index.html" \in fs[req[r].answer.dir].entries

(***************************************************************************)
(* config/shiny-server-rules.config:180: simple_scheduler "will spawn one  *)
(* single-threaded R worker for each application".  Schedulers are found   *)
(* by AppSpec.getKey, which has the prefix in it, so it must not depend on *)
(* how a URL is spelled.                                                   *)
(***************************************************************************)
OneKeyPerApp ==
  \A r, s \in Requests :
    /\ req[r].answer.is = "app" /\ req[s].answer.is = "app"
    /\ req[r].answer.dir = req[s].answer.dir
    => req[r].answer.raw = req[s].answer.raw

=============================================================================
