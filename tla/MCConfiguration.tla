-------------------------- MODULE MCConfiguration --------------------------
(* Pairs of servers that differ in host and names, or in how they write    *)
(* them, with nested locations; locations with any two or three directives;*)
(* directives at any place with any number of arguments; and all short     *)
(* texts over the characters the lexer tells apart.                        *)
EXTENDS Configuration

Loc(parent, path, directive) == [parent |-> parent, path |-> path, directive |-> directive]

Site == <<Loc(0, << >>, "site_dir"), Loc(1, <<"a">>, "none"), Loc(2, <<"b">>, "app_dir")>>

Mixed == <<Loc(0, <<"a">>, "redirect_exact"), Loc(0, << >>, "none"),
           Loc(2, <<"a">>, "app_dir"), Loc(2, <<"a", "b">>, "redirect")>>

Users == <<Loc(0, <<"a">>, "user_dirs"), Loc(1, <<"b">>, "redirect")>>

MCServer(host, names, locations) ==
  [port |-> "80", host |-> host, names |-> names, locations |-> locations]

Hosts == {"::", "0.0.0.0", "ip1"}
NameSets == {{}, {"n"}, {"N", "m"}}

MCAddressOf == [h \in Hosts |-> IF h = "ip1" THEN h ELSE Wildcard]
MCLowerCase == [N |-> "n"]

MCConfigs ==
  {<<MCServer(h1, n1, Mixed), MCServer(h2, n2, Mixed)>> :
     h1 \in Hosts, h2 \in Hosts, n1 \in NameSets, n2 \in NameSets}
  \cup {<<MCServer(h1, n1, Site), MCServer("::", {"N", "m"}, Mixed)>> :
          h1 \in {"::", "ip1"}, n1 \in {{}, {"n"}}}
  \cup {<<MCServer("::", {}, Users)>>}

MCTargets ==
  [port : {"80"}, ip : {"ip1", "ip2"}, name : {"N", "other"},
   path : {<<"a">>, <<"a", "b">>}, slash : BOOLEAN]
  \cup [port : {"81"}, ip : {"ip1"}, name : {"n"}, path : {<<"a">>}, slash : {TRUE}]

(* The rules of config/shiny-server-rules.config for these directives.     *)
Param(need) == [kind |-> need, type |-> "String"]
TypedParam(need, type) == [kind |-> need, type |-> type]

Names(set) == {Word(name) : name \in set}
Rule(at, maxcount, params, precludes) ==
  [at |-> at, maxcount |-> maxcount, params |-> params, precludes |-> Names(precludes)]

InLocation == {Word("location")}
Anywhere == Names({"$", "server", "location"})
Required == <<Param("required")>>

MCRules ==
  [name \in Names({"server", "listen", "server_name", "location", "site_dir", "user_apps",
                   "user_dirs", "app_dir", "redirect", "log_dir", "run_as", "members_of",
                   "application"}) |->
   CASE Head(name) = "server" -> Rule({RootName}, Unlimited, << >>, {})
     [] Head(name) = "listen" ->
          Rule(Names({"server"}), 1, <<TypedParam("required", "Integer"), Param("optional")>>, {})
     [] Head(name) = "server_name" -> Rule(Names({"server"}), 1, <<Param("vararg")>>, {})
     [] Head(name) = "location" ->
          Rule(Names({"server", "location"}), Unlimited, Required, {})
     [] Head(name) = "site_dir" ->
          Rule(InLocation, 1, Required, {"user_apps", "app_dir", "redirect", "user_dirs"})
     [] Head(name) = "user_apps" ->
          Rule(InLocation, 1, <<TypedParam("optional", "Boolean")>>,
               {"app_dir", "redirect", "log_dir", "run_as", "user_dirs", "site_dir"})
     [] Head(name) = "user_dirs" ->
          Rule(InLocation, 1, <<TypedParam("optional", "Boolean")>>,
               {"app_dir", "redirect", "log_dir", "site_dir", "user_apps"})
     [] Head(name) = "app_dir" ->
          Rule(InLocation, 1, Required, {"redirect", "user_apps", "site_dir", "user_dirs"})
     [] Head(name) = "redirect" ->
          Rule(InLocation, 1, <<Param("required"), TypedParam("optional", "Integer"),
                           TypedParam("optional", "Boolean")>>,
               {"log_dir"})
     [] Head(name) = "log_dir" -> Rule(Anywhere, 1, Required, {})
     [] Head(name) \in {"run_as", "members_of"} ->
          Rule(Anywhere, 1, <<Param("vararg")>>, {})
     [] Head(name) = "application" -> Rule(InLocation, Unlimited, Required, {})]

(* Directives to write: in the order of the file, each with a key and the  *)
(* key of the one it is in.                                                *)
Entry(key, within, name, args) ==
  [key |-> key, within |-> within, name |-> Word(name), args |-> args]

Top == <<0, 0>>
Leaf == << >>

TreeOf(entries) ==
  [i \in DOMAIN entries |->
     [name |-> entries[i].name, args |-> entries[i].args,
      parent |-> IF entries[i].within = Top THEN Root
                 ELSE CHOOSE k \in DOMAIN entries : entries[k].key = entries[i].within]]

Defaults == <<Entry(Leaf, Top, "run_as", <<Word("shiny")>>),
              Entry(Leaf, Top, "log_dir", <<Word("log")>>)>>

PathWord(path) == IF path = << >> THEN Word("/") ELSE path

Hosting(directive, within) ==
  IF directive = "none" THEN << >>
  ELSE IF directive = "redirect"
  THEN <<Entry(Leaf, within, "redirect", <<Word("url"), Word("301"), Word("false")>>)>>
  ELSE IF directive = "redirect_exact"
  THEN <<Entry(Leaf, within, "redirect", <<Word("url")>>)>>
  ELSE IF directive = "user_dirs" THEN <<Entry(Leaf, within, "user_dirs", << >>)>>
  ELSE <<Entry(Leaf, within, directive, <<Word("dir")>>)>>

EntriesOf(servers) ==
  Defaults \o FlattenSeq([s \in DOMAIN servers |->
    LET srv == servers[s]
        host == IF srv.host # "::" THEN <<Word(srv.host)>>
                ELSE IF s = 1 THEN << >> ELSE <<Word("*")>>
        names == SetToSeq(Names(srv.names))
    IN  <<Entry(<<s, 0>>, Top, "server", << >>),
          Entry(Leaf, <<s, 0>>, "listen", <<Word(srv.port)>> \o host)>>
        \o (IF names = << >> THEN << >> ELSE <<Entry(Leaf, <<s, 0>>, "server_name", names)>>)
        \o FlattenSeq([l \in DOMAIN srv.locations |->
             LET loc == srv.locations[l]
             IN  <<Entry(<<s, l>>, <<s, loc.parent>>, "location", <<PathWord(loc.path)>>)>>
                 \o Hosting(loc.directive, <<s, l>>)])])

(* Ways to write them.                                                     *)
Styles == {"plain", "quoted", "escaped"}

WordText(w, style) ==
  CASE style = "plain" -> w \o <<" ">>
    [] style = "quoted" -> <<"'">> \o w \o <<"'", "\n">>
    [] style = "escaped" -> <<"\"">> \o FlattenSeq([i \in DOMAIN w |-> <<"\\", w[i]>>]) \o <<"\"">>

Remark(style) ==
  IF style = "plain" THEN << >> ELSE <<"#", "{", "\"", "\r", "\n", ";">>

Written(tree, style) ==
  LET inside(n, a) == LET up[m \in 0 .. n] == m # 0 /\ (tree[m].parent = a \/ up[tree[m].parent])
                      IN  up[n]
      closed(n) == {a \in 1 .. n - 1 : inside(n, a) /\ (n = Len(tree) \/ ~inside(n + 1, a))}
      opens(n) == n < Len(tree) /\ tree[n + 1].parent = n
      words(n) == WordText(tree[n].name, style)
                  \o FlattenSeq([i \in DOMAIN tree[n].args |-> WordText(tree[n].args[i], style)])
  IN  FlattenSeq([n \in DOMAIN tree |->
        words(n) \o (IF opens(n) THEN <<"{">> ELSE <<";">>) \o Remark(style)
        \o [i \in 1 .. Cardinality(closed(n)) |-> "}"]])

\* A configuration by the numbers of its directives.
Numbered(servers) ==
  LET entries == EntriesOf(servers)
      number(key) == CHOOSE k \in DOMAIN entries : entries[k].key = key
      locations(s) ==
        [k \in {number(<<s, l>>) : l \in DOMAIN servers[s].locations} |->
           LET loc == servers[s].locations[entries[k].key[2]]
           IN  [loc EXCEPT !.parent = IF @ = 0 THEN 0 ELSE number(<<s, @>>)]]
  IN  [k \in {number(<<s, 0>>) : s \in DOMAIN servers} |->
         [servers[entries[k].key[1]] EXCEPT !.locations = locations(entries[k].key[1])]]

\* A text with the directives, and the servers if they are known, it was made of.
Sample(tree, style, servers) ==
  [text |-> Written(tree, style), tree |-> tree, servers |-> servers]

Read(samples, superusers) == [text : {sample.text : sample \in samples}, superuser : superusers]

\* The files that createServers accepts; the only ones of the run on the
\* order of the servers.
Accepting == {Sample(TreeOf(EntriesOf(c)), "plain", {Numbered(c)}) : c \in {c \in MCConfigs : Accepted(c)}}

MCServers == Read(Accepting, {TRUE})

Clashing == {Sample(TreeOf(EntriesOf(c)), "plain", {Numbered(c)}) : c \in {c \in MCConfigs : ~Accepted(c)}}

Styled ==
  {Sample(TreeOf(EntriesOf(<<MCServer("::", {"n", "m"}, l)>>)), style, {}) :
     l \in {Mixed, Users}, style \in Styles}

Private == {Sample(TreeOf(EntriesOf(<<MCServer("::", {}, Mixed)>>)), "plain", {})}

Served == MCServers \cup Read(Styled \cup Clashing, {TRUE}) \cup Read(Private, {FALSE})

(* A location with some directives in it.                                  *)
Within2 == {"site_dir", "user_apps", "user_dirs", "app_dir", "redirect", "log_dir", "run_as",
            "members_of", "application"}

LocationWith(names) ==
  Defaults \o <<Entry(<<1, 0>>, Top, "server", << >>),
                Entry(Leaf, <<1, 0>>, "listen", <<Word("8080")>>),
                Entry(<<1, 1>>, <<1, 0>>, "location", <<Word("/")>>)>>
  \o [i \in DOMAIN names |-> Entry(Leaf, <<1, 1>>, names[i],
                               CASE names[i] = "user_dirs" -> << >>
                                 [] names[i] = "user_apps" -> <<Word("off")>>
                                 [] names[i] = "members_of" /\ i = 1 -> <<Word("nobody")>>
                                 [] OTHER -> <<Word("shiny")>>)]

Pairs == [1 .. 2 -> Within2]
Triples == {t \in [1 .. 3 -> Within2] : t[1] = "log_dir" \/ t[2] = "run_as"}

Located ==
  LET samples(lists) == {Sample(TreeOf(LocationWith(names)), "plain", {}) : names \in lists}
  IN  [all |-> samples(Pairs \cup Triples), private |-> samples(Pairs)]

(* One directive at some place.                                            *)
PlacedAt(name, place, args) ==
  LET within == IF place = 0 THEN Top ELSE <<1, place - 1>>
  IN  <<Entry(<<1, 0>>, Top, "server", << >>),
        Entry(Leaf, <<1, 0>>, "server_name", <<Word("n")>>),
        Entry(<<1, 1>>, <<1, 0>>, "location", <<Word("a")>>),
        Entry(Leaf, within, name, args)>>

\* Of those the last is in the server's block, the order is another.
Reordered(entries) ==
  IF entries[4].within = <<1, 0>> THEN <<entries[1], entries[2], entries[4], entries[3]>>
  ELSE entries

Scattered ==
  {Sample(TreeOf(Reordered(PlacedAt(name, place, args))), "quoted", {}) :
     name \in {Head(n) : n \in DOMAIN MCRules} \cup {"other"}, place \in 0 .. 2,
     args \in {<< >>, <<Word("80")>>, <<Word("80"), Word("ip1")>>, <<Word("x")>>,
               <<Word("x"), Word("80"), Word("false"), Word("x")>>}}

(* Short texts.                                                            *)
Texts(chars, n) == UNION {[1 .. k -> chars] : k \in 0 .. n}

Lexical ==
  {[text |-> t, superuser |-> TRUE] :
     t \in Texts({"a", "{", "}", ";", "#", "'", "\"", "\\", "\n", "\r", " ", "control"}, 3)
           \cup Texts({"a", "{", "}", ";"}, 6)
           \cup Texts({"a", "'", "\\", ";"}, 5)
           \cup Texts({"a", "\r", "\n", "#", ";"}, 4)}

MCDocuments ==
  Served \cup Read(Located.all \cup Scattered, {TRUE}) \cup Read(Located.private, {FALSE}) \cup Lexical

\* What DirectivesIn and ServersIn make of a text is what it was made of.
ASSUME TextsSayWhatWasWritten ==
  \A sample \in Accepting \cup Clashing \cup Styled \cup Located.all \cup Scattered :
    LET text == StripCR(sample.text)
        found == DirectivesIn(text, Modes(text), Len(text))
    IN  /\ WellFormed(text)
        /\ [n \in DOMAIN found |->
              [name |-> found[n].name, args |-> found[n].args, parent |-> found[n].parent]]
           = sample.tree
        /\ \A servers \in sample.servers : ServersIn(found) = servers

MCTypedWords ==
  [Integer |-> {Word("80"), Word("8080"), Word("301"), Word("0")},
   Boolean |-> Names({"true", "yes", "on", "false", "no", "off"})]
MCProcessUser == Word("shiny")
MCPrivilegedPorts == {Word("80")}
MCGroups == {Word("shiny")}

=============================================================================
