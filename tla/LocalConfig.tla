---------------------------- MODULE LocalConfig ----------------------------
(***************************************************************************)
(* The local configuration of one app: its directory may hold a file       *)
(* .shiny_app.conf, which overrides some of the settings of its location,  *)
(* and a file restart.txt, which asks for a new worker when it is touched. *)
(*                                                                         *)
(*   lib/router/router.js               RestartRouter, SingleAppRouter     *)
(*   lib/router/local-config-router.js  LocalConfigRouter                  *)
(*   lib/config/app-config.js           AppConfig: the cache and merge     *)
(*   lib/router/config-router-util.js   parseApplication                   *)
(*   lib/router/directory-router.js     a deep copy of the settings        *)
(*   lib/router/user-dirs-router.js     whose app it is and who it runs as *)
(*   lib/router/squash-run-as-router.js                                    *)
(*   lib/worker/app-spec.ts             getKey                             *)
(*   lib/scheduler/                     schedulers by key, vacantSched     *)
(*                                                                         *)
(* Of the settings there are idle (app_idle_timeout, in appDefaults) and   *)
(* max (maxRequests of simple_scheduler).  Both are in nested objects,     *)
(* which the AppSpecs of an app_dir location share with the router, and    *)
(* with one another; other locations clone them for each.                  *)
(*                                                                         *)
(* In a user_dirs or user_apps location the app is in the home directory   *)
(* of a user, whom the URL names; others ask there in vain.  The URL may   *)
(* name whatever it likes, a special name of run_as too.                   *)
(***************************************************************************)
EXTENDS Naturals, Sequences, SequencesExt, FiniteSets

CONSTANTS
  Requests,      \* requests for the app
  Locations,     \* see Location
  Names,         \* of users
  Owner,         \* whose app it is
  Special,       \* special names
  HomeUser,      \* ":HOME_USER:", one of them
  Nobody,        \* undefined
  Global,        \* the settings of the location, [idle, max]
  Contents,      \* what .shiny_app.conf becomes in turn, see Local
  MaxTouches,    \* bound: times restart.txt is touched
  MaxReloads     \* bound: reloads of the server's configuration

\* A value no setting has.
Unset == 0

DefaultMax == 100

Settings == [idle : Nat, max : Nat]

Local == [state : {"absent", "invalid", "ok"}, idle : Nat, max : Nat]

UserModels == {"user_dirs", "user_apps"}

Users == Names \cup Special \cup {Nobody}

\* The hosting model; whether there is a run_as and its list, which only in a
\* user_dirs location may be empty; and who is in a group of members_of, if
\* there is one.
Location ==
  {l \in [model : {"app_dir", "site_dir"} \cup UserModels, listed : BOOLEAN, runAs : Seq(Users),
          members : SUBSET Names] :
     /\ l.model \in {"app_dir", "site_dir"} => l.listed /\ l.runAs # << >>
     /\ ~l.listed => l.runAs = << >>}

ASSUME LocalConfigAssumption ==
  /\ Locations \subseteq Location
  /\ Owner \in Names /\ HomeUser \in Special
  /\ Names \cap Special = {} /\ Nobody \notin Names \cup Special
  /\ Global \in Settings
  /\ Contents \in Seq(Local) /\ Contents # << >>
  /\ MaxTouches \in Nat
  /\ MaxReloads \in Nat

VARIABLES
  file,        \* the version of .shiny_app.conf
  touched,     \* restart.txt's time stamp, 0 if there is none
  atTouch,     \* the version of .shiny_app.conf when it was touched
  location,    \* where the app is
  override,    \* $allowAppOverride
  runas,       \* $runas of the router
  router,      \* the location's router: its nested settings
  nested,      \* the nested settings there are: routers' and copies
  reloads,     \* reloads of the server's configuration
  cache,       \* AppConfig.$cache: the promise stored under a key
  promises,    \* config.read_p's promises: what they were resolved with
  req,         \* the requests: stage, AppSpec, key it is looked up with,
               \* promise it waits for, version of the file that was found or
               \* used, key it is served with, what was true of restart.txt
  scheds,      \* the schedulers that have been created
  registry     \* SchedulerRegistry.$schedulers: a scheduler's number by key

disk == <<file, touched, atTouch>>
given == <<location, override, runas, router, reloads>>
vars == <<disk, given, nested, cache, promises, req, scheds, registry>>

Versions == DOMAIN Contents

(***************************************************************************)
(* An AppSpec is a restart time, a reference to nested settings, and users *)
(* to run as.                                                              *)
(***************************************************************************)
Specs == [restart : Nat, nested : Nat, runAs : Seq(Users)]

\* AppSpec.getKey.  A list of one user looks like that user.
GetKey(spec, objects) ==
  [restart |-> spec.restart, settings |-> objects[spec.nested], runAs |-> spec.runAs]

Keys == [restart : Nat, settings : Settings, runAs : Seq(Users)]

\* config.read_p's promise; a request; a scheduler: the AppSpec and the key it
\* was created with, whether it has a worker, how many processes there are of
\* workers it has given up, and whether there has been one.
Promise == [state : {"reading", "null", "read"}, version : {0} \cup Versions]

RequestState ==
  [stage : {"none", "endless", "routed", "annotated", "finding", "found", "waiting", "served",
            "failed", "declined"},
   user : Names \cup Special, spec : Specs, lookup : Keys, promise : Nat, basis : {0} \cup Versions,
   issued : Keys, since : [version : Versions, touched : Nat]]

Scheduler == [spec : Specs, key : Keys, busy : BOOLEAN, late : Nat, gaveUp : BOOLEAN]

PartialFunction(f, from, to) == DOMAIN f \subseteq from /\ \A x \in DOMAIN f : f[x] \in to

TypeOK ==
  /\ file \in Versions
  /\ atTouch \in Versions
  /\ touched \in 0 .. MaxTouches
  /\ location \in Locations
  /\ override \in BOOLEAN
  /\ runas \in Seq(Users)
  /\ nested \in Seq(Settings)
  /\ router \in DOMAIN nested
  /\ reloads \in 0 .. MaxReloads
  /\ promises \in Seq(Promise)
  /\ PartialFunction(cache, Keys, DOMAIN promises)
  /\ req \in [Requests -> RequestState]
  /\ scheds \in Seq(Scheduler)
  /\ PartialFunction(registry, Keys, DOMAIN scheds)

NoKey == [restart |-> 0, settings |-> Global, runAs |-> << >>]

Init ==
  /\ file = 1
  /\ touched = 0
  /\ atTouch = 1
  /\ location \in Locations
  /\ override \in BOOLEAN
  /\ runas = location.runAs
  /\ router = 1
  /\ nested = <<Global>>
  /\ reloads = 0
  /\ cache = << >>
  /\ promises = << >>
  /\ req = [r \in Requests |->
              [stage |-> "none", user |-> Owner,
               spec |-> [restart |-> 0, nested |-> 1, runAs |-> << >>],
               lookup |-> NoKey, promise |-> 0, basis |-> 0, issued |-> NoKey,
               since |-> [version |-> 1, touched |-> 0]]]
  /\ scheds = << >>
  /\ registry = << >>

Set(f, x, y) == [z \in DOMAIN f \cup {x} |-> IF z = x THEN y ELSE f[z]]

Delete(f, x) == [z \in DOMAIN f \ {x} |-> f[z]]

(***************************************************************************)
(* The app's directory, and a reload of the server's configuration.        *)
(***************************************************************************)
Edit ==
  /\ file < Len(Contents)
  /\ file' = file + 1
  /\ UNCHANGED <<touched, atTouch, given, nested, cache, promises, req, scheds, registry>>

Touch ==
  /\ touched < MaxTouches
  /\ touched' = touched + 1
  /\ atTouch' = file
  /\ UNCHANGED <<file, given, nested, cache, promises, req, scheds, registry>>

\* New routers with settings of their own; the caches stay.
Reload ==
  /\ reloads < MaxReloads
  /\ reloads' = reloads + 1
  /\ nested' = Append(nested, Global)
  /\ router' = Len(nested) + 1
  /\ override' \in BOOLEAN
  /\ runas' = location.runAs
  /\ UNCHANGED <<disk, location, cache, promises, req, scheds, registry>>

(***************************************************************************)
(* SchedulerRegistry.getWorker                                             *)
(***************************************************************************)
GetWorker(spec, objects) ==
  LET key == GetKey(spec, objects)
  IN  IF key \in DOMAIN registry
      THEN /\ scheds' = [scheds EXCEPT ![registry[key]].busy = TRUE]
           /\ UNCHANGED registry
      ELSE /\ scheds' = Append(scheds, [spec |-> spec, key |-> key, busy |-> TRUE, late |-> 0,
                                        gaveUp |-> FALSE])
           /\ registry' = Set(registry, key, Len(scheds) + 1)

(***************************************************************************)
(* parseApplication without defaults, and merge.  What the file does not   *)
(* have stays as it is, except maxRequests.                                *)
(***************************************************************************)

Merge(local, s) ==
  [idle |-> IF local.idle = Unset THEN s.idle ELSE local.idle,
   max  |-> IF local.max = Unset THEN DefaultMax ELSE local.max]

(***************************************************************************)
(* A request.  The location's router answers with an AppSpec.              *)
(***************************************************************************)

\* Mutant of Replaced: the router's own list is written to.
ReplacedInPlace(user) ==
  /\ runas' = [i \in DOMAIN runas |-> IF runas[i] = HomeUser THEN user ELSE runas[i]]
  /\ UNCHANGED <<location, override, router, reloads>>

\* UserDirsRouter replaces the special name in a copy of the list.
Replaced(user) == UNCHANGED given

\* The list of an app in user's home directory.
ListFor(user) ==
  IF location.model = "user_apps" \/ (location.model = "user_dirs" /\ ~location.listed)
  THEN <<user>>
  ELSE IF location.model = "user_dirs"
  THEN [i \in DOMAIN runas |-> IF runas[i] = HomeUser THEN user ELSE runas[i]]
  ELSE runas

\* The special name is replaced with itself for as long as it is in the list.
Endless(user) ==
  location.model = "user_dirs" /\ user = HomeUser /\ \E i \in DOMAIN runas : runas[i] = HomeUser

\* There is no such user, or he is in none of the groups, or it is not his app.
Declined(user) ==
  location.model \in UserModels /\ user \notin location.members \cap {Owner}

\* Mutant of Cloned: every AppSpec has its router's settings.
NeverCloned == FALSE

\* DirectoryRouter makes a deep copy of its settings, SingleAppRouter a shallow one.
Cloned == location.model # "app_dir"

Route(r) ==
  /\ req[r].stage = "none"
  /\ \E user \in IF location.model \in UserModels THEN Names \cup Special ELSE {Owner} :
       \/ /\ Endless(user) \/ Declined(user)
          /\ req' = [req EXCEPT ![r].user = user,
                                ![r].stage = IF Endless(user) THEN "endless" ELSE "declined"]
          /\ UNCHANGED <<given, nested>>
       \/ /\ ~Endless(user) /\ ~Declined(user)
          /\ Replaced(user)
          /\ nested' = IF Cloned THEN Append(nested, nested[router]) ELSE nested
          /\ req' = [req EXCEPT ![r].user = user, ![r].stage = "routed",
                       ![r].spec = [@ EXCEPT !.nested = IF Cloned THEN Len(nested) + 1 ELSE router,
                                             !.runAs = ListFor(user)]]
  /\ UNCHANGED <<disk, cache, promises, scheds, registry>>

Annotated(r) == [req[r].spec EXCEPT !.restart = touched]

\* RestartRouter has looked at restart.txt.
Annotate(r) ==
  /\ req[r].stage = "routed"
  /\ req' = [req EXCEPT ![r].stage = "annotated", ![r].spec = Annotated(r),
                        ![r].since = [version |-> atTouch, touched |-> touched]]
  /\ UNCHANGED <<disk, given, nested, cache, promises, scheds, registry>>

\* SquashRouter: the first that is a user's name.
Squash(spec) ==
  LET first == SelectInSeq(spec.runAs, LAMBDA user : user \notin Special)
  IN  [spec EXCEPT !.runAs = IF first = 0 THEN <<Nobody>> ELSE <<spec.runAs[first]>>]

\* What has been put together goes to SchedulerRegistry.
Serve(r, spec, basis, objects) ==
  /\ req' = [req EXCEPT ![r].stage = "served", ![r].basis = basis, ![r].spec = Squash(spec),
                        ![r].issued = GetKey(Squash(spec), objects)]
  /\ GetWorker(Squash(spec), objects)

\* LocalConfigRouter leaves the AppSpec alone.
ServeAsIs(r) ==
  /\ req[r].stage = "annotated"
  /\ ~override
  /\ Serve(r, req[r].spec, req[r].basis, nested)
  /\ UNCHANGED <<disk, given, nested, cache, promises>>

\* Mutant of CacheKey: the time of the restart is not part of it.
CacheKeyWithout(spec) == [GetKey(spec, nested) EXCEPT !.restart = 0]

CacheKey(spec) == GetKey(spec, nested)

\* readConfig_p: a promise from the cache, or the file has to be found.
LookUp(r) ==
  LET key == CacheKey(req[r].spec)
      now == [req[r] EXCEPT !.lookup = key]
  IN  /\ req[r].stage = "annotated"
      /\ override
      /\ req' = [req EXCEPT ![r] =
           IF key \in DOMAIN cache
           THEN [now EXCEPT !.stage = "waiting", !.promise = cache[key]]
           ELSE [now EXCEPT !.stage = "finding"]]
      /\ UNCHANGED <<disk, given, nested, cache, promises, scheds, registry>>

\* findConfig_p has asked whether there is a file.
Stat(r) ==
  /\ req[r].stage = "finding"
  /\ req' = [req EXCEPT ![r].stage = "found", ![r].basis = file]
  /\ UNCHANGED <<disk, given, nested, cache, promises, scheds, registry>>

\* Its answer is handled: null is stored, or the promise of what is read.
FindConfig(r) ==
  /\ req[r].stage = "found"
  /\ req' = [req EXCEPT ![r].stage = "waiting", ![r].promise = Len(promises) + 1]
  /\ cache' = Set(cache, req[r].lookup, Len(promises) + 1)
  /\ promises' = Append(promises,
                   IF Contents[req[r].basis].state = "absent"
                   THEN [state |-> "null", version |-> req[r].basis]
                   ELSE [state |-> "reading", version |-> 0])
  /\ UNCHANGED <<disk, given, nested, scheds, registry>>

\* config.read_p has read the file.
Read(p) ==
  /\ promises[p].state = "reading"
  /\ promises' = [promises EXCEPT ![p] = [state |-> "read", version |-> file]]
  /\ UNCHANGED <<disk, given, nested, cache, req, scheds, registry>>

\* There is no local configuration.
ServeUnmerged(r) ==
  LET p == promises[req[r].promise]
  IN  /\ req[r].stage = "waiting"
      /\ p.state = "null"
      /\ Serve(r, req[r].spec, p.version, nested)
      /\ UNCHANGED <<disk, given, nested, cache, promises>>

\* addLocalConfig.  merge() writes into the nested objects of the AppSpec.
ServeMerged(r) ==
  LET p == promises[req[r].promise]
      spec == req[r].spec
      objects == [nested EXCEPT ![spec.nested] = Merge(Contents[p.version], @)]
  IN  /\ req[r].stage = "waiting"
      /\ p.state = "read"
      /\ Contents[p.version].state = "ok"
      /\ nested' = objects
      /\ Serve(r, spec, p.version, objects)
      /\ UNCHANGED <<disk, given, cache, promises>>

\* The file is invalid, or it has gone since it was found.
Reject(r) ==
  LET p == promises[req[r].promise]
  IN  /\ req[r].stage = "waiting"
      /\ p.state = "read"
      /\ Contents[p.version].state # "ok"
      /\ req' = [req EXCEPT ![r].stage = "failed"]
      /\ UNCHANGED <<disk, given, nested, cache, promises, scheds, registry>>

\* What a scheduler without workers puts into vacantSched, and its listeners.
Announced(s) == GetKey(scheds[s].spec, nested)

Announce(s) ==
  /\ registry' = Delete(registry, Announced(s))
  /\ cache' = Delete(cache, Announced(s))

\* Without a user no worker is launched.
HasUser(s) == scheds[s].spec.runAs # <<Nobody>>

\* Its worker has exited, or could not be launched.
Vacant(s) ==
  /\ scheds[s].busy
  /\ HasUser(s)
  /\ scheds' = [scheds EXCEPT ![s].busy = FALSE]
  /\ Announce(s)
  /\ UNCHANGED <<disk, given, nested, promises, req>>

\* doReject of a worker that is starting: its entry is removed and nothing is
\* announced.  There is no process if there was no endpoint or no user; there
\* is one if it has not answered in time.
StartFails(s) ==
  /\ scheds[s].busy
  /\ \E process \in IF HasUser(s) THEN {0, 1} ELSE {0} :
       scheds' = [scheds EXCEPT ![s].busy = FALSE, ![s].late = @ + process,
                                ![s].gaveUp = @ \/ process = 1]
  /\ UNCHANGED <<disk, given, nested, cache, promises, req, registry>>

\* The process of a worker that was given up exits.
LateExit(s) ==
  /\ scheds[s].late > 0
  /\ scheds' = [scheds EXCEPT ![s].late = @ - 1]
  /\ IF scheds[s].busy THEN UNCHANGED <<registry, cache>> ELSE Announce(s)
  /\ UNCHANGED <<disk, given, nested, promises, req>>

\* Nothing else happens in the server while the special name is replaced.
Hung == \E r \in Requests : req[r].stage = "endless"

Next ==
  \/ Edit
  \/ Touch
  \/ ~Hung /\ Reload
  \/ ~Hung /\ \E r \in Requests :
       \/ Route(r)
       \/ Annotate(r)
       \/ ServeAsIs(r)
       \/ LookUp(r)
       \/ Stat(r)
       \/ FindConfig(r)
       \/ ServeUnmerged(r)
       \/ ServeMerged(r)
       \/ Reject(r)
  \/ ~Hung /\ \E p \in DOMAIN promises : Read(p)
  \/ ~Hung /\ \E s \in DOMAIN scheds : Vacant(s) \/ StartFails(s) \/ LateExit(s)

Spec == Init /\ [][Next]_vars

Served(r) == req[r].stage = "served"

(***************************************************************************)
(* A request that finds restart.txt touched is served with the local       *)
(* configuration as it was at that time or later, whatever is in the cache *)
(* and whatever other requests are reading it; and by a scheduler of that  *)
(* time (NEWS, 0.3.4: "the next session to be initiated will cause a new R *)
(* process to be launched").                                               *)
(***************************************************************************)
RestartTakesEffect ==
  \A r \in Requests : Served(r) =>
    /\ req[r].basis # 0 => req[r].basis >= req[r].since.version
    /\ req[r].issued.restart = req[r].since.touched

(***************************************************************************)
(* The AppSpecs of an app_dir location share the settings of its router,   *)
(* and these change when a later version of the file is merged into them,  *)
(* or a reload has turned overriding on.                                   *)
(***************************************************************************)
SettingsStay == location.model = "app_dir" => file = 1 /\ reloads = 0

(***************************************************************************)
(* A scheduler that has a worker is in the registry: the worker is found   *)
(* by the next request and by shutdown.  What may have taken it out is the *)
(* late exit of a worker that another scheduler of the same key gave up.   *)
(***************************************************************************)
BusyReachable ==
  SettingsStay => \A s \in DOMAIN scheds : scheds[s].busy =>
    \/ \E k \in DOMAIN registry : registry[k] = s
    \/ \E t \in DOMAIN scheds \ {s} : scheds[t].gaveUp /\ scheds[t].key = scheds[s].key

(***************************************************************************)
(* scheduler.js:29, of the AppSpec: "Will be used to identify the          *)
(* scheduler if/when it runs out of workers and needs to be terminated."   *)
(* That takes a key that is still the one it is registered under, whatever *)
(* other requests have merged since.                                       *)
(***************************************************************************)
KeysStay == \A k \in DOMAIN registry : Announced(registry[k]) = k

IdentifiedBySpec == SettingsStay => KeysStay

(***************************************************************************)
(* shiny-server-rules.config:6: ":HOME_USER:" runs an app "as the user in  *)
(* whose home directory the application exists", and names "afterwards"    *)
(* are for other hosting models.  Whoever has been routed before, an app   *)
(* runs as the first in the list who is meant for its location; without a  *)
(* list, as the user whose home directory it is in (user-dirs-router.js,   *)
(* "to whom the application belongs"); and none runs for a user who is in  *)
(* none of the groups.                                                     *)
(***************************************************************************)
Meant(user) ==
  user \notin Special \/ (location.model = "user_dirs" /\ user = HomeUser)

RunsAsMeant ==
  \A r \in Requests : Served(r) =>
    LET runAs == req[r].issued.runAs
        first == SelectInSeq(location.runAs, Meant)
    IN  /\ Len(runAs) = 1
        /\ location.model \in UserModels => req[r].user = Owner /\ Owner \in location.members
        /\ runAs[1] =
             IF location.model = "user_apps" \/ ~location.listed THEN Owner
             ELSE IF first = 0 THEN Nobody
             ELSE IF location.runAs[first] = HomeUser THEN Owner
             ELSE location.runAs[first]

\* The invariant of the registry and of what it is asked for.
Inv == TypeOK /\ BusyReachable /\ IdentifiedBySpec /\ RunsAsMeant

(***************************************************************************)
(* config-router-util.js:45: without provideDefaults, parseApplication     *)
(* "will not add any fields to what's found in the config".  So what the   *)
(* local configuration does not set is as the location has it.             *)
(***************************************************************************)
OnlyWhatIsFound ==
  \A r \in Requests : Served(r) /\ req[r].basis # 0 =>
    LET local == Contents[req[r].basis]
    IN  /\ local.idle = Unset => req[r].issued.settings.idle = Global.idle
        /\ local.max = Unset => req[r].issued.settings.max = Global.max

=============================================================================
