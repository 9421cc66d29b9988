------------------------- MODULE LocalConfigProofs -------------------------
(***************************************************************************)
(* The invariants of LocalConfig, for any requests, locations, users and   *)
(* contents of the file, and any number of touches and reloads.            *)
(***************************************************************************)
EXTENDS LocalConfig, SequenceTheorems, WellFoundedInduction, TLAPS

(***************************************************************************)
(* Every AppSpec has settings.                                             *)
(***************************************************************************)
SettingsExist ==
  /\ \A r \in Requests : req[r].spec.nested \in DOMAIN nested
  /\ \A s \in DOMAIN scheds : scheds[s].spec.nested \in DOMAIN nested

\* What promise p is resolved with is version v or a later one.
AtLeast(p, v) == promises[p].state # "reading" => promises[p].version >= v

(***************************************************************************)
(* What a request knows of restart.txt is its time stamp, and the version  *)
(* of the file at that time.                                               *)
(***************************************************************************)
SinceTimes(q) ==
  /\ q.since.touched <= touched
  /\ q.since.version <= file
  /\ q.since.touched = touched => q.since.version = atTouch

(***************************************************************************)
(* That time is in its AppSpec and in the key that it looks up, and what   *)
(* it has found, or waits for, is not older.                               *)
(***************************************************************************)
StageTimes(q) ==
  /\ q.stage \in {"none", "routed", "annotated", "finding"} => q.basis = 0
  /\ q.stage \in {"annotated", "finding", "found", "waiting"} =>
       q.spec.restart = q.since.touched
  /\ q.stage \in {"finding", "found", "waiting"} => q.lookup.restart = q.since.touched
  /\ q.stage = "found" => q.basis >= q.since.version
  /\ q.stage = "waiting" => q.promise \in DOMAIN promises /\ AtLeast(q.promise, q.since.version)
  /\ q.stage = "served" =>
       (q.basis # 0 => q.basis >= q.since.version) /\ q.issued.restart = q.since.touched

\* Nor is what is stored under a key.
CacheTimes ==
  \A k \in DOMAIN cache :
    /\ k.restart <= touched
    /\ k.restart = touched => AtLeast(cache[k], atTouch)
    /\ \A r \in Requests : req[r].since.touched = k.restart => AtLeast(cache[k], req[r].since.version)

SameTime ==
  \A r, q \in Requests :
    req[r].since.touched = req[q].since.touched => req[r].since.version = req[q].since.version

TimesInv ==
  /\ TypeOK
  /\ SettingsExist
  /\ atTouch <= file
  /\ \A r \in Requests : SinceTimes(req[r]) /\ StageTimes(req[r])
  /\ SameTime
  /\ CacheTimes

-----------------------------------------------------------------------------
(* Lemmas about the operators                                              *)

\* A set of numbers that is not empty has a smallest.
LEMMA MinIsElement ==
  ASSUME NEW S \in SUBSET Nat, S # {}
  PROVE  Min(S) \in S
<1> DEFINE R == OpToRel(<, Nat)
<1>1. PICK x \in S : \A y \in S : <<y, x>> \notin R
  BY NatLessThanWellFounded, WFMin, Zenon
<1>2. ASSUME NEW y \in S PROVE x <= y
  <2>1. x \in Nat /\ y \in Nat /\ <<y, x>> \notin R
    BY <1>1
  <2>2. ~(y < x)
    BY <2>1 DEF OpToRel
  <2> HIDE DEF R
  <2>3. \A a, b \in Nat : ~(a < b) => b <= a
    OBVIOUS
  <2> QED BY <2>1, <2>2, <2>3
<1> QED BY <1>1, <1>2 DEF Min

\* An empty sequence, a new value in a function, and a value taken out.
LEMMA PartialFunctionSteps ==
  ASSUME NEW f, NEW From, NEW To, PartialFunction(f, From, To), NEW Larger, To \subseteq Larger,
         NEW x, NEW y
  PROVE  /\ x \in From /\ y \in Larger => PartialFunction(Set(f, x, y), From, Larger)
         /\ PartialFunction(Delete(f, x), From, Larger)
         /\ PartialFunction(f, From, Larger)
BY DEF PartialFunction, Set, Delete

\* The settings of an AppSpec are settings, and its key is a key.
LEMMA KeyTypes ==
  ASSUME NEW spec \in Specs, NEW objects \in Seq(Settings), spec.nested \in DOMAIN objects
  PROVE  /\ objects[spec.nested] \in Settings
         /\ GetKey(spec, objects) \in Keys
         /\ GetKey(spec, objects).restart = spec.restart
         /\ GetKey(spec, objects).runAs = spec.runAs
<1>1. objects[spec.nested] \in Settings
  BY ElementOfSeq, LenProperties
<1>2. spec.restart \in Nat /\ spec.runAs \in Seq(Users)
  BY DEF Specs
<1> QED BY <1>1, <1>2 DEF GetKey, Keys

LEMMA MergeTypes ==
  ASSUME NEW local \in Local, NEW s \in Settings
  PROVE  Merge(local, s) \in Settings
BY DEF Merge, Local, Settings, Unset, DefaultMax

\* Squashing leaves all but the users alone.
LEMMA SquashTypes ==
  ASSUME NEW spec \in Specs
  PROVE  /\ Squash(spec) \in Specs
         /\ Squash(spec).restart = spec.restart
         /\ Squash(spec).nested = spec.nested
<1> DEFINE I == {i \in 1 .. Len(spec.runAs) : spec.runAs[i] \notin Special}
           first == SelectInSeq(spec.runAs, LAMBDA user : user \notin Special)
           list == IF first = 0 THEN <<Nobody>> ELSE <<spec.runAs[first]>>
<1>0. spec.runAs \in Seq(Users)
  BY DEF Specs
<1>1. first = IF I # {} THEN Min(I) ELSE 0
  BY DEF SelectInSeq
<1>2. I # {} => Min(I) \in I
  <2>1. I \in SUBSET Nat
    OBVIOUS
  <2> QED BY <2>1, MinIsElement, Zenon
<1>3. first # 0 => spec.runAs[first] \in Users
  BY <1>0, <1>1, <1>2, ElementOfSeq
<1>4. list \in Seq(Users)
  <2>1. Nobody \in Users
    BY DEF Users
  <2> QED BY <1>3, <2>1
<1>5. Squash(spec) = [spec EXCEPT !.runAs = list]
  BY DEF Squash
<1> HIDE DEF list
<1> QED BY <1>4, <1>5 DEF Specs

\* A list of users for a location is one.
LEMMA ListTypes ==
  ASSUME runas \in Seq(Users), NEW user \in Names \cup Special
  PROVE  ListFor(user) \in Seq(Users)
<1> DEFINE l == [i \in DOMAIN runas |-> IF runas[i] = HomeUser THEN user ELSE runas[i]]
<1>1. user \in Users
  BY DEF Users
<1>2. l \in Seq(Users)
  <2>1. DOMAIN runas = 1 .. Len(runas) /\ Len(runas) \in Nat
    BY LenProperties
  <2>2. \A i \in DOMAIN runas : runas[i] \in Users
    BY <2>1, ElementOfSeq
  <2>3. l \in [1 .. Len(runas) -> Users]
    BY <1>1, <2>1, <2>2
  <2> QED BY <2>1, <2>3, SeqDef
<1>3. <<user>> \in Seq(Users)
  BY <1>1
<1> QED BY <1>2, <1>3 DEF ListFor

-----------------------------------------------------------------------------
(* The times                                                               *)

\* There are no promises, and every request is of the first version.
LEMMA InitTimes == Init => TimesInv
<1> SUFFICES ASSUME Init PROVE TimesInv
  OBVIOUS
<1>1. 1 \in Versions
  <2>1. DOMAIN Contents = 1 .. Len(Contents) /\ Len(Contents) \in Nat \ {0}
    BY LocalConfigAssumption, EmptySeq, LenProperties
  <2> QED BY <2>1 DEF Versions
<1>2. Global \in Settings /\ << >> \in Seq(Users) /\ Owner \in Names
  BY LocalConfigAssumption
<1>3. NoKey \in Keys
  BY <1>2 DEF NoKey, Keys
<1>4. [restart |-> 0, nested |-> 1, runAs |-> << >>] \in Specs
  BY <1>2 DEF Specs
<1>5. location \in Locations /\ runas \in Seq(Users)
  BY LocalConfigAssumption DEF Init, Location
<1>6. nested \in Seq(Settings) /\ DOMAIN nested = {1}
  BY <1>2 DEF Init
<1>7. req \in [Requests -> RequestState]
  BY <1>1, <1>2, <1>3, <1>4 DEF Init, RequestState
<1>8. /\ PartialFunction(cache, Keys, DOMAIN promises)
      /\ PartialFunction(registry, Keys, DOMAIN scheds)
  BY DEF Init, PartialFunction
<1>9. /\ touched \in 0 .. MaxTouches /\ override \in BOOLEAN
      /\ router \in DOMAIN nested /\ reloads \in 0 .. MaxReloads
      /\ promises \in Seq(Promise) /\ scheds \in Seq(Scheduler)
  BY <1>6, LocalConfigAssumption DEF Init
<1>10. TypeOK
  BY <1>1, <1>5, <1>6, <1>7, <1>8, <1>9 DEF Init, TypeOK
<1>11. SettingsExist
  BY <1>6 DEF Init, SettingsExist
<1>12. \A r \in Requests : SinceTimes(req[r]) /\ StageTimes(req[r])
  BY DEF Init, SinceTimes, StageTimes
<1>13. atTouch <= file /\ SameTime /\ CacheTimes
  BY DEF Init, SameTime, CacheTimes
<1> QED BY <1>10, <1>11, <1>12, <1>13 DEF TimesInv

\* One request goes on: what the others know is not disturbed.
LEMMA RequestTimes ==
  ASSUME TimesInv, NEW r \in Requests, NEW q \in RequestState,
         q.since = req[r].since, q.spec.nested \in DOMAIN nested', StageTimes(q),
         DOMAIN nested \subseteq DOMAIN nested',
         req' = [req EXCEPT ![r] = q], UNCHANGED <<disk, cache, promises>>
  PROVE  /\ req' \in [Requests -> RequestState]
         /\ \A p \in Requests : req'[p].spec.nested \in DOMAIN nested'
         /\ atTouch' <= file'
         /\ (\A p \in Requests : SinceTimes(req[p]) /\ StageTimes(req[p]))'
         /\ SameTime'
         /\ CacheTimes'
<1>1. req \in [Requests -> RequestState]
  BY DEF TimesInv, TypeOK
<1>2. \A p \in Requests : req'[p].since = req[p].since
  BY <1>1
<1>3. file' = file /\ touched' = touched /\ atTouch' = atTouch
  BY DEF disk
<1>4. \A p \in Requests : req'[p].spec.nested \in DOMAIN nested'
  BY <1>1 DEF TimesInv, SettingsExist
<1>5. ASSUME NEW p \in Requests PROVE SinceTimes(req[p])' /\ StageTimes(req[p])'
  <2>1. SinceTimes(req[p])'
    BY <1>2, <1>3 DEF TimesInv, SinceTimes
  <2>2. CASE p = r
    <3>1. req'[p] = q
      BY <1>1, <2>2
    <3> QED BY <2>1, <3>1 DEF StageTimes, AtLeast
  <2>3. CASE p # r
    <3>1. req'[p] = req[p]
      BY <1>1, <2>3
    <3> QED BY <2>1, <3>1 DEF TimesInv, StageTimes, AtLeast
  <2> QED BY <2>2, <2>3
<1>6. SameTime'
  BY <1>2 DEF TimesInv, SameTime
<1>7. CacheTimes'
  BY <1>2, <1>3 DEF TimesInv, CacheTimes, AtLeast
<1> QED BY <1>1, <1>3, <1>4, <1>5, <1>6, <1>7 DEF TimesInv

\* A worker is asked for: the scheduler is there afterwards.
LEMMA GetWorkerTypes ==
  ASSUME scheds \in Seq(Scheduler), PartialFunction(registry, Keys, DOMAIN scheds),
         NEW objects \in Seq(Settings), NEW spec \in Specs, spec.nested \in DOMAIN objects,
         \A s \in DOMAIN scheds : scheds[s].spec.nested \in DOMAIN objects,
         GetWorker(spec, objects)
  PROVE  /\ scheds' \in Seq(Scheduler)
         /\ PartialFunction(registry', Keys, DOMAIN scheds')
         /\ \A s \in DOMAIN scheds' : scheds'[s].spec.nested \in DOMAIN objects
<1> DEFINE key == GetKey(spec, objects)
           n == [spec |-> spec, key |-> key, busy |-> TRUE, late |-> 0, gaveUp |-> FALSE]
<1>1. key \in Keys
  BY KeyTypes
<1>2. Len(scheds) \in Nat /\ DOMAIN scheds = 1 .. Len(scheds)
  BY LenProperties
<1>3. CASE key \in DOMAIN registry
  <2> DEFINE i == registry[key]
             b == [scheds[i] EXCEPT !.busy = TRUE]
  <2>1. i \in 1 .. Len(scheds)
    BY <1>2, <1>3 DEF PartialFunction
  <2>2. scheds[i] \in Scheduler
    BY <1>2, <2>1, ElementOfSeq
  <2>3. b \in Scheduler /\ b.spec = scheds[i].spec
    BY <2>2 DEF Scheduler
  <2>4. scheds' = [scheds EXCEPT ![i] = b] /\ registry' = registry
    BY <1>3 DEF GetWorker
  <2> HIDE DEF b, i
  <2>5. /\ scheds' \in Seq(Scheduler) /\ Len(scheds') = Len(scheds)
        /\ \A j \in 1 .. Len(scheds) : scheds'[j] = IF j = i THEN b ELSE scheds[j]
    BY <2>1, <2>3, <2>4, ExceptSeq
  <2>6. DOMAIN scheds' = DOMAIN scheds
    BY <1>2, <2>5, LenProperties
  <2>7. \A s \in DOMAIN scheds : scheds'[s].spec = scheds[s].spec
    BY <1>2, <2>3, <2>5
  <2> QED BY <2>4, <2>5, <2>6, <2>7
<1>4. CASE key \notin DOMAIN registry
  <2>1. scheds' = Append(scheds, n) /\ registry' = Set(registry, key, Len(scheds) + 1)
    BY <1>4 DEF GetWorker
  <2>2. n \in Scheduler /\ n.spec = spec
    BY <1>1 DEF Scheduler
  <2> HIDE DEF n
  <2>3. /\ scheds' \in Seq(Scheduler) /\ DOMAIN scheds' = 1 .. Len(scheds) + 1
        /\ \A j \in 1 .. Len(scheds) : scheds'[j] = scheds[j]
        /\ scheds'[Len(scheds) + 1] = n
    BY <1>2, <2>1, <2>2
  <2>4. PartialFunction(registry', Keys, DOMAIN scheds')
    <3>1. DOMAIN scheds \subseteq DOMAIN scheds' /\ Len(scheds) + 1 \in DOMAIN scheds'
      BY <1>2, <2>3
    <3> HIDE DEF key
    <3> QED BY <1>1, <2>1, <3>1, PartialFunctionSteps
  <2>5. \A s \in DOMAIN scheds' : scheds'[s].spec.nested \in DOMAIN objects
    BY <1>2, <2>2, <2>3
  <2> QED BY <2>3, <2>4, <2>5
<1> QED BY <1>3, <1>4

\* A request is answered with an AppSpec that has the time of restart.txt.
LEMMA ServeTimes ==
  ASSUME TimesInv, NEW r \in Requests, NEW spec \in Specs, NEW basis \in {0} \cup Versions,
         NEW objects \in Seq(Settings), DOMAIN nested \subseteq DOMAIN objects,
         spec.nested \in DOMAIN objects, spec.restart = req[r].since.touched,
         basis # 0 => basis >= req[r].since.version,
         Serve(r, spec, basis, objects), nested' = objects,
         UNCHANGED <<disk, given, cache, promises>>
  PROVE  TimesInv'
<1> DEFINE squashed == Squash(spec)
           q == [req[r] EXCEPT !.stage = "served", !.basis = basis, !.spec = squashed,
                               !.issued = GetKey(squashed, objects)]
<1>1. /\ squashed \in Specs /\ squashed.restart = spec.restart
      /\ squashed.nested \in DOMAIN objects
  BY SquashTypes
<1>2. GetKey(squashed, objects) \in Keys /\ GetKey(squashed, objects).restart = spec.restart
  BY <1>1, KeyTypes
<1>3. req[r] \in RequestState /\ req \in [Requests -> RequestState]
  BY DEF TimesInv, TypeOK
<1>4. req' = [req EXCEPT ![r] = q] /\ GetWorker(squashed, objects)
  BY <1>3 DEF Serve
<1> HIDE DEF squashed
<1>5. q \in RequestState /\ q.since = req[r].since /\ q.spec.nested \in DOMAIN objects
  BY <1>1, <1>2, <1>3 DEF RequestState
<1>6. StageTimes(q)
  BY <1>2, <1>3, <1>5 DEF RequestState, StageTimes
<1> HIDE DEF q
<1>7. /\ req' \in [Requests -> RequestState]
      /\ \A p \in Requests : req'[p].spec.nested \in DOMAIN nested'
      /\ atTouch' <= file'
      /\ (\A p \in Requests : SinceTimes(req[p]) /\ StageTimes(req[p]))'
      /\ SameTime' /\ CacheTimes'
  BY <1>4, <1>5, <1>6, RequestTimes
<1>8. /\ scheds' \in Seq(Scheduler)
      /\ PartialFunction(registry', Keys, DOMAIN scheds')
      /\ \A s \in DOMAIN scheds' : scheds'[s].spec.nested \in DOMAIN objects
  <2>1. /\ scheds \in Seq(Scheduler)
        /\ PartialFunction(registry, Keys, DOMAIN scheds)
    BY DEF TimesInv, TypeOK
  <2>2. \A s \in DOMAIN scheds : scheds[s].spec.nested \in DOMAIN objects
    BY DEF TimesInv, SettingsExist
  <2> QED BY <1>1, <1>4, <2>1, <2>2, GetWorkerTypes
<1>9. TypeOK'
  BY <1>7, <1>8 DEF TimesInv, TypeOK, disk, given
<1>10. SettingsExist'
  BY <1>7, <1>8 DEF SettingsExist
<1> QED BY <1>7, <1>9, <1>10 DEF TimesInv

\* One request goes on before it is served.
LEMMA UnservedTimes ==
  ASSUME TimesInv, NEW r \in Requests, NEW q \in RequestState,
         q.since = req[r].since, q.spec.nested \in DOMAIN nested, StageTimes(q),
         req' = [req EXCEPT ![r] = q], UNCHANGED <<disk, given, nested, cache, promises, scheds, registry>>
  PROVE  TimesInv'
<1>1. /\ req' \in [Requests -> RequestState]
      /\ \A p \in Requests : req'[p].spec.nested \in DOMAIN nested'
      /\ atTouch' <= file'
      /\ (\A p \in Requests : SinceTimes(req[p]) /\ StageTimes(req[p]))'
      /\ SameTime' /\ CacheTimes'
  BY RequestTimes
<1>2. TypeOK'
  BY <1>1 DEF TimesInv, TypeOK, disk, given
<1>3. SettingsExist'
  BY <1>1 DEF TimesInv, SettingsExist
<1> QED BY <1>1, <1>2, <1>3 DEF TimesInv

\* The facts of TimesInv that the steps of one request start from.
LEMMA OfRequest ==
  ASSUME TimesInv, NEW r \in Requests
  PROVE  /\ req \in [Requests -> RequestState] /\ req[r] \in RequestState
         /\ SinceTimes(req[r]) /\ StageTimes(req[r])
         /\ req[r].spec \in Specs /\ req[r].spec.nested \in DOMAIN nested
         /\ nested \in Seq(Settings) /\ Len(nested) \in Nat /\ DOMAIN nested = 1 .. Len(nested)
         /\ Len(nested) \in DOMAIN nested
         /\ file \in Versions /\ atTouch \in Versions /\ Versions \subseteq Nat \ {0}
<1>1. nested \in Seq(Settings) /\ Len(nested) \in Nat /\ DOMAIN nested = 1 .. Len(nested)
  BY LenProperties DEF TimesInv, TypeOK
<1>2. Versions \subseteq Nat \ {0}
  BY LocalConfigAssumption, LenProperties DEF Versions
<1>3. req \in [Requests -> RequestState] /\ req[r] \in RequestState /\ req[r].spec \in Specs
  BY DEF TimesInv, TypeOK, RequestState
<1>4. req[r].spec.nested \in 1 .. Len(nested)
  BY <1>1 DEF TimesInv, SettingsExist
<1>5. Len(nested) \in DOMAIN nested
  BY <1>1, <1>4
<1> QED BY <1>1, <1>2, <1>3, <1>4, <1>5 DEF TimesInv, TypeOK

LEMMA RouteTimes ==
  ASSUME TimesInv, NEW r \in Requests, Route(r)
  PROVE  TimesInv'
<1>1. PICK user \in IF location.model \in UserModels THEN Names \cup Special ELSE {Owner} :
        \/ /\ Endless(user) \/ Declined(user)
           /\ req' = [req EXCEPT ![r].user = user,
                                 ![r].stage = IF Endless(user) THEN "endless" ELSE "declined"]
           /\ UNCHANGED <<given, nested>>
        \/ /\ ~Endless(user) /\ ~Declined(user)
           /\ Replaced(user)
           /\ nested' = IF Cloned THEN Append(nested, nested[router]) ELSE nested
           /\ req' = [req EXCEPT ![r].user = user, ![r].stage = "routed",
                        ![r].spec = [@ EXCEPT !.nested = IF Cloned THEN Len(nested) + 1 ELSE router,
                                              !.runAs = ListFor(user)]]
  BY DEF Route
<1>2. user \in Names \cup Special
  BY <1>1, LocalConfigAssumption
<1>3. UNCHANGED <<disk, cache, promises, scheds, registry>> /\ req[r].stage = "none"
  BY DEF Route
<1>4. CASE UNCHANGED <<given, nested>> /\ \E stage \in {"endless", "declined"} :
             req' = [req EXCEPT ![r].user = user, ![r].stage = stage]
  <2>1. PICK stage \in {"endless", "declined"} : req' = [req EXCEPT ![r].user = user, ![r].stage = stage]
    BY <1>4
  <2> DEFINE q == [req[r] EXCEPT !.user = user, !.stage = stage]
  <2>2. req' = [req EXCEPT ![r] = q]
    BY <2>1, OfRequest
  <2>3. q \in RequestState /\ q.since = req[r].since /\ q.spec = req[r].spec /\ q.stage = stage
    BY <1>2, OfRequest DEF RequestState
  <2> HIDE DEF q
  <2>4. StageTimes(q)
    BY <2>3 DEF StageTimes
  <2> QED BY <1>3, <1>4, <2>2, <2>3, <2>4, OfRequest, UnservedTimes
<1>5. CASE /\ Replaced(user)
           /\ nested' = IF Cloned THEN Append(nested, nested[router]) ELSE nested
           /\ req' = [req EXCEPT ![r].user = user, ![r].stage = "routed",
                        ![r].spec = [@ EXCEPT !.nested = IF Cloned THEN Len(nested) + 1 ELSE router,
                                              !.runAs = ListFor(user)]]
  <2> DEFINE spec == [req[r].spec EXCEPT !.nested = IF Cloned THEN Len(nested) + 1 ELSE router,
                                         !.runAs = ListFor(user)]
             q == [req[r] EXCEPT !.user = user, !.stage = "routed", !.spec = spec]
  <2>1. UNCHANGED given
    BY <1>5 DEF Replaced
  <2>2. /\ nested' \in Seq(Settings) /\ DOMAIN nested \subseteq DOMAIN nested'
        /\ (IF Cloned THEN Len(nested) + 1 ELSE router) \in DOMAIN nested'
        /\ (IF Cloned THEN Len(nested) + 1 ELSE router) \in Nat
    <3>1. router \in 1 .. Len(nested) /\ nested[router] \in Settings
      BY OfRequest, ElementOfSeq DEF TimesInv, TypeOK
    <3>2. CASE Cloned
      <4>1. nested' = Append(nested, nested[router])
        BY <1>5, <3>2
      <4> QED BY <3>1, <3>2, <4>1, OfRequest
    <3>3. CASE ~Cloned
      BY <1>5, <3>1, <3>3, OfRequest
    <3> QED BY <3>2, <3>3
  <2>3. ListFor(user) \in Seq(Users)
    BY <1>2, ListTypes DEF TimesInv, TypeOK
  <2>4. spec \in Specs /\ spec.nested \in DOMAIN nested'
    BY <2>2, <2>3, OfRequest DEF Specs
  <2>5. req' = [req EXCEPT ![r] = q]
    BY <1>5, OfRequest
  <2> HIDE DEF spec
  <2>6. q \in RequestState /\ q.since = req[r].since /\ q.spec.nested \in DOMAIN nested'
    BY <1>2, <2>4, OfRequest DEF RequestState
  <2>7. StageTimes(q)
    BY <1>3, <2>6, OfRequest DEF StageTimes, RequestState
  <2> HIDE DEF q
  <2>8. /\ req' \in [Requests -> RequestState]
        /\ \A p \in Requests : req'[p].spec.nested \in DOMAIN nested'
        /\ atTouch' <= file'
        /\ (\A p \in Requests : SinceTimes(req[p]) /\ StageTimes(req[p]))'
        /\ SameTime' /\ CacheTimes'
    BY <1>3, <2>2, <2>5, <2>6, <2>7, RequestTimes
  <2>9. TypeOK'
    BY <1>3, <2>1, <2>2, <2>8 DEF TimesInv, TypeOK, disk, given
  <2>10. SettingsExist'
    BY <1>3, <2>2, <2>8 DEF TimesInv, SettingsExist
  <2> QED BY <2>8, <2>9, <2>10 DEF TimesInv
<1> QED BY <1>1, <1>4, <1>5

\* What is read now is not older than anything.
LEMMA EditTimes == TimesInv /\ Edit => TimesInv'
<1> SUFFICES ASSUME TimesInv, Edit PROVE TimesInv'
  OBVIOUS
<1>1. Versions = 1 .. Len(Contents) /\ Len(Contents) \in Nat
  BY LocalConfigAssumption, LenProperties DEF Versions
<1>2. file \in Versions /\ file' = file + 1 /\ file < Len(Contents)
  BY DEF TimesInv, TypeOK, Edit
<1>3. file' \in Versions /\ file <= file' /\ file \in Nat
  BY <1>1, <1>2
<1>4. TypeOK'
  BY <1>3 DEF Edit, TimesInv, TypeOK, given
<1>5. SettingsExist'
  BY DEF Edit, TimesInv, SettingsExist
<1>6. atTouch' <= file' /\ atTouch \in Nat
  BY <1>1, <1>3 DEF Edit, TimesInv, TypeOK
<1>7. ASSUME NEW r \in Requests PROVE SinceTimes(req[r])' /\ StageTimes(req[r])'
  <2>1. req[r].since.version \in Nat
    BY <1>1 DEF TimesInv, TypeOK, RequestState
  <2>2. SinceTimes(req[r])'
    BY <1>3, <2>1 DEF Edit, TimesInv, SinceTimes
  <2>3. StageTimes(req[r])'
    BY DEF Edit, TimesInv, StageTimes, AtLeast
  <2> QED BY <2>2, <2>3
<1>8. SameTime'
  BY DEF Edit, TimesInv, SameTime
<1>9. CacheTimes'
  BY DEF Edit, TimesInv, CacheTimes, AtLeast
<1> QED BY <1>4, <1>5, <1>6, <1>7, <1>8, <1>9 DEF TimesInv

\* No request, and nothing in the cache, is of the new time.
LEMMA TouchTimes == TimesInv /\ Touch => TimesInv'
<1> SUFFICES ASSUME TimesInv, Touch PROVE TimesInv'
  OBVIOUS
<1>1. /\ touched \in 0 .. MaxTouches /\ MaxTouches \in Nat /\ touched < MaxTouches
      /\ touched' = touched + 1 /\ atTouch' = file /\ file' = file /\ file \in Versions
  BY LocalConfigAssumption DEF Touch, TimesInv, TypeOK
<1>2. TypeOK'
  <2>1. touched' \in 0 .. MaxTouches
    BY <1>1
  <2> QED BY <1>1, <2>1 DEF Touch, TimesInv, TypeOK, given
<1>3. SettingsExist'
  BY DEF Touch, TimesInv, SettingsExist
<1>4. atTouch' <= file'
  <2>1. file \in Nat
    BY <1>1, LocalConfigAssumption, LenProperties DEF Versions
  <2> QED BY <1>1, <2>1
<1>5. ASSUME NEW r \in Requests PROVE SinceTimes(req[r])' /\ StageTimes(req[r])'
  <2>1. req[r].since.touched \in Nat
    BY DEF TimesInv, TypeOK, RequestState
  <2>2. SinceTimes(req[r])
    BY DEF TimesInv
  <2>3. SinceTimes(req[r])'
    BY <1>1, <2>1, <2>2 DEF Touch, SinceTimes
  <2>4. StageTimes(req[r])'
    BY DEF Touch, TimesInv, StageTimes, AtLeast
  <2> QED BY <2>3, <2>4
<1>6. SameTime'
  BY DEF Touch, TimesInv, SameTime
<1>7. CacheTimes'
  <2>1. \A k \in DOMAIN cache : k.restart \in Nat /\ k.restart <= touched
    BY DEF TimesInv, TypeOK, PartialFunction, CacheTimes, Keys
  <2>2. \A k \in DOMAIN cache : k.restart <= touched' /\ k.restart # touched'
    BY <1>1, <2>1
  <2> QED BY <2>2 DEF Touch, TimesInv, CacheTimes, AtLeast
<1> QED BY <1>2, <1>3, <1>4, <1>5, <1>6, <1>7 DEF TimesInv

LEMMA ReloadTimes == TimesInv /\ Reload => TimesInv'
<1> SUFFICES ASSUME TimesInv, Reload PROVE TimesInv'
  OBVIOUS
<1>1. /\ nested' \in Seq(Settings) /\ DOMAIN nested \subseteq DOMAIN nested'
      /\ \A i \in DOMAIN nested : nested'[i] = nested[i]
  <2>1. Global \in Settings /\ nested \in Seq(Settings) /\ nested' = Append(nested, Global)
    BY LocalConfigAssumption DEF Reload, TimesInv, TypeOK
  <2>2. /\ Len(nested) \in Nat /\ DOMAIN nested = 1 .. Len(nested)
        /\ nested' \in Seq(Settings) /\ DOMAIN nested' = 1 .. Len(nested) + 1
        /\ \A i \in 1 .. Len(nested) : nested'[i] = nested[i]
    BY <2>1
  <2> QED BY <2>2
<1>2. TypeOK'
  <2>1. runas' \in Seq(Users)
    BY LocalConfigAssumption DEF Reload, TimesInv, TypeOK, Location
  <2>2. reloads' \in 0 .. MaxReloads
    BY LocalConfigAssumption DEF Reload, TimesInv, TypeOK
  <2>3. router' \in DOMAIN nested'
    BY LocalConfigAssumption DEF Reload, TimesInv, TypeOK
  <2> QED BY <1>1, <2>1, <2>2, <2>3 DEF Reload, TimesInv, TypeOK, disk
<1>3. SettingsExist'
  BY <1>1 DEF Reload, TimesInv, SettingsExist
<1>4. \A r \in Requests : (SinceTimes(req[r]) /\ StageTimes(req[r]))'
  BY DEF Reload, disk, TimesInv, SinceTimes, StageTimes, AtLeast
<1>5. SameTime' /\ CacheTimes' /\ atTouch' <= file'
  BY DEF Reload, disk, TimesInv, SameTime, CacheTimes, AtLeast
<1> QED BY <1>2, <1>3, <1>4, <1>5 DEF TimesInv

\* The request is of now; so is what else is.
LEMMA AnnotateTimes ==
  ASSUME TimesInv, NEW r \in Requests, Annotate(r)
  PROVE  TimesInv'
<1> DEFINE spec == [req[r].spec EXCEPT !.restart = touched]
           since == [version |-> atTouch, touched |-> touched]
           q == [req[r] EXCEPT !.stage = "annotated", !.spec = spec, !.since = since]
<1>1. touched \in Nat /\ atTouch \in Versions
  BY DEF TimesInv, TypeOK
<1>2. spec \in Specs /\ spec.restart = touched /\ spec.nested = req[r].spec.nested
  BY <1>1, OfRequest DEF Specs
<1>3. since \in [version : Versions, touched : Nat]
  BY <1>1
<1>4. req[r].stage = "routed" /\ req' = [req EXCEPT ![r] = q]
  BY DEF Annotate, Annotated
<1>5. UNCHANGED <<disk, given, nested, cache, promises, scheds, registry>>
  BY DEF Annotate
<1> HIDE DEF spec
<1>6. q \in RequestState /\ q.since = since /\ q.spec = spec /\ q.stage = "annotated" /\ q.basis = req[r].basis
  BY <1>2, <1>3, OfRequest DEF RequestState
<1> HIDE DEF q
<1>7. /\ req' \in [Requests -> RequestState] /\ req'[r] = q
      /\ \A p \in Requests \ {r} : req'[p] = req[p]
  BY <1>4, <1>6, OfRequest
<1>8. q.since.touched = touched /\ q.since.version = atTouch
  BY <1>6
<1> HIDE DEF since
<1>9. file' = file /\ touched' = touched /\ atTouch' = atTouch
  BY <1>5 DEF disk
<1>10. TypeOK'
  BY <1>5, <1>7 DEF TimesInv, TypeOK, disk, given
<1>11. SettingsExist'
  BY <1>2, <1>5, <1>6, <1>7, OfRequest DEF TimesInv, SettingsExist
<1>12. SinceTimes(q)
  BY <1>1, <1>8 DEF TimesInv, SinceTimes
<1>13. StageTimes(q)
  BY <1>2, <1>4, <1>6, <1>8, OfRequest DEF StageTimes
<1>14. ASSUME NEW p \in Requests PROVE SinceTimes(req[p])' /\ StageTimes(req[p])'
  BY <1>5, <1>7, <1>9, <1>12, <1>13 DEF TimesInv, SinceTimes, StageTimes, AtLeast
<1>15. SameTime'
  <2>1. ASSUME NEW p \in Requests, req[p].since.touched = touched
        PROVE  req[p].since.version = atTouch
    BY <2>1 DEF TimesInv, SinceTimes
  <2>2. ASSUME NEW p \in Requests, NEW o \in Requests, req'[p].since.touched = req'[o].since.touched
        PROVE  req'[p].since.version = req'[o].since.version
    <3>1. CASE p = r /\ o # r
      BY <1>7, <1>8, <2>1, <2>2, <3>1
    <3>2. CASE p # r /\ o = r
      BY <1>7, <1>8, <2>1, <2>2, <3>2
    <3>3. CASE p # r /\ o # r
      BY <1>7, <2>2, <3>3 DEF TimesInv, SameTime
    <3> QED BY <3>1, <3>2, <3>3
  <2> QED BY <2>2 DEF SameTime
<1>16. CacheTimes'
  BY <1>5, <1>7, <1>8, <1>9 DEF TimesInv, CacheTimes, AtLeast
<1> QED BY <1>9, <1>10, <1>11, <1>14, <1>15, <1>16 DEF TimesInv

LEMMA ServeAsIsTimes ==
  ASSUME TimesInv, NEW r \in Requests, ServeAsIs(r)
  PROVE  TimesInv'
<1>1. /\ req[r].stage = "annotated" /\ Serve(r, req[r].spec, req[r].basis, nested)
      /\ UNCHANGED <<disk, given, nested, cache, promises>>
  BY DEF ServeAsIs
<1>2. req[r].basis = 0 /\ req[r].spec.restart = req[r].since.touched
  BY <1>1, OfRequest DEF StageTimes
<1>3. req[r].basis \in {0} \cup Versions
  BY <1>2
<1> QED BY <1>1, <1>2, <1>3, OfRequest, ServeTimes

\* What is in the cache under the request's key is not older than its time.
LEMMA LookUpTimes ==
  ASSUME TimesInv, NEW r \in Requests, LookUp(r)
  PROVE  TimesInv'
<1> DEFINE key == CacheKey(req[r].spec)
           stage == IF key \in DOMAIN cache THEN "waiting" ELSE "finding"
           promise == IF key \in DOMAIN cache THEN cache[key] ELSE req[r].promise
           q == [req[r] EXCEPT !.lookup = key, !.stage = stage, !.promise = promise]
<1>1. key \in Keys /\ key.restart = req[r].spec.restart
  BY OfRequest, KeyTypes DEF CacheKey
<1>2. req[r].stage = "annotated" /\ req[r].basis = 0 /\ req[r].spec.restart = req[r].since.touched
  BY OfRequest DEF LookUp, StageTimes
<1>3. req' = [req EXCEPT ![r] = q]
  BY OfRequest DEF LookUp, RequestState
<1>4. UNCHANGED <<disk, given, nested, cache, promises, scheds, registry>>
  BY DEF LookUp
<1> HIDE DEF key
<1>5. promise \in Nat
  <2>1. DOMAIN promises = 1 .. Len(promises)
    BY LenProperties DEF TimesInv, TypeOK
  <2>2. key \in DOMAIN cache => cache[key] \in DOMAIN promises
    BY DEF TimesInv, TypeOK, PartialFunction
  <2> QED BY <2>1, <2>2, OfRequest DEF RequestState
<1>6. stage = "waiting" => promise \in DOMAIN promises /\ AtLeast(promise, req[r].since.version)
  BY <1>1, <1>2 DEF TimesInv, TypeOK, PartialFunction, CacheTimes
<1>7. stage \in {"waiting", "finding"}
  OBVIOUS
<1> HIDE DEF stage, promise
<1>8. /\ q \in RequestState /\ q.since = req[r].since /\ q.spec = req[r].spec
      /\ q.stage = stage /\ q.promise = promise /\ q.lookup = key /\ q.basis = req[r].basis
  BY <1>1, <1>5, <1>7, OfRequest DEF RequestState
<1> HIDE DEF q
<1>9. StageTimes(q)
  BY <1>1, <1>2, <1>6, <1>7, <1>8 DEF StageTimes
<1> QED BY <1>3, <1>4, <1>8, <1>9, OfRequest, UnservedTimes

LEMMA StatTimes ==
  ASSUME TimesInv, NEW r \in Requests, Stat(r)
  PROVE  TimesInv'
<1> DEFINE q == [req[r] EXCEPT !.stage = "found", !.basis = file]
<1>1. /\ req[r].stage = "finding" /\ req' = [req EXCEPT ![r] = q]
      /\ UNCHANGED <<disk, given, nested, cache, promises, scheds, registry>>
  BY OfRequest DEF Stat, RequestState
<1>2. /\ q \in RequestState /\ q.since = req[r].since /\ q.spec = req[r].spec
      /\ q.stage = "found" /\ q.basis = file /\ q.lookup = req[r].lookup
  BY OfRequest DEF RequestState
<1> HIDE DEF q
<1>3. StageTimes(q)
  <2>1. file >= req[r].since.version
    BY OfRequest DEF SinceTimes, RequestState
  <2>2. q.basis # 0
    BY <1>2, OfRequest
  <2> QED BY <1>1, <1>2, <2>1, OfRequest DEF StageTimes
<1> QED BY <1>1, <1>2, <1>3, OfRequest, UnservedTimes

LEMMA RejectTimes ==
  ASSUME TimesInv, NEW r \in Requests, Reject(r)
  PROVE  TimesInv'
<1> DEFINE q == [req[r] EXCEPT !.stage = "failed"]
<1>1. /\ req' = [req EXCEPT ![r] = q]
      /\ UNCHANGED <<disk, given, nested, cache, promises, scheds, registry>>
  BY OfRequest DEF Reject, RequestState
<1>2. /\ q \in RequestState /\ q.since = req[r].since /\ q.spec = req[r].spec
      /\ q.stage = "failed"
  BY OfRequest DEF RequestState
<1> HIDE DEF q
<1>3. StageTimes(q)
  BY <1>2 DEF StageTimes
<1> QED BY <1>1, <1>2, <1>3, OfRequest, UnservedTimes

\* What is in a promise that a request waits for is not older than its time.
LEMMA OfPromise ==
  ASSUME TimesInv, NEW r \in Requests, req[r].stage = "waiting",
         promises[req[r].promise].state # "reading"
  PROVE  /\ promises[req[r].promise].version \in Versions
         /\ promises[req[r].promise].version >= req[r].since.version
<1>1. req[r].promise \in DOMAIN promises /\ AtLeast(req[r].promise, req[r].since.version)
  BY OfRequest DEF StageTimes
<1>2. promises[req[r].promise] \in Promise
  BY <1>1, LenProperties, ElementOfSeq DEF TimesInv, TypeOK
<1>3. promises[req[r].promise].version >= req[r].since.version
  BY <1>1 DEF AtLeast
<1>4. req[r].since.version \in Versions
  BY OfRequest DEF RequestState
<1> QED BY <1>2, <1>3, <1>4, OfRequest DEF Promise

LEMMA ServeUnmergedTimes ==
  ASSUME TimesInv, NEW r \in Requests, ServeUnmerged(r)
  PROVE  TimesInv'
<1> DEFINE version == promises[req[r].promise].version
<1>1. /\ req[r].stage = "waiting" /\ promises[req[r].promise].state = "null"
      /\ Serve(r, req[r].spec, version, nested)
      /\ UNCHANGED <<disk, given, nested, cache, promises>>
  BY DEF ServeUnmerged
<1>2. req[r].spec.restart = req[r].since.touched
  BY <1>1, OfRequest DEF StageTimes
<1>3. version \in Versions /\ version >= req[r].since.version
  BY <1>1, OfPromise
<1> HIDE DEF version
<1> QED BY <1>1, <1>2, <1>3, OfRequest, ServeTimes

\* The settings of an AppSpec after a version of the file was merged.
LEMMA MergedObjects ==
  ASSUME TimesInv, NEW r \in Requests, NEW version \in Versions
  PROVE  LET objects == [nested EXCEPT ![req[r].spec.nested] = Merge(Contents[version], @)]
         IN  objects \in Seq(Settings) /\ DOMAIN objects = DOMAIN nested
<1> DEFINE i == req[r].spec.nested
           merged == Merge(Contents[version], nested[i])
<1>1. merged \in Settings
  <2>1. Contents[version] \in Local
    BY LocalConfigAssumption, LenProperties, ElementOfSeq DEF Versions
  <2> QED BY <2>1, OfRequest, KeyTypes, MergeTypes
<1>2. i \in 1 .. Len(nested)
  BY OfRequest
<1> HIDE DEF i, merged
<1>3. [nested EXCEPT ![i] = merged] \in Seq(Settings)
  BY <1>1, <1>2, OfRequest, ExceptSeq
<1> QED BY <1>3 DEF i, merged

LEMMA ServeMergedTimes ==
  ASSUME TimesInv, NEW r \in Requests, ServeMerged(r)
  PROVE  TimesInv'
<1> DEFINE version == promises[req[r].promise].version
           objects == [nested EXCEPT ![req[r].spec.nested] = Merge(Contents[version], @)]
<1>1. /\ req[r].stage = "waiting" /\ promises[req[r].promise].state = "read"
      /\ nested' = objects
      /\ Serve(r, req[r].spec, version, objects)
      /\ UNCHANGED <<disk, given, cache, promises>>
  BY DEF ServeMerged
<1>2. req[r].spec.restart = req[r].since.touched
  BY <1>1, OfRequest DEF StageTimes
<1>3. version \in Versions /\ version >= req[r].since.version
  BY <1>1, OfPromise
<1>4. objects \in Seq(Settings) /\ DOMAIN objects = DOMAIN nested
  BY <1>3, MergedObjects
<1> HIDE DEF version, objects
<1> QED BY <1>1, <1>2, <1>3, <1>4, OfRequest, ServeTimes

\* A new promise is of the version that was found; who has the same key is of the same time.
LEMMA FindConfigTimes ==
  ASSUME TimesInv, NEW r \in Requests, FindConfig(r)
  PROVE  TimesInv'
<1> DEFINE n == Len(promises) + 1
           p == IF Contents[req[r].basis].state = "absent"
                THEN [state |-> "null", version |-> req[r].basis]
                ELSE [state |-> "reading", version |-> 0]
           q == [req[r] EXCEPT !.stage = "waiting", !.promise = n]
           key == req[r].lookup
           time == req[r].since
<1>1. /\ req[r].stage = "found"
      /\ req' = [req EXCEPT ![r] = q]
      /\ cache' = Set(cache, key, n)
      /\ promises' = Append(promises, p)
      /\ UNCHANGED <<disk, given, nested, scheds, registry>>
  BY OfRequest DEF FindConfig, RequestState
<1>2. /\ key \in Keys /\ key.restart = time.touched
      /\ req[r].basis \in {0} \cup Versions /\ req[r].basis >= time.version
      /\ time.version \in Versions /\ req[r].spec.restart = time.touched
  BY <1>1, OfRequest DEF StageTimes, RequestState
<1>3. req[r].basis \in Versions
  BY <1>2, OfRequest
<1>4. p \in Promise /\ (p.state # "reading" => p.version >= time.version)
  BY <1>2, <1>3 DEF Promise
<1> HIDE DEF p
<1>5. /\ promises \in Seq(Promise) /\ Len(promises) \in Nat /\ DOMAIN promises = 1 .. Len(promises)
  BY LenProperties DEF TimesInv, TypeOK
<1>6. /\ promises' \in Seq(Promise) /\ DOMAIN promises' = 1 .. n
      /\ \A i \in DOMAIN promises : promises'[i] = promises[i]
      /\ promises'[n] = p
  BY <1>1, <1>4, <1>5
<1>7. n \in Nat /\ n \in DOMAIN promises' /\ DOMAIN promises \subseteq DOMAIN promises'
  BY <1>5, <1>6
<1> HIDE DEF n
<1>8. /\ q \in RequestState /\ q.since = time /\ q.spec = req[r].spec
      /\ q.stage = "waiting" /\ q.promise = n /\ q.lookup = key
  BY <1>7, OfRequest DEF RequestState
<1> HIDE DEF q
<1>9. /\ req' \in [Requests -> RequestState] /\ req'[r] = q
      /\ \A o \in Requests \ {r} : req'[o] = req[o]
      /\ \A o \in Requests : req'[o].since = req[o].since /\ req'[o].spec = req[o].spec
  BY <1>1, <1>8, OfRequest
<1>10. promises'[n].state # "reading" => promises'[n].version >= time.version
  BY <1>4, <1>6
<1>11. ASSUME NEW i \in DOMAIN promises, NEW v, AtLeast(i, v)
       PROVE  promises'[i].state # "reading" => promises'[i].version >= v
  BY <1>6, <1>11 DEF AtLeast
<1>12. file' = file /\ touched' = touched /\ atTouch' = atTouch
  BY <1>1 DEF disk
<1>13. TypeOK'
  <2>1. PartialFunction(cache', Keys, DOMAIN promises')
    BY <1>1, <1>2, <1>7, PartialFunctionSteps DEF TimesInv, TypeOK
  <2> QED BY <1>1, <1>6, <1>9, <2>1 DEF TimesInv, TypeOK, disk, given
<1>14. SettingsExist'
  BY <1>1, <1>9 DEF TimesInv, SettingsExist
<1>15. ASSUME NEW o \in Requests PROVE SinceTimes(req[o])' /\ StageTimes(req[o])'
  <2>1. SinceTimes(req[o])'
    BY <1>9, <1>12 DEF TimesInv, SinceTimes
  <2>2. CASE o = r
    <3>1. req'[o] = q
      BY <1>9, <2>2
    <3>2. StageTimes(req[o])'
      BY <1>2, <1>7, <1>8, <1>10, <3>1 DEF StageTimes, AtLeast
    <3> QED BY <2>1, <3>2
  <2>3. CASE o # r
    <3>1. StageTimes(req[o]) /\ req'[o] = req[o]
      BY <1>9, <2>3 DEF TimesInv
    <3>2. req[o].stage = "waiting" =>
            /\ req[o].promise \in DOMAIN promises'
            /\ promises'[req[o].promise].state # "reading" =>
                 promises'[req[o].promise].version >= req[o].since.version
      BY <1>7, <1>11, <3>1 DEF StageTimes
    <3>3. StageTimes(req[o])'
      BY <3>1, <3>2 DEF StageTimes, AtLeast
    <3> QED BY <2>1, <3>3
  <2> QED BY <2>2, <2>3
<1>16. SameTime'
  BY <1>9 DEF TimesInv, SameTime
<1>17. CacheTimes'
  <2> SUFFICES ASSUME NEW k \in DOMAIN cache'
               PROVE  /\ k.restart <= touched
                      /\ k.restart = touched => AtLeast(cache[k], atTouch)'
                      /\ \A o \in Requests : req[o].since.touched = k.restart =>
                           AtLeast(cache[k], req[o].since.version)'
    BY <1>9, <1>12 DEF CacheTimes, AtLeast
  <2>1. CASE k = key
    <3>1. cache'[k] = n
      BY <1>1, <2>1 DEF Set
    <3>2. SinceTimes(req[r])
      BY OfRequest
    <3>3. ASSUME NEW o \in Requests, req[o].since.touched = k.restart
          PROVE  req[o].since.version = time.version
      BY <1>2, <2>1, <3>3 DEF TimesInv, SameTime
    <3>4. k.restart <= touched /\ (k.restart = touched => time.version = atTouch)
      BY <1>2, <2>1, <3>2 DEF SinceTimes
    <3>5. k.restart = touched => AtLeast(cache[k], atTouch)'
      BY <1>10, <1>12, <3>1, <3>4 DEF AtLeast
    <3>6. \A o \in Requests : req[o].since.touched = k.restart =>
            AtLeast(cache[k], req[o].since.version)'
      BY <1>9, <1>10, <3>1, <3>3 DEF AtLeast
    <3> QED BY <3>4, <3>5, <3>6
  <2>2. CASE k # key
    <3>1. k \in DOMAIN cache /\ cache'[k] = cache[k]
      BY <1>1, <2>2 DEF Set
    <3>2. cache[k] \in DOMAIN promises
      BY <3>1 DEF TimesInv, TypeOK, PartialFunction
    <3>3. promises'[cache[k]] = promises[cache[k]]
      BY <1>6, <3>2
    <3> QED BY <1>9, <1>12, <3>1, <3>3 DEF TimesInv, CacheTimes, AtLeast
  <2> QED BY <2>1, <2>2
<1>18. atTouch' <= file'
  BY <1>12 DEF TimesInv
<1> QED BY <1>13, <1>14, <1>15, <1>16, <1>17, <1>18 DEF TimesInv

\* A promise that is resolved now is not older than anything.
LEMMA ReadTimes ==
  ASSUME TimesInv, NEW p \in DOMAIN promises, Read(p)
  PROVE  TimesInv'
<1> DEFINE n == [state |-> "read", version |-> file]
<1>1. /\ promises' = [promises EXCEPT ![p] = n]
      /\ UNCHANGED <<disk, given, nested, cache, req, scheds, registry>>
  BY DEF Read
<1>2. /\ promises \in Seq(Promise) /\ DOMAIN promises = 1 .. Len(promises)
      /\ n \in Promise /\ n.version = file
  BY LenProperties DEF TimesInv, TypeOK, Promise
<1> HIDE DEF n
<1>3. /\ promises' \in Seq(Promise) /\ Len(promises') = Len(promises)
      /\ \A i \in 1 .. Len(promises) : promises'[i] = IF i = p THEN n ELSE promises[i]
  BY <1>1, <1>2, ExceptSeq
<1>4. DOMAIN promises' = DOMAIN promises
  BY <1>2, <1>3, LenProperties
<1>5. file' = file /\ touched' = touched /\ atTouch' = atTouch
  BY <1>1 DEF disk
<1>6. ASSUME NEW i \in DOMAIN promises, NEW v, v <= file, AtLeast(i, v), file \in Nat, v \in Nat
      PROVE  promises'[i].state # "reading" => promises'[i].version >= v
  <2>1. CASE i = p
    BY <1>2, <1>3, <1>6, <2>1
  <2>2. CASE i # p
    BY <1>2, <1>3, <1>6, <2>2 DEF AtLeast
  <2> QED BY <2>1, <2>2
<1>7. file \in Nat /\ atTouch \in Nat /\ atTouch <= file
  BY LocalConfigAssumption, LenProperties DEF TimesInv, TypeOK, Versions
<1>8. \A r \in Requests : req[r].since.version \in Nat /\ req[r].since.version <= file
  BY OfRequest DEF SinceTimes, RequestState
<1>9. TypeOK'
  BY <1>1, <1>3, <1>4 DEF TimesInv, TypeOK, disk, given
<1>10. SettingsExist'
  BY <1>1 DEF TimesInv, SettingsExist
<1>11. ASSUME NEW r \in Requests PROVE SinceTimes(req[r])' /\ StageTimes(req[r])'
  <2>1. SinceTimes(req[r]) /\ StageTimes(req[r])
    BY DEF TimesInv
  <2>2. req[r].stage = "waiting" =>
          /\ req[r].promise \in DOMAIN promises'
          /\ promises'[req[r].promise].state # "reading" =>
               promises'[req[r].promise].version >= req[r].since.version
    BY <1>4, <1>6, <1>7, <1>8, <2>1 DEF StageTimes
  <2>3. SinceTimes(req[r])'
    BY <1>1, <1>5, <2>1 DEF SinceTimes
  <2>4. StageTimes(req[r])'
    BY <1>1, <2>1, <2>2 DEF StageTimes, AtLeast
  <2> QED BY <2>3, <2>4
<1>12. SameTime'
  BY <1>1 DEF TimesInv, SameTime
<1>13. CacheTimes'
  <2> SUFFICES ASSUME NEW k \in DOMAIN cache
               PROVE  /\ k.restart <= touched
                      /\ k.restart = touched => AtLeast(cache[k], atTouch)'
                      /\ \A r \in Requests : req[r].since.touched = k.restart =>
                           AtLeast(cache[k], req[r].since.version)'
    BY <1>1, <1>5 DEF CacheTimes, AtLeast
  <2>1. cache[k] \in DOMAIN promises
    BY DEF TimesInv, TypeOK, PartialFunction
  <2>2. /\ k.restart <= touched
        /\ k.restart = touched => AtLeast(cache[k], atTouch)
        /\ \A r \in Requests : req[r].since.touched = k.restart => AtLeast(cache[k], req[r].since.version)
    BY DEF TimesInv, CacheTimes
  <2>3. k.restart = touched => AtLeast(cache[k], atTouch)'
    BY <1>1, <1>5, <1>6, <1>7, <2>1, <2>2 DEF AtLeast
  <2>4. ASSUME NEW r \in Requests, req[r].since.touched = k.restart
        PROVE  AtLeast(cache[k], req[r].since.version)'
    BY <1>1, <1>6, <1>7, <1>8, <2>1, <2>2, <2>4 DEF AtLeast
  <2> QED BY <2>2, <2>3, <2>4
<1> QED BY <1>5, <1>7, <1>9, <1>10, <1>11, <1>12, <1>13 DEF TimesInv

\* A scheduler's workers come and go.
LEMMA SchedulerTimes ==
  ASSUME TimesInv, NEW s \in DOMAIN scheds, NEW v \in Scheduler, v.spec = scheds[s].spec,
         scheds' = [scheds EXCEPT ![s] = v], NEW k,
         registry' = registry \/ registry' = Delete(registry, k),
         cache' = cache \/ cache' = Delete(cache, k),
         UNCHANGED <<disk, given, nested, promises, req>>
  PROVE  TimesInv'
<1>1. /\ scheds \in Seq(Scheduler) /\ DOMAIN scheds = 1 .. Len(scheds)
  BY LenProperties DEF TimesInv, TypeOK
<1>2. /\ scheds' \in Seq(Scheduler) /\ Len(scheds') = Len(scheds)
      /\ \A i \in 1 .. Len(scheds) : scheds'[i] = IF i = s THEN v ELSE scheds[i]
  BY <1>1, ExceptSeq
<1>3. DOMAIN scheds' = DOMAIN scheds /\ \A i \in DOMAIN scheds : scheds'[i].spec = scheds[i].spec
  BY <1>1, <1>2, LenProperties
<1>4. /\ PartialFunction(registry', Keys, DOMAIN scheds')
      /\ PartialFunction(cache', Keys, DOMAIN promises')
  <2>1. PartialFunction(registry, Keys, DOMAIN scheds) /\ PartialFunction(cache, Keys, DOMAIN promises)
    BY DEF TimesInv, TypeOK
  <2>2. PartialFunction(Delete(registry, k), Keys, DOMAIN scheds)
    BY <2>1, PartialFunctionSteps
  <2>3. PartialFunction(Delete(cache, k), Keys, DOMAIN promises)
    BY <2>1, PartialFunctionSteps
  <2> QED BY <1>3, <2>1, <2>2, <2>3
<1>5. TypeOK'
  BY <1>2, <1>4 DEF TimesInv, TypeOK, disk, given
<1>6. SettingsExist'
  BY <1>3 DEF TimesInv, SettingsExist
<1>7. \A r \in Requests : (SinceTimes(req[r]) /\ StageTimes(req[r]))'
  BY DEF disk, TimesInv, SinceTimes, StageTimes, AtLeast
<1>8. SameTime' /\ atTouch' <= file'
  BY DEF disk, TimesInv, SameTime
<1>9. CacheTimes'
  BY DEF disk, TimesInv, CacheTimes, AtLeast, Delete
<1> QED BY <1>5, <1>6, <1>7, <1>8, <1>9 DEF TimesInv

LEMMA WorkerTimes ==
  ASSUME TimesInv, NEW s \in DOMAIN scheds, Vacant(s) \/ StartFails(s) \/ LateExit(s)
  PROVE  TimesInv'
<1>1. scheds[s] \in Scheduler
  BY LenProperties, ElementOfSeq DEF TimesInv, TypeOK
<1> DEFINE k == Announced(s)
<1>2. CASE Vacant(s)
  <2> DEFINE v == [scheds[s] EXCEPT !.busy = FALSE]
  <2>1. v \in Scheduler /\ v.spec = scheds[s].spec
    BY <1>1 DEF Scheduler
  <2>2. /\ scheds' = [scheds EXCEPT ![s] = v]
        /\ registry' = registry \/ registry' = Delete(registry, k)
        /\ cache' = cache \/ cache' = Delete(cache, k)
        /\ UNCHANGED <<disk, given, nested, promises, req>>
    BY <1>2 DEF Vacant, Announce
  <2> HIDE DEF v, k
  <2> QED BY <2>1, <2>2, SchedulerTimes
<1>3. CASE StartFails(s)
  <2>1. PICK process \in {0, 1} :
          scheds' = [scheds EXCEPT ![s].busy = FALSE, ![s].late = @ + process,
                                   ![s].gaveUp = @ \/ process = 1]
    BY <1>3 DEF StartFails
  <2> DEFINE late == scheds[s].late + process
             gaveUp == scheds[s].gaveUp \/ process = 1
             v == [scheds[s] EXCEPT !.busy = FALSE, !.late = late, !.gaveUp = gaveUp]
  <2>2. scheds' = [scheds EXCEPT ![s] = v]
    BY <2>1
  <2>3. gaveUp \in BOOLEAN
    BY <1>1, Zenon DEF Scheduler
  <2>4. late \in Nat
    BY <1>1 DEF Scheduler
  <2> HIDE DEF gaveUp, late
  <2>5. v \in Scheduler /\ v.spec = scheds[s].spec
    BY <1>1, <2>3, <2>4 DEF Scheduler
  <2> HIDE DEF v
  <2> QED BY <1>3, <2>2, <2>5, SchedulerTimes DEF StartFails
<1>4. CASE LateExit(s)
  <2> DEFINE v == [scheds[s] EXCEPT !.late = @ - 1]
  <2>1. v \in Scheduler /\ v.spec = scheds[s].spec
    BY <1>1, <1>4 DEF Scheduler, LateExit
  <2>2. /\ scheds' = [scheds EXCEPT ![s] = v]
        /\ registry' = registry \/ registry' = Delete(registry, k)
        /\ cache' = cache \/ cache' = Delete(cache, k)
        /\ UNCHANGED <<disk, given, nested, promises, req>>
    BY <1>4 DEF LateExit, Announce
  <2> HIDE DEF v, k
  <2> QED BY <2>1, <2>2, SchedulerTimes
<1> QED BY <1>2, <1>3, <1>4

LEMMA StepTimes == TimesInv /\ [Next]_vars => TimesInv'
<1> SUFFICES ASSUME TimesInv, [Next]_vars PROVE TimesInv'
  OBVIOUS
<1>1. CASE Edit \/ Touch \/ Reload
  BY <1>1, EditTimes, TouchTimes, ReloadTimes
<1>2. ASSUME NEW r \in Requests,
             \/ Route(r) \/ Annotate(r) \/ ServeAsIs(r) \/ LookUp(r) \/ Stat(r)
             \/ FindConfig(r) \/ ServeUnmerged(r) \/ ServeMerged(r) \/ Reject(r)
      PROVE  TimesInv'
  BY <1>2, RouteTimes, AnnotateTimes, ServeAsIsTimes, LookUpTimes, StatTimes, FindConfigTimes,
     ServeUnmergedTimes, ServeMergedTimes, RejectTimes
<1>3. ASSUME NEW p \in DOMAIN promises, Read(p) PROVE TimesInv'
  BY <1>3, ReadTimes
<1>4. ASSUME NEW s \in DOMAIN scheds, Vacant(s) \/ StartFails(s) \/ LateExit(s) PROVE TimesInv'
  BY <1>4, WorkerTimes
<1>5. CASE UNCHANGED vars
  <2>1. /\ TypeOK' /\ SettingsExist'
    BY <1>5 DEF TimesInv, TypeOK, SettingsExist, vars, disk, given
  <2>2. (\A r \in Requests : SinceTimes(req[r]) /\ StageTimes(req[r]))'
    BY <1>5 DEF TimesInv, SinceTimes, StageTimes, AtLeast, vars, disk
  <2>3. SameTime' /\ CacheTimes' /\ atTouch' <= file'
    BY <1>5 DEF TimesInv, SameTime, CacheTimes, AtLeast, vars, disk
  <2> QED BY <2>1, <2>2, <2>3 DEF TimesInv
<1> QED BY <1>1, <1>2, <1>3, <1>4, <1>5 DEF Next

(***************************************************************************)
(* TimesInv is an invariant: each time stamp of restart.txt goes with one  *)
(* version of .shiny_app.conf, and what the cache has under a key, what a  *)
(* request has found and what it waits for is of that version or later.    *)
(***************************************************************************)
THEOREM TimesInvariant == Spec => []TimesInv
<1> QED BY InitTimes, StepTimes, PTL DEF Spec

(***************************************************************************)
(* Whatever the requests, the locations and the contents of the file, a    *)
(* request that finds restart.txt touched gets the local configuration and *)
(* the scheduler of that time or later.                                    *)
(***************************************************************************)
THEOREM RestartsTakeEffect == Spec => []RestartTakesEffect
<1>1. TimesInv => RestartTakesEffect
  BY DEF TimesInv, StageTimes, RestartTakesEffect, Served
<1> QED BY <1>1, TimesInvariant, PTL

-----------------------------------------------------------------------------
(* Who an app runs as                                                      *)

(***************************************************************************)
(* What RunsAsMeant says of the list a scheduler is asked for.             *)
(***************************************************************************)
MeantIndices == {i \in 1 .. Len(location.runAs) : Meant(location.runAs[i])}

FirstMeant == IF MeantIndices # {} THEN Min(MeantIndices) ELSE 0

MeantFor(runAs) ==
  LET first == FirstMeant
  IN  /\ Len(runAs) = 1
      /\ runAs[1] =
           IF location.model = "user_apps" \/ ~location.listed THEN Owner
           ELSE IF first = 0 THEN Nobody
           ELSE IF location.runAs[first] = HomeUser THEN Owner
           ELSE location.runAs[first]

\* In the home directory of a user only the owner, who is in a group if there is one, has the app.
RightUser(q) ==
  q.user = Owner /\ (location.model \in UserModels => Owner \in location.members)

(***************************************************************************)
(* Until it is squashed, a request's list is the location's, with the      *)
(* owner for the special name.                                             *)
(***************************************************************************)
Listed(q) ==
  /\ q.stage \in {"routed", "annotated", "finding", "found", "waiting"} =>
       q.spec.runAs = ListFor(Owner) /\ RightUser(q)
  /\ q.stage = "served" => MeantFor(q.issued.runAs) /\ RightUser(q)

RunsInv ==
  /\ runas = location.runAs
  /\ \A r \in Requests : Listed(req[r])

\* The first of the list who is a user is the first of the location's who is meant.
LEMMA SquashedAsMeant ==
  ASSUME location \in Location, runas = location.runAs,
         NEW spec \in Specs, spec.runAs = ListFor(Owner)
  PROVE  MeantFor(Squash(spec).runAs)
<1> DEFINE list == spec.runAs
           I == {i \in 1 .. Len(list) : list[i] \notin Special}
           J == MeantIndices
           first == SelectInSeq(list, LAMBDA u : u \notin Special)
           squashed == IF first = 0 THEN <<Nobody>> ELSE <<list[first]>>
<1>1. first = IF I # {} THEN Min(I) ELSE 0
  BY DEF SelectInSeq
<1>2. FirstMeant = IF J # {} THEN Min(J) ELSE 0
  BY DEF FirstMeant
<1>3. (I # {} => Min(I) \in I) /\ (J # {} => Min(J) \in J)
  <2>1. I \in SUBSET Nat /\ J \in SUBSET Nat
    BY DEF MeantIndices
  <2> QED BY <2>1, MinIsElement, Zenon
<1>4. Squash(spec).runAs = squashed
  BY DEF Squash, Specs
<1>5. Owner \notin Special /\ HomeUser \in Special /\ Owner \in Names \cup Special
  BY LocalConfigAssumption
<1>6. /\ runas \in Seq(Users) /\ Len(runas) \in Nat /\ DOMAIN runas = 1 .. Len(runas)
      /\ list \in Seq(Users)
      /\ location.model \notin UserModels => location.listed
      /\ location.model \in {"app_dir", "site_dir"} \cup UserModels
  <2>1. runas \in Seq(Users)
    BY DEF Location
  <2>2. list \in Seq(Users)
    BY <1>5, <2>1, ListTypes
  <2> QED BY <2>1, <2>2, LenProperties DEF Location
<1>7. CASE location.model = "user_apps" \/ (location.model = "user_dirs" /\ ~location.listed)
  <2>1. list = <<Owner>>
    BY <1>7 DEF ListFor
  <2>2. 1 \in I
    BY <1>5, <2>1
  <2>3. first = 1
    BY <1>1, <1>3, <2>1, <2>2
  <2>4. squashed = <<Owner>>
    BY <2>1, <2>3
  <2> HIDE DEF squashed
  <2> QED BY <1>4, <1>7, <2>4 DEF MeantFor
<1>8. CASE location.model = "user_dirs" /\ location.listed
  <2>1. list = [i \in DOMAIN runas |-> IF runas[i] = HomeUser THEN Owner ELSE runas[i]]
    BY <1>8 DEF ListFor
  <2>2. Len(list) = Len(runas)
    <3>1. DOMAIN list = 1 .. Len(runas)
      BY <1>6, <2>1
    <3> QED BY <1>6, <3>1, LenProperties
  <2>3. I = J
    BY <1>5, <1>6, <1>8, <2>1, <2>2 DEF MeantIndices, Meant
  <2>4. first # 0 => first \in 1 .. Len(runas)
    BY <1>1, <1>3, <2>2
  <2>5. first # 0 => list[first] = IF runas[first] = HomeUser THEN Owner ELSE runas[first]
    BY <1>6, <2>1, <2>4
  <2>6. FirstMeant = first
    <3> HIDE DEF first, I, J
    <3> QED BY <1>1, <1>2, <2>3
  <2>7. Len(squashed) = 1 /\ squashed[1] = IF first = 0 THEN Nobody ELSE list[first]
    OBVIOUS
  <2> HIDE DEF squashed, first, list
  <2> QED BY <1>4, <1>8, <2>5, <2>6, <2>7 DEF MeantFor
<1>9. CASE location.model \notin UserModels
  <2>1. list = runas /\ location.model # "user_apps" /\ location.model # "user_dirs" /\ location.listed
    BY <1>6, <1>9 DEF ListFor, UserModels
  <2>2. I = J
    BY <2>1 DEF MeantIndices, Meant
  <2>3. first # 0 => first \in I
    BY <1>1, <1>3
  <2>4. first # 0 => list[first] # HomeUser
    BY <1>5, <2>3
  <2>5. FirstMeant = first
    <3> HIDE DEF first, I, J
    <3> QED BY <1>1, <1>2, <2>2
  <2>6. Len(squashed) = 1 /\ squashed[1] = IF first = 0 THEN Nobody ELSE list[first]
    OBVIOUS
  <2> HIDE DEF squashed, first, list, I, J
  <2> QED BY <1>4, <2>1, <2>4, <2>5, <2>6 DEF MeantFor
<1> QED BY <1>6, <1>7, <1>8, <1>9 DEF UserModels

\* None of this changes unless the location or the router's list does.
LEMMA SameLists ==
  ASSUME location' = location, runas' = runas
  PROVE  /\ \A user : ListFor(user)' = ListFor(user)
         /\ FirstMeant' = FirstMeant
<1>1. \A user : ListFor(user)' = ListFor(user)
  BY DEF ListFor
<1>2. MeantIndices' = MeantIndices
  BY DEF MeantIndices, Meant
<1> QED BY <1>1, <1>2 DEF FirstMeant

\* A request that is to be served gets a scheduler for whom it is meant.
LEMMA ServeRuns ==
  ASSUME TimesInv, RunsInv, NEW r \in Requests, req[r].stage \in {"annotated", "waiting"},
         NEW spec \in Specs, spec.runAs = req[r].spec.runAs, NEW basis,
         NEW objects \in Seq(Settings), spec.nested \in DOMAIN objects,
         Serve(r, spec, basis, objects), UNCHANGED given
  PROVE  RunsInv'
<1> DEFINE squashed == Squash(spec)
           key == GetKey(squashed, objects)
<1>1. req[r] \in RequestState /\ req \in [Requests -> RequestState] /\ location \in Location
  BY LocalConfigAssumption DEF TimesInv, TypeOK
<1>2. Listed(req[r])
  BY DEF RunsInv
<1>3. spec.runAs = ListFor(Owner) /\ RightUser(req[r])
  BY <1>2 DEF Listed
<1>4. MeantFor(squashed.runAs)
  BY <1>1, <1>3, SquashedAsMeant DEF RunsInv
<1>5. key.runAs = squashed.runAs
  BY DEF GetKey
<1>6. req' = [req EXCEPT ![r].stage = "served", ![r].basis = basis, ![r].spec = squashed,
                         ![r].issued = key]
  BY DEF Serve
<1> HIDE DEF squashed, key
<1>7. req'[r].stage = "served" /\ req'[r].issued = key /\ req'[r].user = req[r].user
  BY <1>1, <1>6 DEF RequestState
<1>8. location' = location /\ runas' = runas
  BY DEF given
<1>9. ASSUME NEW p \in Requests PROVE Listed(req[p])'
  <2>1. CASE p = r
    BY <1>3, <1>4, <1>5, <1>7, <1>8, <2>1, SameLists DEF Listed, MeantFor, RightUser
  <2>2. CASE p # r
    <3>1. req'[p] = req[p]
      BY <1>1, <1>6, <2>2
    <3> QED BY <1>8, <3>1, SameLists DEF RunsInv, Listed, MeantFor, RightUser
  <2> QED BY <2>1, <2>2
<1> QED BY <1>8, <1>9 DEF RunsInv

\* A request that is not served keeps its user and its list.
LEMMA UnservedRuns ==
  ASSUME RunsInv, UNCHANGED given,
         \A r \in Requests :
           \/ req'[r] = req[r]
           \/ /\ req'[r].user = req[r].user /\ req'[r].spec.runAs = req[r].spec.runAs
              /\ req[r].stage \in {"routed", "annotated", "finding", "found", "waiting"}
              /\ req'[r].stage # "served"
  PROVE  RunsInv'
<1>1. location' = location /\ runas' = runas
  BY DEF given
<1> QED BY <1>1, SameLists DEF RunsInv, Listed, MeantFor, RightUser

LEMMA InitRuns == Init => RunsInv
BY DEF Init, RunsInv, Listed

\* The request's list is the location's, with its user.
LEMMA RouteRuns ==
  ASSUME TimesInv, RunsInv, NEW r \in Requests, Route(r)
  PROVE  RunsInv'
<1>1. PICK user \in IF location.model \in UserModels THEN Names \cup Special ELSE {Owner} :
        \/ /\ Endless(user) \/ Declined(user)
           /\ req' = [req EXCEPT ![r].user = user,
                                 ![r].stage = IF Endless(user) THEN "endless" ELSE "declined"]
           /\ UNCHANGED <<given, nested>>
        \/ /\ ~Endless(user) /\ ~Declined(user)
           /\ Replaced(user)
           /\ nested' = IF Cloned THEN Append(nested, nested[router]) ELSE nested
           /\ req' = [req EXCEPT ![r].user = user, ![r].stage = "routed",
                        ![r].spec = [@ EXCEPT !.nested = IF Cloned THEN Len(nested) + 1 ELSE router,
                                              !.runAs = ListFor(user)]]
  BY DEF Route
<1>2. location' = location /\ runas' = runas
  BY <1>1 DEF Replaced, given
<1>3. req[r] \in RequestState /\ req \in [Requests -> RequestState]
  BY DEF TimesInv, TypeOK
<1>4. Listed(req[r])'
  <2>1. CASE req'[r].stage \in {"endless", "declined"}
    BY <2>1 DEF Listed
  <2>2. CASE /\ ~Declined(user)
             /\ req' = [req EXCEPT ![r].user = user, ![r].stage = "routed",
                        ![r].spec = [@ EXCEPT !.nested = IF Cloned THEN Len(nested) + 1 ELSE router,
                                              !.runAs = ListFor(user)]]
    <3>1. /\ req'[r].user = user /\ req'[r].spec.runAs = ListFor(user)
          /\ req'[r].stage = "routed"
      BY <1>3, <2>2 DEF RequestState, Specs
    <3>2. user = Owner /\ (location.model \in UserModels => Owner \in location.members)
      BY <1>1, <2>2 DEF Declined
    <3> QED BY <1>2, <3>1, <3>2, SameLists DEF Listed, RightUser
  <2>3. ASSUME NEW stage \in {"endless", "declined"},
               req' = [req EXCEPT ![r].user = user, ![r].stage = stage]
        PROVE  req'[r].stage \in {"endless", "declined"}
    BY <1>3, <2>3 DEF RequestState
  <2> QED BY <1>1, <2>1, <2>2, <2>3
<1>5. ASSUME NEW p \in Requests, p # r PROVE Listed(req[p])'
  <2>1. req'[p] = req[p]
    BY <1>1, <1>3, <1>5
  <2> QED BY <1>2, <2>1, SameLists DEF RunsInv, Listed, MeantFor, RightUser
<1> QED BY <1>2, <1>4, <1>5 DEF RunsInv

\* A request that goes on before it is served.
LEMMA OnTheWayRuns ==
  ASSUME TimesInv, RunsInv, NEW r \in Requests,
         Annotate(r) \/ LookUp(r) \/ Stat(r) \/ FindConfig(r) \/ Reject(r)
  PROVE  RunsInv'
<1>1. req \in [Requests -> RequestState]
  BY DEF TimesInv, TypeOK
<1>2. \A p \in Requests \ {r} : req'[p] = req[p]
  BY <1>1 DEF Annotate, LookUp, Stat, FindConfig, Reject
<1>3. /\ req'[r].user = req[r].user /\ req'[r].spec.runAs = req[r].spec.runAs
      /\ req[r].stage \in {"routed", "annotated", "finding", "found", "waiting"}
      /\ req'[r].stage # "served"
  <2>1. req[r] \in RequestState
    BY <1>1
  <2>2. CASE Annotate(r)
    BY <1>1, <2>1, <2>2 DEF Annotate, Annotated, RequestState, Specs
  <2>3. CASE LookUp(r)
    BY <1>1, <2>1, <2>3 DEF LookUp, RequestState
  <2>4. CASE Stat(r) \/ FindConfig(r) \/ Reject(r)
    BY <1>1, <2>1, <2>4 DEF Stat, FindConfig, Reject, RequestState
  <2> QED BY <2>2, <2>3, <2>4
<1>4. UNCHANGED given
  BY DEF Annotate, LookUp, Stat, FindConfig, Reject
<1> QED BY <1>2, <1>3, <1>4, UnservedRuns

LEMMA ServedRuns ==
  ASSUME TimesInv, RunsInv, NEW r \in Requests,
         ServeAsIs(r) \/ ServeUnmerged(r) \/ ServeMerged(r)
  PROVE  RunsInv'
<1>1. CASE ServeAsIs(r)
  BY <1>1, OfRequest, ServeRuns DEF ServeAsIs
<1>2. CASE ServeUnmerged(r)
  BY <1>2, OfRequest, ServeRuns DEF ServeUnmerged
<1>3. CASE ServeMerged(r)
  <2> DEFINE version == promises[req[r].promise].version
             objects == [nested EXCEPT ![req[r].spec.nested] = Merge(Contents[version], @)]
  <2>1. /\ req[r].stage = "waiting" /\ promises[req[r].promise].state = "read"
        /\ Serve(r, req[r].spec, version, objects)
        /\ UNCHANGED given
    BY <1>3 DEF ServeMerged
  <2>2. version \in Versions
    BY <2>1, OfPromise
  <2>3. objects \in Seq(Settings) /\ DOMAIN objects = DOMAIN nested
    BY <2>2, MergedObjects
  <2> HIDE DEF version, objects
  <2> QED BY <2>1, <2>3, OfRequest, ServeRuns
<1> QED BY <1>1, <1>2, <1>3

\* The requests are left alone, and the location.
LEMMA OtherRuns ==
  ASSUME RunsInv, req' = req, location' = location,
         runas' = runas \/ runas' = location.runAs
  PROVE  RunsInv'
<1>1. runas' = runas
  BY DEF RunsInv
<1> QED BY <1>1, SameLists DEF RunsInv, Listed, MeantFor, RightUser

LEMMA StepRuns == TimesInv /\ RunsInv /\ [Next]_vars => RunsInv'
<1> SUFFICES ASSUME TimesInv, RunsInv, [Next]_vars PROVE RunsInv'
  OBVIOUS
<1>1. CASE Edit \/ Touch \/ Reload \/ UNCHANGED vars
  BY <1>1, OtherRuns DEF Edit, Touch, Reload, vars, given
<1>2. ASSUME NEW r \in Requests,
             \/ Route(r) \/ Annotate(r) \/ ServeAsIs(r) \/ LookUp(r) \/ Stat(r)
             \/ FindConfig(r) \/ ServeUnmerged(r) \/ ServeMerged(r) \/ Reject(r)
      PROVE  RunsInv'
  BY <1>2, RouteRuns, OnTheWayRuns, ServedRuns
<1>3. ASSUME NEW p \in DOMAIN promises, Read(p) PROVE RunsInv'
  BY <1>3, OtherRuns DEF Read, given
<1>4. ASSUME NEW s \in DOMAIN scheds, Vacant(s) \/ StartFails(s) \/ LateExit(s) PROVE RunsInv'
  BY <1>4, OtherRuns DEF Vacant, StartFails, LateExit, given
<1> QED BY <1>1, <1>2, <1>3, <1>4 DEF Next

(***************************************************************************)
(* An app runs as the user its location means, whoever was routed before,  *)
(* whatever the hosting model, and whether or not it is merged with local  *)
(* configuration.                                                          *)
(***************************************************************************)
THEOREM AppsRunAsMeant == Spec => []RunsAsMeant
<1>1. RunsInv => RunsAsMeant
  <2>1. SelectInSeq(location.runAs, Meant) = FirstMeant
    BY DEF SelectInSeq, FirstMeant, MeantIndices
  <2> QED BY <2>1 DEF RunsInv, Listed, MeantFor, RightUser, RunsAsMeant, Served
<1>2. RunsInv /\ TimesInv /\ [Next]_vars /\ TimesInv' => RunsInv'
  BY StepRuns
<1> QED BY <1>1, <1>2, InitRuns, TimesInvariant, PTL DEF Spec

-----------------------------------------------------------------------------
(* The registry                                                            *)

Routed(r) == req[r].stage \notin {"none", "endless", "declined"}

(***************************************************************************)
(* Where the settings are cloned, those of a request are nobody else's,    *)
(* and no scheduler's before it is served.                                 *)
(***************************************************************************)
OwnSettings ==
  location.model # "app_dir" => \A r \in Requests : Routed(r) =>
    /\ \A q \in Requests \ {r} : Routed(q) => req[q].spec.nested # req[r].spec.nested
    /\ ~Served(r) => \A s \in DOMAIN scheds : scheds[s].spec.nested # req[r].spec.nested

(***************************************************************************)
(* Where they are shared, and the file and the server's configuration are  *)
(* what they were, merging changes them once at most, before there is a    *)
(* scheduler.                                                              *)
(***************************************************************************)
Merging == override /\ Contents[1].state = "ok"

MergedOnce == Merge(Contents[1], Global)

SharedSettings ==
  location.model = "app_dir" /\ file = 1 /\ reloads = 0 =>
    /\ router = 1
    /\ \A r \in Requests : req[r].spec.nested = 1
    /\ \A s \in DOMAIN scheds : scheds[s].spec.nested = 1
    /\ nested[1] = Global \/ nested[1] = MergedOnce
    /\ ~Merging => nested[1] = Global
    /\ Merging /\ DOMAIN scheds # {} => nested[1] = MergedOnce
    /\ \A p \in DOMAIN promises :
         /\ promises[p].state = "null" => Contents[1].state = "absent"
         /\ promises[p].state = "read" => promises[p].version = 1
    /\ \A r \in Requests :
         /\ req[r].stage \in {"finding", "found", "waiting"} => override
         /\ req[r].stage = "found" => req[r].basis = 1

\* A scheduler's AppSpec has the key the scheduler was created with.
KeysKept == SettingsStay => \A s \in DOMAIN scheds : Announced(s) = scheds[s].key

Registered(s) == scheds[s].key \in DOMAIN registry /\ registry[scheds[s].key] = s

(***************************************************************************)
(* A scheduler that has a worker is registered, or one of the same key     *)
(* that is not, and has given up a worker, may have taken it out.          *)
(***************************************************************************)
RegistryInv ==
  /\ \A k \in DOMAIN registry : scheds[registry[k]].key = k
  /\ \A s \in DOMAIN scheds : scheds[s].late > 0 => scheds[s].gaveUp
  /\ SettingsStay => \A s \in DOMAIN scheds : scheds[s].busy =>
       \/ Registered(s)
       \/ \E t \in DOMAIN scheds \ {s} :
            scheds[t].gaveUp /\ scheds[t].key = scheds[s].key /\ ~Registered(t)

\* What a request that is served changes.
LEMMA ServedSteps ==
  ASSUME TimesInv, NEW r \in Requests, ServeAsIs(r) \/ ServeUnmerged(r) \/ ServeMerged(r)
  PROVE  /\ GetWorker(Squash(req[r].spec), nested')
         /\ Squash(req[r].spec).nested = req[r].spec.nested
         /\ Routed(r) /\ ~Served(r) /\ req'[r].stage = "served"
         /\ req'[r].spec.nested = req[r].spec.nested
         /\ \A q \in Requests \ {r} : req'[q] = req[q]
         /\ nested' \in Seq(Settings)
         /\ \A i \in DOMAIN nested : i # req[r].spec.nested => nested'[i] = nested[i]
         /\ UNCHANGED <<disk, given, cache, promises>>
         /\ nested' = nested \/ ServeMerged(r)
<1>1. /\ req[r] \in RequestState /\ req \in [Requests -> RequestState] /\ req[r].spec \in Specs
      /\ nested \in Seq(Settings)
  BY OfRequest
<1>2. Squash(req[r].spec).nested = req[r].spec.nested
  BY <1>1, SquashTypes
<1>3. \E basis, objects :
        /\ Serve(r, req[r].spec, basis, objects) /\ nested' = objects
        /\ objects \in Seq(Settings)
        /\ \A i \in DOMAIN nested : i # req[r].spec.nested => objects[i] = nested[i]
        /\ objects = nested \/ ServeMerged(r)
        /\ req[r].stage \in {"annotated", "waiting"}
        /\ UNCHANGED <<disk, given, cache, promises>>
  <2>1. CASE ServeAsIs(r) \/ ServeUnmerged(r)
    BY <1>1, <2>1 DEF ServeAsIs, ServeUnmerged
  <2>2. CASE ServeMerged(r)
    <3> DEFINE version == promises[req[r].promise].version
               objects == [nested EXCEPT ![req[r].spec.nested] = Merge(Contents[version], @)]
    <3>1. /\ req[r].stage = "waiting" /\ promises[req[r].promise].state = "read"
          /\ Serve(r, req[r].spec, version, objects) /\ nested' = objects
          /\ UNCHANGED <<disk, given, cache, promises>>
      BY <2>2 DEF ServeMerged
    <3>2. version \in Versions
      BY <3>1, OfPromise
    <3>3. objects \in Seq(Settings)
      BY <3>2, MergedObjects
    <3>4. \A i \in DOMAIN nested : i # req[r].spec.nested => objects[i] = nested[i]
      OBVIOUS
    <3> HIDE DEF version, objects
    <3> QED BY <2>2, <3>1, <3>3, <3>4
  <2> QED BY <2>1, <2>2
<1>4. PICK basis, objects :
        /\ Serve(r, req[r].spec, basis, objects) /\ nested' = objects
        /\ objects \in Seq(Settings)
        /\ \A i \in DOMAIN nested : i # req[r].spec.nested => objects[i] = nested[i]
        /\ objects = nested \/ ServeMerged(r)
        /\ req[r].stage \in {"annotated", "waiting"}
        /\ UNCHANGED <<disk, given, cache, promises>>
  BY <1>3
<1>5. GetWorker(Squash(req[r].spec), nested')
  BY <1>4 DEF Serve
<1>6. /\ req'[r].stage = "served" /\ req'[r].spec = Squash(req[r].spec)
      /\ \A q \in Requests \ {r} : req'[q] = req[q]
  BY <1>1, <1>4 DEF Serve, RequestState
<1> QED BY <1>2, <1>4, <1>5, <1>6 DEF Routed, Served

\* A scheduler that is found, or a new one.
LEMMA GetWorkerSteps ==
  ASSUME TimesInv, NEW spec, NEW objects, GetWorker(spec, objects)
  PROVE  LET key == GetKey(spec, objects)
             new == Len(scheds) + 1
         IN  \/ /\ key \in DOMAIN registry /\ registry' = registry
                /\ registry[key] \in DOMAIN scheds /\ DOMAIN scheds' = DOMAIN scheds
                /\ \A s \in DOMAIN scheds :
                     /\ scheds'[s].spec = scheds[s].spec /\ scheds'[s].key = scheds[s].key
                     /\ scheds'[s].late = scheds[s].late /\ scheds'[s].gaveUp = scheds[s].gaveUp
                     /\ s # registry[key] => scheds'[s] = scheds[s]
             \/ /\ key \notin DOMAIN registry /\ registry' = Set(registry, key, new)
                /\ new \notin DOMAIN scheds /\ DOMAIN scheds' = DOMAIN scheds \cup {new}
                /\ \A s \in DOMAIN scheds : scheds'[s] = scheds[s]
                /\ scheds'[new].spec = spec /\ scheds'[new].key = key
                /\ scheds'[new].late = 0 /\ scheds'[new].gaveUp = FALSE
<1> DEFINE key == GetKey(spec, objects)
           new == Len(scheds) + 1
<1>1. scheds \in Seq(Scheduler) /\ Len(scheds) \in Nat /\ DOMAIN scheds = 1 .. Len(scheds)
  BY LenProperties DEF TimesInv, TypeOK
<1>2. CASE key \in DOMAIN registry
  <2> DEFINE i == registry[key]
             b == [scheds[i] EXCEPT !.busy = TRUE]
  <2>1. scheds' = [scheds EXCEPT ![i] = b] /\ registry' = registry
    BY <1>2 DEF GetWorker
  <2>2. i \in DOMAIN scheds
    BY <1>2 DEF TimesInv, TypeOK, PartialFunction
  <2>3. scheds[i] \in Scheduler
    BY <1>1, <2>2, ElementOfSeq
  <2>4. /\ b.spec = scheds[i].spec /\ b.key = scheds[i].key
        /\ b.late = scheds[i].late /\ b.gaveUp = scheds[i].gaveUp
    BY <2>3 DEF Scheduler
  <2> HIDE DEF b
  <2>5. /\ DOMAIN scheds' = DOMAIN scheds
        /\ \A j \in DOMAIN scheds : scheds'[j] = IF j = i THEN b ELSE scheds[j]
    BY <1>1, <2>1, <2>2
  <2> QED BY <1>2, <2>1, <2>2, <2>4, <2>5
<1>3. CASE key \notin DOMAIN registry
  <2> DEFINE n == [spec |-> spec, key |-> key, busy |-> TRUE, late |-> 0, gaveUp |-> FALSE]
  <2>1. scheds' = Append(scheds, n) /\ registry' = Set(registry, key, new)
    BY <1>3 DEF GetWorker
  <2>2. n.spec = spec /\ n.key = key /\ n.late = 0 /\ n.gaveUp = FALSE
    OBVIOUS
  <2> HIDE DEF n
  <2>3. /\ DOMAIN scheds' = 1 .. new
        /\ \A j \in 1 .. Len(scheds) : scheds'[j] = scheds[j]
        /\ scheds'[new] = n
    BY <1>1, <2>1
  <2>4. /\ new \notin DOMAIN scheds /\ DOMAIN scheds' = DOMAIN scheds \cup {new}
        /\ \A j \in DOMAIN scheds : scheds'[j] = scheds[j]
    BY <1>1, <2>3
  <2> QED BY <1>3, <2>1, <2>2, <2>3, <2>4
<1> QED BY <1>2, <1>3

\* A scheduler's workers come and go: its AppSpec and key stay.
LEMMA WorkerSteps ==
  ASSUME TimesInv, NEW s \in DOMAIN scheds, Vacant(s) \/ StartFails(s) \/ LateExit(s)
  PROVE  /\ DOMAIN scheds' = DOMAIN scheds
         /\ \A t \in DOMAIN scheds :
              /\ scheds'[t].spec = scheds[t].spec /\ scheds'[t].key = scheds[t].key
              /\ scheds[t].gaveUp => scheds'[t].gaveUp
              /\ t # s => scheds'[t] = scheds[t]
         /\ UNCHANGED <<disk, given, nested, promises, req>>
<1>1. scheds \in Seq(Scheduler) /\ scheds[s] \in Scheduler
  BY LenProperties, ElementOfSeq DEF TimesInv, TypeOK
<1>2. PICK v : /\ scheds' = [scheds EXCEPT ![s] = v]
               /\ v.spec = scheds[s].spec /\ v.key = scheds[s].key
               /\ scheds[s].gaveUp => v.gaveUp
  <2>1. CASE Vacant(s)
    <3> DEFINE v == [scheds[s] EXCEPT !.busy = FALSE]
    <3>1. v.spec = scheds[s].spec /\ v.key = scheds[s].key /\ v.gaveUp = scheds[s].gaveUp
      BY <1>1 DEF Scheduler
    <3>2. scheds' = [scheds EXCEPT ![s] = v]
      BY <2>1 DEF Vacant
    <3> HIDE DEF v
    <3> QED BY <3>1, <3>2
  <2>2. CASE StartFails(s)
    <3>1. PICK process : scheds' = [scheds EXCEPT ![s].busy = FALSE, ![s].late = @ + process,
                                     ![s].gaveUp = @ \/ process = 1]
      BY <2>2 DEF StartFails
    <3> DEFINE v == [scheds[s] EXCEPT !.busy = FALSE, !.late = @ + process, !.gaveUp = @ \/ process = 1]
    <3>2. /\ v.spec = scheds[s].spec /\ v.key = scheds[s].key
          /\ v.gaveUp = (scheds[s].gaveUp \/ process = 1)
      BY <1>1 DEF Scheduler
    <3>3. scheds' = [scheds EXCEPT ![s] = v]
      BY <3>1
    <3> HIDE DEF v
    <3>4. scheds[s].gaveUp => v.gaveUp
      BY <3>2, Zenon
    <3> QED BY <3>2, <3>3, <3>4
  <2>3. CASE LateExit(s)
    <3> DEFINE v == [scheds[s] EXCEPT !.late = @ - 1]
    <3>1. v.spec = scheds[s].spec /\ v.key = scheds[s].key /\ v.gaveUp = scheds[s].gaveUp
      BY <1>1 DEF Scheduler
    <3>2. scheds' = [scheds EXCEPT ![s] = v]
      BY <2>3 DEF LateExit
    <3> HIDE DEF v
    <3> QED BY <3>1, <3>2
  <2> QED BY <2>1, <2>2, <2>3
<1>3. /\ DOMAIN scheds' = DOMAIN scheds
      /\ \A t \in DOMAIN scheds : scheds'[t] = IF t = s THEN v ELSE scheds[t]
  BY <1>1, <1>2
<1>4. UNCHANGED <<disk, given, nested, promises, req>>
  BY DEF Vacant, StartFails, LateExit
<1> QED BY <1>2, <1>3, <1>4

\* What a request changes that is not served.
LEMMA UnservedSteps ==
  ASSUME TimesInv, NEW r \in Requests,
         Annotate(r) \/ LookUp(r) \/ Stat(r) \/ FindConfig(r) \/ Reject(r)
  PROVE  /\ Routed(r) /\ ~Served(r) /\ req'[r].stage \notin {"none", "endless", "declined"}
         /\ req'[r].spec.nested = req[r].spec.nested
         /\ \A q \in Requests \ {r} : req'[q] = req[q]
         /\ UNCHANGED <<disk, given, nested, scheds, registry>>
<1>1. req[r] \in RequestState /\ req \in [Requests -> RequestState] /\ req[r].spec \in Specs
  BY OfRequest
<1>2. CASE Annotate(r)
  BY <1>1, <1>2 DEF Annotate, Annotated, RequestState, Specs, Routed, Served
<1>3. CASE LookUp(r)
  BY <1>1, <1>3 DEF LookUp, RequestState, Routed, Served
<1>4. CASE Stat(r) \/ FindConfig(r) \/ Reject(r)
  BY <1>1, <1>4 DEF Stat, FindConfig, Reject, RequestState, Routed, Served
<1> QED BY <1>2, <1>3, <1>4

\* What a request changes that is routed, or is not.
LEMMA RouteSteps ==
  ASSUME TimesInv, NEW r \in Requests, Route(r)
  PROVE  /\ \A q \in Requests \ {r} : req'[q] = req[q]
         /\ UNCHANGED <<disk, given, cache, promises, scheds, registry>>
         /\ \A i \in DOMAIN nested : nested'[i] = nested[i]
         /\ \/ /\ req'[r].stage \in {"endless", "declined"} /\ nested' = nested
               /\ req'[r].spec = req[r].spec
            \/ /\ location.model # "app_dir" /\ req'[r].stage = "routed"
               /\ req'[r].spec.nested \notin DOMAIN nested
            \/ /\ location.model = "app_dir" /\ req'[r].stage = "routed"
               /\ req'[r].spec.nested = router /\ nested' = nested
<1>1. req[r] \in RequestState /\ req \in [Requests -> RequestState] /\ req[r].spec \in Specs
  BY OfRequest
<1>2. PICK user :
        \/ /\ \E stage \in {"endless", "declined"} :
                req' = [req EXCEPT ![r].user = user, ![r].stage = stage]
           /\ UNCHANGED <<given, nested>>
        \/ /\ Replaced(user)
           /\ nested' = IF Cloned THEN Append(nested, nested[router]) ELSE nested
           /\ req' = [req EXCEPT ![r].user = user, ![r].stage = "routed",
                        ![r].spec = [@ EXCEPT !.nested = IF Cloned THEN Len(nested) + 1 ELSE router,
                                              !.runAs = ListFor(user)]]
  BY DEF Route
<1>3. UNCHANGED <<disk, given, cache, promises, scheds, registry>>
  BY <1>2 DEF Route, Replaced
<1>4. CASE nested' = nested /\ \E stage \in {"endless", "declined"} :
             req' = [req EXCEPT ![r].user = user, ![r].stage = stage]
  BY <1>1, <1>3, <1>4 DEF RequestState
<1>5. CASE /\ nested' = IF Cloned THEN Append(nested, nested[router]) ELSE nested
           /\ req' = [req EXCEPT ![r].user = user, ![r].stage = "routed",
                        ![r].spec = [@ EXCEPT !.nested = IF Cloned THEN Len(nested) + 1 ELSE router,
                                              !.runAs = ListFor(user)]]
  <2>1. /\ \A q \in Requests \ {r} : req'[q] = req[q]
        /\ req'[r].stage = "routed"
        /\ req'[r].spec.nested = IF Cloned THEN Len(nested) + 1 ELSE router
    BY <1>1, <1>5 DEF RequestState, Specs
  <2>2. CASE Cloned
    <3>1. nested' = Append(nested, nested[router])
      BY <1>5, <2>2
    <3>2. /\ \A i \in DOMAIN nested : nested'[i] = nested[i]
          /\ Len(nested) + 1 \notin DOMAIN nested
      BY <3>1, OfRequest
    <3> QED BY <1>3, <2>1, <2>2, <3>2 DEF Cloned
  <2>3. CASE ~Cloned
    BY <1>3, <1>5, <2>1, <2>3 DEF Cloned
  <2> QED BY <2>2, <2>3
<1> QED BY <1>2, <1>4, <1>5

\* Every AppSpec's settings are there.
LEMMA OfSettings ==
  ASSUME TimesInv
  PROVE  /\ \A r \in Requests : req[r].spec.nested \in DOMAIN nested
         /\ \A s \in DOMAIN scheds : scheds[s].spec.nested \in DOMAIN nested
         /\ DOMAIN nested = 1 .. Len(nested) /\ Len(nested) \in Nat
BY LenProperties DEF TimesInv, SettingsExist, TypeOK

-----------------------------------------------------------------------------
(* Each step keeps what is known of the settings                           *)

LEMMA StepOwn == TimesInv /\ OwnSettings /\ [Next]_vars => OwnSettings'
<1> SUFFICES ASSUME TimesInv, OwnSettings, [Next]_vars, location'.model # "app_dir"
             PROVE  \A r \in Requests : Routed(r)' =>
                      /\ \A q \in Requests \ {r} :
                           Routed(q)' => req'[q].spec.nested # req'[r].spec.nested
                      /\ ~Served(r)' =>
                           \A s \in DOMAIN scheds' : scheds'[s].spec.nested # req'[r].spec.nested
  BY DEF OwnSettings
<1>1. \A r \in Requests : req[r].spec.nested \in DOMAIN nested
  BY OfSettings
<1>2. CASE Edit \/ Touch \/ Reload \/ UNCHANGED vars
  <2>1. UNCHANGED <<location, req, scheds>>
    BY <1>2 DEF Edit, Touch, Reload, vars, given
  <2> QED BY <2>1 DEF OwnSettings, Routed, Served
<1>3. ASSUME NEW r \in Requests, Route(r)
      PROVE  OwnSettings'
  <2>1. /\ \A q \in Requests \ {r} : req'[q] = req[q]
        /\ location' = location /\ scheds' = scheds
        /\ \/ req'[r].stage \in {"endless", "declined"}
           \/ location.model # "app_dir" /\ req'[r].spec.nested \notin DOMAIN nested
           \/ location.model = "app_dir"
    BY <1>3, RouteSteps DEF given
  <2>2. \A s \in DOMAIN scheds : scheds[s].spec.nested \in DOMAIN nested
    BY OfSettings
  <2> QED BY <1>1, <2>1, <2>2 DEF OwnSettings, Routed, Served
<1>4. ASSUME NEW r \in Requests,
             Annotate(r) \/ LookUp(r) \/ Stat(r) \/ FindConfig(r) \/ Reject(r)
      PROVE  OwnSettings'
  <2>1. /\ \A q \in Requests \ {r} : req'[q] = req[q]
        /\ location' = location /\ scheds' = scheds
        /\ Routed(r) /\ ~Served(r) /\ req'[r].spec.nested = req[r].spec.nested
    BY <1>4, UnservedSteps DEF given
  <2> QED BY <2>1 DEF OwnSettings, Routed, Served
<1>5. ASSUME NEW r \in Requests, ServeAsIs(r) \/ ServeUnmerged(r) \/ ServeMerged(r)
      PROVE  OwnSettings'
  <2> DEFINE new == Len(scheds) + 1
  <2>1. /\ \A q \in Requests \ {r} : req'[q] = req[q]
        /\ location' = location
        /\ Routed(r) /\ ~Served(r) /\ Served(r)' /\ req'[r].spec.nested = req[r].spec.nested
        /\ GetWorker(Squash(req[r].spec), nested')
        /\ Squash(req[r].spec).nested = req[r].spec.nested
    BY <1>5, ServedSteps DEF given, Served
  <2>2. \A s \in DOMAIN scheds' :
          \/ s \in DOMAIN scheds /\ scheds'[s].spec = scheds[s].spec
          \/ scheds'[s].spec.nested = req[r].spec.nested
    BY <2>1, GetWorkerSteps
  <2>3. ASSUME NEW q \in Requests, Routed(q)', location.model # "app_dir"
        PROVE  /\ \A p \in Requests \ {q} : Routed(p)' => req'[p].spec.nested # req'[q].spec.nested
               /\ ~Served(q)' => \A s \in DOMAIN scheds' : scheds'[s].spec.nested # req'[q].spec.nested
    <3>1. \A p \in Requests : req'[p].spec.nested = req[p].spec.nested /\ (Routed(p)' => Routed(p))
      BY <2>1 DEF Routed
    <3>2. \A p \in Requests \ {q} : Routed(p)' => req'[p].spec.nested # req'[q].spec.nested
      BY <2>3, <3>1 DEF OwnSettings
    <3>3. ASSUME ~Served(q)', NEW s \in DOMAIN scheds'
          PROVE  scheds'[s].spec.nested # req'[q].spec.nested
      <4>1. q # r /\ ~Served(q)
        BY <2>1, <3>3 DEF Served
      <4> QED BY <2>1, <2>2, <2>3, <3>1, <3>3, <4>1 DEF OwnSettings
    <3> QED BY <3>2, <3>3
  <2> QED BY <2>1, <2>3 DEF OwnSettings
<1>6. ASSUME NEW p \in DOMAIN promises, Read(p) PROVE OwnSettings'
  <2>1. UNCHANGED <<location, req, scheds>>
    BY <1>6 DEF Read, given
  <2> QED BY <2>1 DEF OwnSettings, Routed, Served
<1>7. ASSUME NEW s \in DOMAIN scheds, Vacant(s) \/ StartFails(s) \/ LateExit(s) PROVE OwnSettings'
  <2>1. /\ DOMAIN scheds' = DOMAIN scheds /\ \A t \in DOMAIN scheds : scheds'[t].spec = scheds[t].spec
        /\ location' = location /\ req' = req
    BY <1>7, WorkerSteps DEF given
  <2> QED BY <2>1 DEF OwnSettings, Routed, Served
<1> QED BY <1>2, <1>3, <1>4, <1>5, <1>6, <1>7 DEF Next, OwnSettings

\* Nothing goes back.
LEMMA Stays ==
  ASSUME TimesInv, [Next]_vars
  PROVE  /\ location' = location
         /\ file' = 1 => file = 1
         /\ reloads' = 0 => reloads = 0 /\ router' = router /\ override' = override
         /\ SettingsStay' => SettingsStay
<1>1. file \in Nat \ {0} /\ reloads \in Nat
  <2>1. file \in Versions /\ Versions \subseteq Nat \ {0}
    BY LocalConfigAssumption, LenProperties DEF TimesInv, TypeOK, Versions
  <2> QED BY <2>1, LocalConfigAssumption DEF TimesInv, TypeOK
<1>2. location' = location
  BY DEF Next, vars, given, Edit, Touch, Reload, Route, Replaced, Annotate, ServeAsIs, LookUp, Stat,
     FindConfig, ServeUnmerged, ServeMerged, Reject, Read, Vacant, StartFails, LateExit
<1>3. file' = file \/ file' = file + 1
  BY DEF Next, vars, disk, Edit, Touch, Reload, Route, Annotate, ServeAsIs, LookUp, Stat,
     FindConfig, ServeUnmerged, ServeMerged, Reject, Read, Vacant, StartFails, LateExit
<1>4. reloads' = reloads + 1 \/ UNCHANGED <<reloads, router, override>>
  <2>1. CASE Reload
    BY <2>1 DEF Reload
  <2>2. CASE ~Reload
    <3>1. UNCHANGED given
      BY <2>2 DEF Next, vars, Edit, Touch, Route, Replaced, Annotate, ServeAsIs, LookUp, Stat,
         FindConfig, ServeUnmerged, ServeMerged, Reject, Read, Vacant, StartFails, LateExit
    <3> QED BY <3>1 DEF given
  <2> QED BY <2>1, <2>2
<1> QED BY <1>1, <1>2, <1>3, <1>4 DEF SettingsStay

\* Merging once more changes nothing.
LEMMA MergeTwice ==
  ASSUME NEW local \in Local, NEW s \in Settings
  PROVE  Merge(local, Merge(local, s)) = Merge(local, s)
BY DEF Merge, Local, Settings

LEMMA StepShared == TimesInv /\ SharedSettings /\ [Next]_vars => SharedSettings'
<1> SUFFICES ASSUME TimesInv, SharedSettings, [Next]_vars,
                    location'.model = "app_dir", file' = 1, reloads' = 0
             PROVE  SharedSettings'
  BY DEF SharedSettings
<1> DEFINE Promised == \A p \in DOMAIN promises :
                         /\ promises[p].state = "null" => Contents[1].state = "absent"
                         /\ promises[p].state = "read" => promises[p].version = 1
           Found(q) == /\ q.stage \in {"finding", "found", "waiting"} => override
                       /\ q.stage = "found" => q.basis = 1
<1>1. /\ location.model = "app_dir" /\ file = 1 /\ reloads = 0 /\ location' = location
      /\ router' = router /\ override' = override
  BY Stays
<1>2. /\ router = 1
      /\ \A r \in Requests : req[r].spec.nested = 1
      /\ \A s \in DOMAIN scheds : scheds[s].spec.nested = 1
      /\ nested[1] = Global \/ nested[1] = MergedOnce
      /\ ~Merging => nested[1] = Global
      /\ Merging /\ DOMAIN scheds # {} => nested[1] = MergedOnce
      /\ Promised
      /\ \A r \in Requests : Found(req[r])
  BY <1>1 DEF SharedSettings
<1>3. MergedOnce' = MergedOnce /\ Merging' = Merging
  BY <1>1 DEF MergedOnce, Merging
<1>4. 1 \in DOMAIN nested
  BY <1>2 DEF TimesInv, TypeOK
<1>5. Contents[1] \in Local /\ 1 \in Versions /\ Global \in Settings
  <2>1. DOMAIN Contents = 1 .. Len(Contents) /\ Len(Contents) \in Nat \ {0}
    BY LocalConfigAssumption, EmptySeq, LenProperties
  <2> QED BY <2>1, LocalConfigAssumption, ElementOfSeq DEF Versions
<1>6. ASSUME \A r \in Requests : req'[r].spec.nested = 1 /\ Found(req[r])',
             \A s \in DOMAIN scheds' : scheds'[s].spec.nested = 1,
             \/ nested'[1] = nested[1] /\ (Merging /\ DOMAIN scheds' # {} => DOMAIN scheds # {})
             \/ nested'[1] = MergedOnce /\ Merging,
             Promised'
      PROVE  SharedSettings'
  BY <1>1, <1>2, <1>3, <1>6 DEF SharedSettings
<1> HIDE DEF Promised
<1>7. CASE Edit \/ Touch \/ Reload \/ UNCHANGED vars
  <2>1. UNCHANGED <<req, scheds, promises, nested>>
    BY <1>1, <1>7 DEF Edit, Touch, Reload, vars
  <2> QED BY <1>1, <1>2, <1>6, <2>1 DEF Promised
<1>8. ASSUME NEW r \in Requests, Route(r) PROVE SharedSettings'
  <2>1. /\ \A q \in Requests \ {r} : req'[q] = req[q]
        /\ nested' = nested /\ scheds' = scheds /\ promises' = promises
        /\ req'[r].stage \in {"endless", "declined", "routed"}
        /\ req'[r].spec.nested = 1
    BY <1>1, <1>2, <1>8, RouteSteps
  <2> QED BY <1>1, <1>2, <1>6, <2>1 DEF Promised
<1>9. ASSUME NEW r \in Requests,
             Annotate(r) \/ LookUp(r) \/ Stat(r) \/ FindConfig(r) \/ Reject(r)
      PROVE  SharedSettings'
  <2>1. /\ \A q \in Requests \ {r} : req'[q] = req[q]
        /\ nested' = nested /\ scheds' = scheds
        /\ req'[r].spec.nested = 1
    BY <1>2, <1>9, UnservedSteps
  <2>2. req[r] \in RequestState /\ req \in [Requests -> RequestState]
    BY OfRequest
  <2>3. Found(req[r])'
    <3>1. CASE Annotate(r) \/ Reject(r)
      BY <2>2, <3>1 DEF Annotate, Reject, RequestState
    <3>2. CASE LookUp(r)
      BY <1>1, <2>2, <3>2 DEF LookUp, RequestState
    <3>3. CASE Stat(r)
      BY <1>1, <1>2, <2>2, <3>3 DEF Stat, RequestState
    <3>4. CASE FindConfig(r)
      BY <1>1, <1>2, <2>2, <3>4 DEF FindConfig, RequestState
    <3> QED BY <1>9, <3>1, <3>2, <3>3, <3>4
  <2>4. Promised'
    <3>1. CASE promises' = promises
      BY <1>2, <3>1 DEF Promised
    <3>2. CASE FindConfig(r)
      <4> DEFINE p == IF Contents[req[r].basis].state = "absent"
                      THEN [state |-> "null", version |-> req[r].basis]
                      ELSE [state |-> "reading", version |-> 0]
      <4>1. promises' = Append(promises, p) /\ req[r].basis = 1
        BY <1>2, <3>2 DEF FindConfig
      <4>2. p.state = "null" => Contents[1].state = "absent"
        BY <4>1
      <4>3. p.state # "read"
        OBVIOUS
      <4>4. promises \in Seq(Promise) /\ Len(promises) \in Nat /\ DOMAIN promises = 1 .. Len(promises)
        BY LenProperties DEF TimesInv, TypeOK
      <4> HIDE DEF p
      <4>5. \A i \in DOMAIN promises' : promises'[i] = p \/ (i \in DOMAIN promises /\ promises'[i] = promises[i])
        BY <4>1, <4>4
      <4> QED BY <1>2, <4>2, <4>3, <4>5 DEF Promised
    <3> QED BY <1>9, <3>1, <3>2 DEF Annotate, LookUp, Stat, Reject
  <2> QED BY <1>1, <1>2, <1>6, <2>1, <2>3, <2>4
<1>10. ASSUME NEW r \in Requests, ServeAsIs(r) \/ ServeUnmerged(r) \/ ServeMerged(r)
       PROVE  SharedSettings'
  <2>1. /\ \A q \in Requests \ {r} : req'[q] = req[q]
        /\ req'[r].stage = "served" /\ req'[r].spec.nested = 1
        /\ GetWorker(Squash(req[r].spec), nested') /\ Squash(req[r].spec).nested = 1
        /\ promises' = promises
    BY <1>2, <1>10, ServedSteps
  <2>2. \A s \in DOMAIN scheds' : scheds'[s].spec.nested = 1
    <3> DEFINE spec == Squash(req[r].spec)
    <3>1. \A s \in DOMAIN scheds' :
            \/ s \in DOMAIN scheds /\ scheds'[s].spec = scheds[s].spec
            \/ scheds'[s].spec = spec
      BY <2>1, GetWorkerSteps
    <3> HIDE DEF spec
    <3> QED BY <1>2, <2>1, <3>1 DEF spec
  <2>3. req[r] \in RequestState /\ StageTimes(req[r])
    BY OfRequest
  <2>4. CASE ServeAsIs(r)
    <3>1. nested' = nested /\ ~Merging
      BY <2>4 DEF ServeAsIs, Merging
    <3> QED BY <1>1, <1>2, <1>6, <2>1, <2>2, <3>1 DEF Promised
  <2>5. CASE ServeUnmerged(r)
    <3>1. /\ nested' = nested /\ req[r].stage = "waiting"
          /\ promises[req[r].promise].state = "null"
      BY <2>5 DEF ServeUnmerged
    <3>2. req[r].promise \in DOMAIN promises
      BY <2>3, <3>1 DEF StageTimes
    <3>3. ~Merging
      BY <1>2, <3>1, <3>2 DEF Promised, Merging
    <3> QED BY <1>1, <1>2, <1>6, <2>1, <2>2, <3>1, <3>3 DEF Promised
  <2>6. CASE ServeMerged(r)
    <3> DEFINE version == promises[req[r].promise].version
    <3>1. /\ nested' = [nested EXCEPT ![req[r].spec.nested] = Merge(Contents[version], @)]
          /\ req[r].stage = "waiting" /\ promises[req[r].promise].state = "read"
          /\ Contents[version].state = "ok"
      BY <2>6 DEF ServeMerged
    <3>2. req[r].promise \in DOMAIN promises
      BY <2>3, <3>1 DEF StageTimes
    <3>3. version = 1
      BY <1>2, <3>1, <3>2 DEF Promised
    <3>4. Merging
      BY <1>2, <3>1, <3>3 DEF Merging
    <3>5. nested'[1] = Merge(Contents[1], nested[1])
      BY <1>2, <1>4, <3>1, <3>3
    <3>6. nested'[1] = MergedOnce
      BY <1>2, <1>5, <3>5, MergeTwice DEF MergedOnce
    <3> HIDE DEF version
    <3> QED BY <1>1, <1>2, <1>6, <2>1, <2>2, <3>4, <3>6 DEF Promised
  <2> QED BY <1>10, <2>4, <2>5, <2>6
<1>11. ASSUME NEW p \in DOMAIN promises, Read(p) PROVE SharedSettings'
  <2>1. /\ promises' = [promises EXCEPT ![p] = [state |-> "read", version |-> 1]]
        /\ UNCHANGED <<nested, req, scheds>>
    BY <1>1, <1>11 DEF Read
  <2>2. promises \in Seq(Promise) /\ DOMAIN promises = 1 .. Len(promises)
    BY LenProperties DEF TimesInv, TypeOK
  <2>3. Promised'
    BY <1>2, <2>1, <2>2 DEF Promised
  <2> QED BY <1>1, <1>2, <1>6, <2>1, <2>3
<1>12. ASSUME NEW s \in DOMAIN scheds, Vacant(s) \/ StartFails(s) \/ LateExit(s) PROVE SharedSettings'
  <2>1. /\ DOMAIN scheds' = DOMAIN scheds /\ \A t \in DOMAIN scheds : scheds'[t].spec = scheds[t].spec
        /\ UNCHANGED <<nested, promises, req>>
    BY <1>12, WorkerSteps
  <2> QED BY <1>1, <1>2, <1>6, <2>1 DEF Promised
<1> QED BY <1>7, <1>8, <1>9, <1>10, <1>11, <1>12 DEF Next

-----------------------------------------------------------------------------
(* Each step keeps the keys and the registry                               *)

LEMMA StepKeys ==
  TimesInv /\ OwnSettings /\ SharedSettings /\ SharedSettings' /\ KeysKept /\ [Next]_vars => KeysKept'
<1> SUFFICES ASSUME TimesInv, OwnSettings, SharedSettings, SharedSettings', KeysKept, [Next]_vars,
                    SettingsStay'
             PROVE  \A s \in DOMAIN scheds' : Announced(s)' = scheds'[s].key
  BY DEF KeysKept
<1>1. SettingsStay /\ location' = location
  BY Stays
<1>2. \A s \in DOMAIN scheds : Announced(s) = scheds[s].key
  BY <1>1 DEF KeysKept
<1>3. \A s \in DOMAIN scheds : scheds[s].spec.nested \in DOMAIN nested
  BY OfSettings
<1>4. ASSUME DOMAIN scheds' = DOMAIN scheds,
             \A s \in DOMAIN scheds :
               scheds'[s].spec = scheds[s].spec /\ scheds'[s].key = scheds[s].key,
             \A i \in DOMAIN nested : nested'[i] = nested[i]
      PROVE  \A s \in DOMAIN scheds' : Announced(s)' = scheds'[s].key
  BY <1>2, <1>3, <1>4 DEF Announced, GetKey
<1>5. CASE Edit \/ Touch \/ Reload \/ UNCHANGED vars
  <2>1. scheds' = scheds /\ \A i \in DOMAIN nested : nested'[i] = nested[i]
    <3>1. CASE Reload
      <4>1. nested \in Seq(Settings) /\ Global \in Settings
        BY LocalConfigAssumption DEF TimesInv, TypeOK
      <4>2. nested' = Append(nested, Global) /\ scheds' = scheds
        BY <3>1 DEF Reload
      <4> QED BY <4>1, <4>2
    <3> QED BY <1>5, <3>1 DEF Edit, Touch, vars
  <2> QED BY <1>4, <2>1
<1>6. ASSUME NEW r \in Requests,
             Route(r) \/ Annotate(r) \/ LookUp(r) \/ Stat(r) \/ FindConfig(r) \/ Reject(r)
      PROVE  \A s \in DOMAIN scheds' : Announced(s)' = scheds'[s].key
  <2>1. scheds' = scheds /\ \A i \in DOMAIN nested : nested'[i] = nested[i]
    BY <1>6, RouteSteps, UnservedSteps
  <2> QED BY <1>4, <2>1
<1>7. ASSUME NEW r \in Requests, ServeAsIs(r) \/ ServeUnmerged(r) \/ ServeMerged(r)
      PROVE  \A s \in DOMAIN scheds' : Announced(s)' = scheds'[s].key
  <2> DEFINE spec == Squash(req[r].spec)
             i == req[r].spec.nested
  <2>1. /\ GetWorker(spec, nested')
        /\ \A j \in DOMAIN nested : j # i => nested'[j] = nested[j]
        /\ Routed(r) /\ ~Served(r)
        /\ UNCHANGED <<disk, given>>
    BY <1>7, ServedSteps
  <2>2. ASSUME NEW s \in DOMAIN scheds
        PROVE  nested'[scheds[s].spec.nested] = nested[scheds[s].spec.nested]
    <3>1. CASE location.model # "app_dir"
      BY <1>3, <2>1, <3>1 DEF OwnSettings
    <3>2. CASE location.model = "app_dir"
      <4>1. /\ file = 1 /\ reloads = 0 /\ file' = 1 /\ reloads' = 0 /\ override' = override
        BY <1>1, <2>1, <3>2 DEF SettingsStay, disk, given
      <4>2. scheds[s].spec.nested = 1 /\ nested[1] = IF Merging THEN MergedOnce ELSE Global
        BY <3>2, <4>1 DEF SharedSettings
      <4>3. DOMAIN scheds' # {}
        BY <2>1, GetWorkerSteps
      <4>4. nested'[1] = IF Merging THEN MergedOnce ELSE Global
        BY <1>1, <3>2, <4>1, <4>3 DEF SharedSettings, Merging, MergedOnce
      <4> QED BY <4>2, <4>4
    <3> QED BY <3>1, <3>2
  <2>3. \A s \in DOMAIN scheds' :
          \/ /\ s \in DOMAIN scheds
             /\ scheds'[s].spec = scheds[s].spec /\ scheds'[s].key = scheds[s].key
          \/ scheds'[s].spec = spec /\ scheds'[s].key = GetKey(spec, nested')
    BY <2>1, GetWorkerSteps
  <2> HIDE DEF spec
  <2> QED BY <1>2, <2>2, <2>3 DEF Announced, GetKey
<1>8. ASSUME NEW p \in DOMAIN promises, Read(p)
      PROVE  \A s \in DOMAIN scheds' : Announced(s)' = scheds'[s].key
  BY <1>4, <1>8 DEF Read
<1>9. ASSUME NEW s \in DOMAIN scheds, Vacant(s) \/ StartFails(s) \/ LateExit(s)
      PROVE  \A t \in DOMAIN scheds' : Announced(t)' = scheds'[t].key
  BY <1>4, <1>9, WorkerSteps
<1> QED BY <1>5, <1>6, <1>7, <1>8, <1>9 DEF Next

\* A step that takes at most one key out of the registry, and adds none.
LEMMA WorkerRegistry ==
  ASSUME TimesInv, KeysKept, RegistryInv, NEW s \in DOMAIN scheds,
         Vacant(s) \/ StartFails(s) \/ LateExit(s), location' = location,
         file' = file, reloads' = reloads
  PROVE  RegistryInv'
<1>1. /\ DOMAIN scheds' = DOMAIN scheds
      /\ \A t \in DOMAIN scheds :
           /\ scheds'[t].spec = scheds[t].spec /\ scheds'[t].key = scheds[t].key
           /\ scheds[t].gaveUp => scheds'[t].gaveUp
           /\ t # s => scheds'[t] = scheds[t]
  BY WorkerSteps
<1>2. scheds \in Seq(Scheduler) /\ scheds[s] \in Scheduler
  BY LenProperties, ElementOfSeq DEF TimesInv, TypeOK
<1>3. /\ \A k \in DOMAIN registry : registry[k] \in DOMAIN scheds /\ scheds[registry[k]].key = k
      /\ \A t \in DOMAIN scheds : scheds[t].late > 0 => scheds[t].gaveUp
  BY DEF TimesInv, TypeOK, PartialFunction, RegistryInv
<1>4. \/ registry' = registry
      \/ /\ DOMAIN registry' = DOMAIN registry \ {Announced(s)}
         /\ \A k \in DOMAIN registry' : registry'[k] = registry[k]
  BY DEF Vacant, StartFails, LateExit, Announce, Delete
<1>5. \A k \in DOMAIN registry' :
        k \in DOMAIN registry /\ registry'[k] = registry[k] /\ scheds'[registry'[k]].key = k
  BY <1>1, <1>3, <1>4
<1>6. scheds'[s].late > 0 => scheds'[s].gaveUp
  <2>1. CASE Vacant(s)
    <3>1. scheds'[s] = [scheds[s] EXCEPT !.busy = FALSE]
      BY <1>2, <2>1 DEF Vacant
    <3> QED BY <1>2, <1>3, <3>1 DEF Scheduler
  <2>2. CASE StartFails(s)
    <3>1. PICK process \in {0, 1} :
            scheds' = [scheds EXCEPT ![s].busy = FALSE, ![s].late = @ + process,
                                     ![s].gaveUp = @ \/ process = 1]
      BY <2>2 DEF StartFails
    <3>2. /\ scheds'[s].late = scheds[s].late + process
          /\ scheds'[s].gaveUp = (scheds[s].gaveUp \/ process = 1)
      BY <1>2, <3>1 DEF Scheduler
    <3>3. scheds[s].late \in Nat
      BY <1>2 DEF Scheduler
    <3>4. CASE process = 1
      <4>1. scheds[s].gaveUp \/ process = 1
        BY <3>4
      <4> QED BY <3>2, <4>1, Zenon
    <3>5. CASE process = 0
      <4>1. scheds'[s].late > 0 => scheds[s].gaveUp
        BY <1>3, <3>2, <3>3, <3>5
      <4>2. scheds[s].gaveUp => scheds'[s].gaveUp
        BY <1>1
      <4> QED BY <4>1, <4>2
    <3> QED BY <3>4, <3>5
  <2>3. CASE LateExit(s)
    <3>1. scheds[s].gaveUp
      BY <1>3, <2>3 DEF LateExit
    <3> QED BY <1>1, <3>1
  <2> QED BY <2>1, <2>2, <2>3
<1>7. \A t \in DOMAIN scheds' : scheds'[t].late > 0 => scheds'[t].gaveUp
  BY <1>1, <1>3, <1>6
<1>8. ASSUME NEW t \in DOMAIN scheds, ~Registered(t) PROVE ~Registered(t)'
  BY <1>1, <1>5, <1>8 DEF Registered
<1>9. ASSUME SettingsStay, NEW t \in DOMAIN scheds, scheds'[t].busy
      PROVE  \/ Registered(t)'
             \/ \E u \in DOMAIN scheds \ {t} :
                  scheds'[u].gaveUp /\ scheds'[u].key = scheds'[t].key /\ ~Registered(u)'
  <2>1. Announced(s) = scheds[s].key
    BY <1>9 DEF KeysKept
  <2>2. scheds[t].busy /\ (t = s => LateExit(s))
    <3>1. CASE t # s
      <4>1. scheds'[t] = scheds[t]
        BY <1>1, <3>1
      <4>2. scheds[t].busy
        BY <1>9, <4>1, Zenon
      <4> QED BY <3>1, <4>2
    <3>2. CASE t = s
      <4>1. CASE Vacant(s)
        <5>1. scheds'[s].busy = FALSE
          BY <1>2, <4>1 DEF Vacant, Scheduler
        <5>2. scheds'[s].busy
          BY <1>9, <3>2, Zenon
        <5> QED BY <5>1, <5>2, Zenon
      <4>2. CASE StartFails(s)
        <5>1. scheds'[s].busy = FALSE
          <6>1. PICK process : scheds' = [scheds EXCEPT ![s].busy = FALSE, ![s].late = @ + process,
                                           ![s].gaveUp = @ \/ process = 1]
            BY <4>2 DEF StartFails
          <6> QED BY <1>2, <6>1 DEF Scheduler
        <5>2. scheds'[s].busy
          BY <1>9, <3>2, Zenon
        <5> QED BY <5>1, <5>2, Zenon
      <4>3. CASE LateExit(s)
        <5>1. scheds'[s].busy = scheds[s].busy
          BY <1>2, <4>3 DEF LateExit, Scheduler
        <5>2. scheds[s].busy
          BY <1>9, <3>2, <5>1, Zenon
        <5> QED BY <3>2, <4>3, <5>2
      <4> QED BY <4>1, <4>2, <4>3
    <3> QED BY <3>1, <3>2
  <2>3. \/ Registered(t)
        \/ \E u \in DOMAIN scheds \ {t} :
             scheds[u].gaveUp /\ scheds[u].key = scheds[t].key /\ ~Registered(u)
    BY <1>9, <2>2, Zenon DEF RegistryInv
  <2>4. CASE \E u \in DOMAIN scheds \ {t} :
               scheds[u].gaveUp /\ scheds[u].key = scheds[t].key /\ ~Registered(u)
    <3>1. PICK u \in DOMAIN scheds \ {t} :
            scheds[u].gaveUp /\ scheds[u].key = scheds[t].key /\ ~Registered(u)
      BY <2>4
    <3> QED BY <1>1, <1>8, <3>1
  <2>5. CASE Registered(t)
    <3>1. CASE registry' = registry \/ Announced(s) # scheds[t].key
      BY <1>1, <1>4, <2>5, <3>1 DEF Registered
    <3>2. CASE registry' # registry /\ scheds[s].key = scheds[t].key
      <4>1. t # s
        <5>1. t = s => scheds[s].busy /\ LateExit(s)
          BY <2>2
        <5>2. LateExit(s) /\ scheds[s].busy => registry' = registry
          BY DEF LateExit
        <5> QED BY <3>2, <5>1, <5>2
      <4>2. ~Registered(s)
        BY <2>5, <3>2, <4>1 DEF Registered
      <4>3. CASE Vacant(s)
        <5>1. scheds[s].busy
          BY <4>3 DEF Vacant
        <5>2. PICK u \in DOMAIN scheds \ {s} :
                scheds[u].gaveUp /\ scheds[u].key = scheds[s].key /\ ~Registered(u)
          BY <1>9, <4>2, <5>1, Zenon DEF RegistryInv
        <5>3. u # t
          BY <2>5, <5>2
        <5> QED BY <1>1, <1>8, <3>2, <5>2, <5>3
      <4>4. CASE LateExit(s)
        <5>1. scheds[s].gaveUp
          BY <1>3, <4>4 DEF LateExit
        <5> QED BY <1>1, <1>8, <3>2, <4>1, <4>2, <5>1
      <4>5. CASE StartFails(s)
        BY <3>2, <4>5 DEF StartFails
      <4> QED BY <4>3, <4>4, <4>5
    <3> QED BY <2>1, <3>1, <3>2
  <2> QED BY <2>3, <2>4, <2>5
<1>10. SettingsStay' => SettingsStay
  BY DEF SettingsStay
<1> QED BY <1>1, <1>5, <1>7, <1>9, <1>10, Zenon DEF RegistryInv

\* A worker is asked for.
LEMMA GetWorkerRegistry ==
  ASSUME TimesInv, RegistryInv, NEW spec, NEW objects, GetWorker(spec, objects),
         SettingsStay' => SettingsStay
  PROVE  RegistryInv'
<1> DEFINE key == GetKey(spec, objects)
           new == Len(scheds) + 1
<1>1. \A k \in DOMAIN registry : registry[k] \in DOMAIN scheds /\ scheds[registry[k]].key = k
  BY DEF TimesInv, TypeOK, PartialFunction, RegistryInv
<1>2. \A s \in DOMAIN scheds : scheds[s].late > 0 => scheds[s].gaveUp
  BY DEF RegistryInv
<1>3. ASSUME SettingsStay, NEW s \in DOMAIN scheds, scheds[s].busy
      PROVE  \/ Registered(s)
             \/ \E t \in DOMAIN scheds \ {s} :
                  scheds[t].gaveUp /\ scheds[t].key = scheds[s].key /\ ~Registered(t)
  BY <1>3, Zenon DEF RegistryInv
<1>4. CASE /\ key \in DOMAIN registry /\ registry' = registry
           /\ registry[key] \in DOMAIN scheds /\ DOMAIN scheds' = DOMAIN scheds
           /\ \A s \in DOMAIN scheds :
                /\ scheds'[s].spec = scheds[s].spec /\ scheds'[s].key = scheds[s].key
                /\ scheds'[s].late = scheds[s].late /\ scheds'[s].gaveUp = scheds[s].gaveUp
                /\ s # registry[key] => scheds'[s] = scheds[s]
  <2> HIDE DEF key
  <2>1. \A s \in DOMAIN scheds : Registered(s)' = Registered(s)
    BY <1>4 DEF Registered
  <2>2. ASSUME SettingsStay, NEW s \in DOMAIN scheds, scheds'[s].busy
        PROVE  \/ Registered(s)'
               \/ \E t \in DOMAIN scheds \ {s} :
                    scheds'[t].gaveUp /\ scheds'[t].key = scheds'[s].key /\ ~Registered(t)'
    <3>1. CASE s = registry[key]
      BY <1>1, <1>4, <2>1, <3>1 DEF Registered
    <3>2. CASE s # registry[key]
      <4>1. scheds'[s] = scheds[s]
        BY <1>4, <3>2
      <4>2. scheds[s].busy
        BY <2>2, <4>1, Zenon
      <4>3. \/ Registered(s)
            \/ \E t \in DOMAIN scheds \ {s} :
                 scheds[t].gaveUp /\ scheds[t].key = scheds[s].key /\ ~Registered(t)
        BY <1>3, <2>2, <4>2
      <4>4. CASE Registered(s)
        BY <2>1, <4>4
      <4>5. CASE \E t \in DOMAIN scheds \ {s} :
                   scheds[t].gaveUp /\ scheds[t].key = scheds[s].key /\ ~Registered(t)
        <5>1. PICK t \in DOMAIN scheds \ {s} :
                scheds[t].gaveUp /\ scheds[t].key = scheds[s].key /\ ~Registered(t)
          BY <4>5
        <5>2. scheds'[t].gaveUp /\ scheds'[t].key = scheds'[s].key /\ ~Registered(t)'
          <6>1. scheds'[t].gaveUp = scheds[t].gaveUp
            BY <1>4
          <6>2. scheds'[t].gaveUp
            BY <5>1, <6>1, Zenon
          <6> QED BY <1>4, <2>1, <5>1, <6>2
        <5> QED BY <5>2
      <4> QED BY <4>3, <4>4, <4>5
    <3> QED BY <3>1, <3>2
  <2>3. \A s \in DOMAIN scheds' : scheds'[s].late > 0 => scheds'[s].gaveUp
    <3>1. ASSUME NEW s \in DOMAIN scheds, scheds'[s].late > 0 PROVE scheds'[s].gaveUp
      <4>1. scheds[s].late > 0 /\ scheds'[s].gaveUp = scheds[s].gaveUp
        BY <1>4, <3>1
      <4>2. scheds[s].gaveUp
        BY <1>2, <4>1
      <4> QED BY <4>1, <4>2, Zenon
    <3> QED BY <1>4, <3>1
  <2>4. \A k \in DOMAIN registry' : scheds'[registry'[k]].key = k
    BY <1>1, <1>4
  <2>5. DOMAIN scheds' = DOMAIN scheds
    BY <1>4
  <2> QED BY <2>2, <2>3, <2>4, <2>5, Zenon DEF RegistryInv
<1>5. CASE /\ key \notin DOMAIN registry /\ registry' = Set(registry, key, new)
           /\ new \notin DOMAIN scheds /\ DOMAIN scheds' = DOMAIN scheds \cup {new}
           /\ \A s \in DOMAIN scheds : scheds'[s] = scheds[s]
           /\ scheds'[new].spec = spec /\ scheds'[new].key = key
           /\ scheds'[new].late = 0 /\ scheds'[new].gaveUp = FALSE
  <2> HIDE DEF key, new
  <2>1. /\ DOMAIN registry' = DOMAIN registry \cup {key} /\ registry'[key] = new
        /\ \A k \in DOMAIN registry : registry'[k] = registry[k]
    BY <1>5 DEF Set
  <2>2. \A k \in DOMAIN registry' : scheds'[registry'[k]].key = k
    BY <1>1, <1>5, <2>1
  <2>3. \A s \in DOMAIN scheds : Registered(s)' <=> Registered(s)
    BY <1>1, <1>5, <2>1 DEF Registered
  <2>4. ASSUME NEW s, s = new PROVE Registered(s)'
    BY <1>5, <2>1, <2>4 DEF Registered
  <2>5. ASSUME SettingsStay, NEW s \in DOMAIN scheds', scheds'[s].busy
        PROVE  \/ Registered(s)'
               \/ \E t \in DOMAIN scheds' \ {s} :
                    scheds'[t].gaveUp /\ scheds'[t].key = scheds'[s].key /\ ~Registered(t)'
    <3>1. CASE s = new
      BY <2>4, <3>1
    <3>2. CASE s # new
      <4>1. s \in DOMAIN scheds /\ scheds'[s] = scheds[s]
        BY <1>5, <3>2
      <4>2. scheds[s].busy
        BY <2>5, <4>1, Zenon
      <4>3. \/ Registered(s)
            \/ \E t \in DOMAIN scheds \ {s} :
                 scheds[t].gaveUp /\ scheds[t].key = scheds[s].key /\ ~Registered(t)
        BY <1>3, <2>5, <4>1, <4>2
      <4> QED BY <1>5, <2>3, <4>1, <4>3
    <3> QED BY <3>1, <3>2
  <2>6. \A s \in DOMAIN scheds' : scheds'[s].late > 0 => scheds'[s].gaveUp
    BY <1>2, <1>5
  <2> QED BY <2>2, <2>5, <2>6, Zenon DEF RegistryInv
<1> QED BY <1>4, <1>5, GetWorkerSteps

LEMMA StepRegistry == TimesInv /\ KeysKept /\ RegistryInv /\ [Next]_vars => RegistryInv'
<1> SUFFICES ASSUME TimesInv, KeysKept, RegistryInv, [Next]_vars PROVE RegistryInv'
  OBVIOUS
<1>1. (SettingsStay' => SettingsStay) /\ location' = location
  BY Stays
<1>2. ASSUME scheds' = scheds, registry' = registry PROVE RegistryInv'
  <2>1. \A s : Registered(s)' <=> Registered(s)
    BY <1>2 DEF Registered
  <2>2. /\ \A k \in DOMAIN registry' : scheds'[registry'[k]].key = k
        /\ \A s \in DOMAIN scheds' : scheds'[s].late > 0 => scheds'[s].gaveUp
    BY <1>2, Zenon DEF RegistryInv
  <2>3. ASSUME SettingsStay, NEW s \in DOMAIN scheds', scheds'[s].busy
        PROVE  \/ Registered(s)'
               \/ \E t \in DOMAIN scheds' \ {s} :
                    scheds'[t].gaveUp /\ scheds'[t].key = scheds'[s].key /\ ~Registered(t)'
    <3>1. \/ Registered(s)
          \/ \E t \in DOMAIN scheds \ {s} :
               scheds[t].gaveUp /\ scheds[t].key = scheds[s].key /\ ~Registered(t)
      BY <1>2, <2>3, Zenon DEF RegistryInv
    <3> QED BY <1>2, <2>1, <3>1
  <2> QED BY <1>1, <2>2, <2>3, Zenon DEF RegistryInv
<1>3. CASE Edit \/ Touch \/ Reload \/ UNCHANGED vars
  BY <1>2, <1>3 DEF Edit, Touch, Reload, vars
<1>4. ASSUME NEW r \in Requests,
             Route(r) \/ Annotate(r) \/ LookUp(r) \/ Stat(r) \/ FindConfig(r) \/ Reject(r)
      PROVE  RegistryInv'
  BY <1>2, <1>4, RouteSteps, UnservedSteps
<1>5. ASSUME NEW r \in Requests, ServeAsIs(r) \/ ServeUnmerged(r) \/ ServeMerged(r)
      PROVE  RegistryInv'
  <2>1. GetWorker(Squash(req[r].spec), nested')
    BY <1>5, ServedSteps
  <2> QED BY <1>1, <2>1, GetWorkerRegistry
<1>6. ASSUME NEW p \in DOMAIN promises, Read(p) PROVE RegistryInv'
  BY <1>2, <1>6 DEF Read
<1>7. ASSUME NEW s \in DOMAIN scheds, Vacant(s) \/ StartFails(s) \/ LateExit(s) PROVE RegistryInv'
  <2>1. file' = file /\ reloads' = reloads
    BY <1>7, WorkerSteps DEF disk, given
  <2> QED BY <1>1, <1>7, <2>1, WorkerRegistry
<1> QED BY <1>3, <1>4, <1>5, <1>6, <1>7 DEF Next

(***************************************************************************)
(* A scheduler that has a worker is in the registry under the key its      *)
(* AppSpec has, however often local configuration is merged and the server *)
(* reloaded, or another of that key that has given up a worker may have    *)
(* taken it out.  In an app_dir location that is so for as long as the     *)
(* file is not edited and the server not reloaded, though its AppSpecs     *)
(* share the settings that are merged into.                                *)
(***************************************************************************)
THEOREM LocalInvariant == Spec => []Inv
<1>1. Init => OwnSettings /\ SharedSettings /\ KeysKept /\ RegistryInv
  <2>1. Init => OwnSettings
    BY DEF Init, OwnSettings, Routed
  <2>2. Init => SharedSettings
    BY DEF Init, SharedSettings
  <2> QED BY <2>1, <2>2 DEF Init, KeysKept, RegistryInv
<1>2. TimesInv /\ OwnSettings /\ [Next]_vars => OwnSettings'
  BY StepOwn
<1>3. TimesInv /\ SharedSettings /\ [Next]_vars => SharedSettings'
  BY StepShared
<1>4. TimesInv /\ OwnSettings /\ SharedSettings /\ SharedSettings' /\ KeysKept /\ [Next]_vars => KeysKept'
  BY StepKeys
<1>5. TimesInv /\ KeysKept /\ RegistryInv /\ [Next]_vars => RegistryInv'
  BY StepRegistry
<1>6. TimesInv /\ KeysKept /\ RegistryInv /\ RunsAsMeant => Inv
  <2> SUFFICES ASSUME TimesInv, KeysKept, RegistryInv, RunsAsMeant PROVE Inv
    OBVIOUS
  <2>1. TypeOK /\ \A k \in DOMAIN registry : registry[k] \in DOMAIN scheds
    BY DEF TimesInv, TypeOK, PartialFunction
  <2>2. IdentifiedBySpec
    BY <2>1 DEF IdentifiedBySpec, KeysStay, KeysKept, RegistryInv
  <2>3. BusyReachable
    BY Zenon DEF BusyReachable, RegistryInv, Registered
  <2> QED BY <2>1, <2>2, <2>3 DEF Inv
<1> QED BY <1>1, <1>2, <1>3, <1>4, <1>5, <1>6, TimesInvariant, AppsRunAsMeant, PTL DEF Spec

=============================================================================
