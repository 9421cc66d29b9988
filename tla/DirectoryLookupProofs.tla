------------------------ MODULE DirectoryLookupProofs -----------------------
(***************************************************************************)
(* The look-up of apps along the path of a URL, for any number of          *)
(* requests, URLs of any length, and files that come and go at any time.   *)
(***************************************************************************)
EXTENDS DirectoryLookup, SequenceTheorems, WellFoundedInduction, TLAPS

IInv == Inv /\ OutermostAnswers /\ NoAppMissed

-----------------------------------------------------------------------------
(* Candidates                                                              *)

\* A set of numbers that is not empty has a smallest.
LEMMA SmallestNumber ==
  ASSUME NEW S \in SUBSET Nat, S # {}
  PROVE  \E x \in S : \A y \in S : x <= y
<1> DEFINE R == OpToRel(<, Nat)
<1>1. PICK x \in S : \A y \in S : <<y, x>> \notin R
  BY NatLessThanWellFounded, WFMin, Zenon
<1>2. ASSUME NEW y \in S PROVE x <= y
  <2>1. x \in Nat /\ y \in Nat /\ <<y, x>> \notin R
    BY <1>1
  <2>2. ~(y < x)
    BY <2>1 DEF OpToRel
  <2> HIDE DEF R
  <2>3. \A a, b \in Nat : ~(a < b) => b <= a
    OBVIOUS
  <2> QED BY <2>1, <2>2, <2>3
<1> QED BY <1>1, <1>2

SegmentNames == Names \cup {""}

CandidateType == [path : Seq(SegmentNames), raw : Nat]

\* A list of candidates after n segments: each is one name longer than the one
\* before it, and the part of the URL that leads to it ends with a name.
Extending(c, url, n) ==
  /\ c \in Seq(CandidateType)
  /\ Len(c) \in 1 .. n + 1
  /\ \A i \in 1 .. Len(c) :
       /\ Len(c[i].path) = i - 1
       /\ c[i].raw <= n
       /\ c[i].raw # 0 => url[c[i].raw].kind = "name"
  /\ \A i, j \in 1 .. Len(c) : i <= j =>
       \A k \in 1 .. i - 1 : c[i].path[k] = c[j].path[k]

NextElements(c, url, n) ==
  IF url[n].kind # "name" THEN c ELSE Append(c, Element(Last(c), url, n))

ElementsInTurn(f, url, len) ==
  f = [n \in 0 .. len |-> IF n = 0 THEN <<Root>> ELSE NextElements(f[n - 1], url, n)]

LEMMA ElementsExist ==
  ASSUME NEW url, NEW len \in Nat
  PROVE  \E f : ElementsInTurn(f, url, len)
<1> DEFINE Bad == {k \in Nat : ~ \E f : ElementsInTurn(f, url, k)}
<1>1. SUFFICES ASSUME Bad # {} PROVE FALSE
  OBVIOUS
<1>2. PICK k \in Bad : \A j \in Bad : k <= j
  BY <1>1, SmallestNumber
<1>3. CASE k = 0
  <2> DEFINE f == [n \in 0 .. 0 |-> <<Root>>]
  <2>1. ElementsInTurn(f, url, 0)
    BY DEF ElementsInTurn
  <2> QED BY <1>2, <1>3, <2>1
<1>4. CASE k # 0
  <2>1. k \in Nat /\ k - 1 \in Nat /\ k - 1 \notin Bad
    BY <1>2, <1>4
  <2>2. PICK f : ElementsInTurn(f, url, k - 1)
    BY <2>1
  <2> DEFINE g == [n \in 0 .. k |-> IF n = k THEN NextElements(f[k - 1], url, k) ELSE f[n]]
  <2>3. ASSUME NEW n \in 0 .. k
        PROVE  g[n] = IF n = 0 THEN <<Root>> ELSE NextElements(g[n - 1], url, n)
    <3>1. CASE n = k
      <4>1. g[n] = NextElements(f[k - 1], url, k) /\ g[k - 1] = f[k - 1] /\ n # 0
        BY <2>1, <3>1, <1>4
      <4> QED BY <4>1, <3>1
    <3>2. CASE n # k
      <4>1. n \in 0 .. (k - 1) /\ g[n] = f[n]
        BY <2>1, <3>2
      <4>2. n # 0 => g[n - 1] = f[n - 1]
        BY <2>1, <3>2
      <4>3. f[n] = IF n = 0 THEN <<Root>> ELSE NextElements(f[n - 1], url, n)
        BY <2>2, <4>1 DEF ElementsInTurn
      <4> QED BY <4>1, <4>2, <4>3
    <3> QED BY <3>1, <3>2
  <2>4. ElementsInTurn(g, url, k)
    <3> HIDE DEF g
    <3>1. g = [n \in 0 .. k |-> g[n]]
      BY DEF g
    <3> QED BY <2>3, <3>1 DEF ElementsInTurn
  <2> QED BY <1>2, <2>1, <2>4
<1> QED BY <1>3, <1>4

LEMMA UrlTypes ==
  ASSUME NEW url \in Urls
  PROVE  /\ url \in Seq(Segment) /\ Len(url) \in 0 .. MaxSegments /\ DOMAIN url = 1 .. Len(url)
         /\ url \in [1 .. Len(url) -> Segments]
<1>1. PICK n \in 0 .. MaxSegments : url \in [1 .. n -> Segments]
  BY DEF Urls
<1>2. n \in Nat /\ Segments \subseteq Segment
  BY DirectoryLookupAssumption
<1>3. url \in [1 .. n -> Segment]
  BY <1>1, <1>2
<1>4. url \in Seq(Segment)
  BY <1>2, <1>3, SeqDef
<1>5. Len(url) = n
  BY <1>2, <1>3, <1>4, LenProperties
<1> QED BY <1>1, <1>4, <1>5

\* One segment more.
LEMMA ExtendingStep ==
  ASSUME NEW url \in Urls, NEW n \in 1 .. Len(url), NEW c, Extending(c, url, n - 1)
  PROVE  Extending(NextElements(c, url, n), url, n)
<1>1. Len(url) \in Nat /\ n \in Nat /\ url[n] \in Segment
  BY UrlTypes, ElementOfSeq
<1>c. c \in Seq(CandidateType) /\ Len(c) \in Nat /\ Len(c) \in 1 .. n
  BY <1>1 DEF Extending
<1>0. ASSUME NEW i \in 1 .. Len(c)
      PROVE  c[i] \in CandidateType /\ c[i].raw \in Nat /\ c[i].path \in Seq(SegmentNames)
  <2>1. c[i] \in CandidateType
    BY <1>c, ElementOfSeq
  <2> QED BY <2>1 DEF CandidateType
<1>2. CASE url[n].kind # "name"
  <2>1. NextElements(c, url, n) = c
    BY <1>2 DEF NextElements
  <2>2. \A i \in 1 .. Len(c) : c[i].raw <= n - 1 => c[i].raw <= n
    BY <1>0, <1>1, <1>c
  <2> QED BY <1>1, <1>c, <2>1, <2>2 DEF Extending
<1>3. CASE url[n].kind = "name"
  <2> DEFINE len == Len(c)
             e == Element(Last(c), url, n)
             d == NextElements(c, url, n)
  <2>1. c \in Seq(CandidateType) /\ len \in 1 .. n /\ c[len] \in CandidateType /\ DOMAIN c = 1 .. len
    BY <1>1, <1>c, ElementOfSeq
  <2>2. url[n].name \in SegmentNames
    BY <1>1 DEF Segment, SegmentNames
  <2>3. Last(c) = c[len] /\ c[len].path \in Seq(SegmentNames) /\ Len(c[len].path) = len - 1
    <3>1. Last(c) = c[len]
      BY DEF Last
    <3>2. Len(c[len].path) = len - 1
      <4>1. \A i \in 1 .. Len(c) : Len(c[i].path) = i - 1
        BY DEF Extending
      <4>2. Len(c) \in 1 .. Len(c)
        BY <1>1, <1>c
      <4> QED BY <4>1, <4>2
    <3>3. len \in 1 .. len
      BY <1>1, <1>c, <2>1
    <3> QED BY <1>0, <3>1, <3>2, <3>3
  <2>4. /\ e.path \in Seq(SegmentNames) /\ Len(e.path) = len /\ e.raw = n
        /\ \A k \in 1 .. len - 1 : e.path[k] = c[len].path[k]
        /\ e \in CandidateType
    <3>1. e.path = Append(c[len].path, url[n].name) /\ e.raw = n /\ e = [path |-> e.path, raw |-> n]
      BY <2>3 DEF Element
    <3>2. /\ e.path \in Seq(SegmentNames) /\ Len(e.path) = Len(c[len].path) + 1
          /\ \A k \in 1 .. Len(c[len].path) : e.path[k] = c[len].path[k]
      <4> DEFINE p == c[len].path
                 x == url[n].name
      <4>1. p \in Seq(SegmentNames) /\ x \in SegmentNames /\ e.path = Append(p, x)
        BY <2>2, <2>3, <3>1
      <4> HIDE DEF p, x, e
      <4>2. /\ e.path \in Seq(SegmentNames) /\ Len(e.path) = Len(p) + 1
            /\ \A k \in 1 .. Len(p) : e.path[k] = p[k]
        BY <4>1, AppendProperties
      <4> QED BY <4>2 DEF p
    <3>3. len \in Nat
      BY <1>c
    <3> HIDE DEF e
    <3>4. Len(e.path) = len /\ \A k \in 1 .. len - 1 : e.path[k] = c[len].path[k]
      <4> DEFINE p == c[len].path
      <4>1. Len(p) = len - 1 /\ Len(e.path) = Len(p) + 1 /\ \A k \in 1 .. Len(p) : e.path[k] = p[k]
        BY <2>3, <3>2
      <4> HIDE DEF p, len
      <4>2. Len(e.path) = len /\ \A k \in 1 .. len - 1 : e.path[k] = p[k]
        BY <3>3, <4>1
      <4> QED BY <4>2 DEF p
    <3>5. e \in CandidateType
      BY <1>1, <3>1, <3>2 DEF CandidateType
    <3> QED BY <3>1, <3>2, <3>4, <3>5
  <2>5. d = Append(c, e)
    BY <1>3 DEF NextElements
  <2> HIDE DEF e
  <2>6. /\ d \in Seq(CandidateType) /\ Len(d) = len + 1 /\ d[len + 1] = e
        /\ \A i \in 1 .. len : d[i] = c[i]
    <3> HIDE DEF d
    <3> QED BY <2>1, <2>4, <2>5, AppendProperties
  <2> HIDE DEF d
  <2>7. \A i \in 1 .. Len(d) :
          /\ Len(d[i].path) = i - 1
          /\ d[i].raw <= n
          /\ d[i].raw # 0 => url[d[i].raw].kind = "name"
    <3> SUFFICES ASSUME NEW i \in 1 .. Len(d)
                 PROVE  /\ Len(d[i].path) = i - 1
                        /\ d[i].raw <= n
                        /\ d[i].raw # 0 => url[d[i].raw].kind = "name"
      OBVIOUS
    <3>1. CASE i = len + 1
      BY <1>1, <1>3, <2>1, <2>4, <2>6, <3>1
    <3>2. CASE i # len + 1
      <4>1. i \in 1 .. len /\ d[i] = c[i]
        BY <2>1, <2>6, <3>2
      <4>2. /\ Len(c[i].path) = i - 1 /\ c[i].raw <= n - 1
            /\ c[i].raw # 0 => url[c[i].raw].kind = "name"
        BY <4>1 DEF Extending
      <4> QED BY <1>0, <1>1, <4>1, <4>2
    <3> QED BY <3>1, <3>2
  <2>8. \A i, j \in 1 .. Len(d) : i <= j => \A k \in 1 .. i - 1 : d[i].path[k] = d[j].path[k]
    <3> SUFFICES ASSUME NEW i \in 1 .. Len(d), NEW j \in 1 .. Len(d), i <= j, NEW k \in 1 .. i - 1
                 PROVE  d[i].path[k] = d[j].path[k]
      OBVIOUS
    <3>1. CASE j # len + 1
      <4>1. i \in 1 .. len /\ j \in 1 .. len
        BY <2>1, <2>6, <3>1
      <4> QED BY <2>6, <4>1 DEF Extending
    <3>2. CASE i = len + 1 /\ j = len + 1
      BY <3>2
    <3>3. CASE i # len + 1 /\ j = len + 1
      <4>1. i \in 1 .. len /\ len \in 1 .. len /\ k \in 1 .. len - 1 /\ d[i] = c[i] /\ d[j] = e
        BY <2>1, <2>6, <3>3
      <4>2. i <= len
        BY <2>1, <4>1
      <4>3. c[i].path[k] = c[len].path[k]
        BY <4>1, <4>2 DEF Extending
      <4> QED BY <2>4, <4>1, <4>3
    <3> QED BY <3>1, <3>2, <3>3
  <2>9. Len(d) \in 1 .. n + 1
    BY <1>1, <2>1, <2>6
  <2> QED BY <2>6, <2>7, <2>8, <2>9 DEF Extending, d
<1> QED BY <1>2, <1>3

LEMMA CandidatesExtend ==
  ASSUME NEW url \in Urls
  PROVE  Extending(Candidates(url), url, Len(url))
<1> DEFINE len == Len(url)
           f == CHOOSE g : ElementsInTurn(g, url, len)
<1>1. len \in Nat
  BY UrlTypes
<1>2. ElementsInTurn(f, url, len)
  BY <1>1, ElementsExist
<1>3. Candidates(url) = f[len]
  BY DEF Candidates, ElementsInTurn, NextElements
<1> HIDE DEF f
<1>4. f[0] = <<Root>> /\ \A n \in 1 .. len : f[n] = NextElements(f[n - 1], url, n)
  BY <1>1, <1>2 DEF ElementsInTurn
<1> DEFINE Bad == {n \in 0 .. len : ~Extending(f[n], url, n)}
<1>5. Extending(f[0], url, 0)
  <2>1. Root \in CandidateType /\ Len(Root.path) = 0 /\ Root.raw = 0
    BY DEF Root, CandidateType
  <2>2. <<Root>> \in Seq(CandidateType) /\ Len(<<Root>>) = 1 /\ <<Root>>[1] = Root
    BY <2>1
  <2> QED BY <1>4, <2>1, <2>2 DEF Extending
<1>6. Bad = {}
  <2> SUFFICES ASSUME Bad # {} PROVE FALSE
    OBVIOUS
  <2>1. PICK k \in Bad : \A j \in Bad : k <= j
    <3>1. Bad \in SUBSET Nat
      BY <1>1
    <3> HIDE DEF Bad
    <3> QED BY <3>1, SmallestNumber
  <2>2. k \in 1 .. len /\ k - 1 \in 0 .. len /\ k - 1 \notin Bad
    BY <1>1, <1>5, <2>1
  <2>3. Extending(f[k], url, k)
    BY <1>4, <2>2, ExtendingStep
  <2> QED BY <2>1, <2>3
<1>7. len \in 0 .. len
  BY <1>1
<1> QED BY <1>3, <1>6, <1>7

\* The candidates of a URL, in terms of their number.
LEMMA CandidatesFacts ==
  ASSUME NEW url \in Urls
  PROVE  LET c == Candidates(url)
         IN  /\ Len(c) \in 1 .. Len(url) + 1 /\ DOMAIN c = 1 .. Len(c) /\ Len(url) \in 0 .. MaxSegments
             /\ \A i \in 1 .. Len(c) :
                  /\ c[i].path \in Seq(SegmentNames) /\ Len(c[i].path) = i - 1
                  /\ c[i].raw \in 0 .. Len(url)
                  /\ c[i].raw # 0 => url[c[i].raw].kind = "name"
             /\ \A i \in 2 .. Len(c) : Front(c[i].path) = c[i - 1].path
<1> DEFINE c == Candidates(url)
<1>1. Extending(c, url, Len(url)) /\ Len(url) \in 0 .. MaxSegments /\ MaxSegments \in Nat
  BY CandidatesExtend, UrlTypes, DirectoryLookupAssumption
<1> HIDE DEF c
<1>2. c \in Seq(CandidateType) /\ Len(c) \in 1 .. Len(url) + 1 /\ DOMAIN c = 1 .. Len(c)
  BY <1>1 DEF Extending
<1>3. ASSUME NEW i \in 1 .. Len(c)
      PROVE  /\ c[i].path \in Seq(SegmentNames) /\ Len(c[i].path) = i - 1
             /\ c[i].raw \in 0 .. Len(url)
             /\ c[i].raw # 0 => url[c[i].raw].kind = "name"
  <2>1. c[i] \in CandidateType
    BY <1>2, ElementOfSeq
  <2>2. c[i].path \in Seq(SegmentNames) /\ c[i].raw \in Nat
    BY <2>1 DEF CandidateType
  <2>3. Len(c[i].path) = i - 1 /\ c[i].raw <= Len(url) /\ (c[i].raw # 0 => url[c[i].raw].kind = "name")
    BY <1>1 DEF Extending
  <2> QED BY <1>1, <2>2, <2>3
<1>4. ASSUME NEW i \in 2 .. Len(c) PROVE Front(c[i].path) = c[i - 1].path
  <2> DEFINE p == c[i].path
             q == c[i - 1].path
  <2>1. i \in 1 .. Len(c) /\ i - 1 \in 1 .. Len(c) /\ i \in Nat /\ i - 1 <= i
    BY <1>1, <1>2
  <2>2. p \in Seq(SegmentNames) /\ q \in Seq(SegmentNames) /\ Len(p) = i - 1 /\ Len(q) = i - 2
    BY <1>3, <2>1
  <2>3. \A k \in 1 .. i - 2 : q[k] = p[k]
    <3>1. \A k \in 1 .. (i - 1) - 1 : q[k] = p[k]
      BY <1>1, <2>1 DEF Extending
    <3> QED BY <2>1, <3>1
  <2> HIDE DEF p, q
  <2>4. /\ Front(p) \in Seq(SegmentNames) /\ Len(Front(p)) = i - 2
        /\ \A k \in 1 .. i - 2 : Front(p)[k] = p[k]
    <3>1. Front(p) = SubSeq(p, 1, i - 2) /\ i - 2 \in 0 .. Len(p)
      BY <2>1, <2>2 DEF Front
    <3> QED BY <2>1, <2>2, <3>1, SubSeqProperties
  <2>5. Front(p) = q
    BY <2>2, <2>3, <2>4, SeqEqual
  <2> QED BY <2>5 DEF p, q
<1> QED BY <1>1, <1>2, <1>3, <1>4 DEF c

\* In the length of a path.
LEMMA PathLengths ==
  ASSUME NEW p \in Paths
  PROVE  /\ p \in Seq(Names) /\ Len(p) \in 0 .. 2
         /\ p # << >> => Len(p) # 0 /\ Front(p) \in Paths
<1>1. CASE p = << >>
  BY <1>1
<1>2. CASE p \in [1 .. 1 -> Names]
  <2>1. p \in Seq(Names) /\ Len(p) = 1
    <3>1. 1 \in Nat /\ p \in Seq(Names)
      BY <1>2, SeqDef
    <3> QED BY <1>2, <3>1, LenProperties
  <2>2. Front(p) = << >>
    BY <2>1 DEF Front
  <2> QED BY <2>1, <2>2 DEF Paths
<1>3. CASE p \in [1 .. 2 -> Names]
  <2>1. p \in Seq(Names) /\ Len(p) = 2
    <3>1. 2 \in Nat /\ p \in Seq(Names)
      BY <1>3, SeqDef
    <3> QED BY <1>3, <3>1, LenProperties
  <2>2. Front(p) \in [1 .. 1 -> Names]
    <3>1. Front(p) = SubSeq(p, 1, 1)
      BY <2>1 DEF Front
    <3>2. SubSeq(p, 1, 1) \in Seq(Names) /\ Len(SubSeq(p, 1, 1)) = 1
      BY <2>1, SubSeqProperties
    <3> QED BY <3>1, <3>2, LenProperties
  <2> QED BY <2>1, <2>2 DEF Paths
<1> QED BY <1>1, <1>2, <1>3 DEF Paths

\* Where there is no directory, there is no app further in.
LEMMA NothingBelow ==
  ASSUME fs \in FileSystems, NEW url \in Urls,
         NEW i \in 1 .. Len(Candidates(url)), NEW j \in 1 .. Len(Candidates(url)), i < j,
         At(Candidates(url)[i].path).is # "dir"
  PROVE  Candidates(url)[j].path \notin Apps
<1> DEFINE c == Candidates(url)
<1>1. Len(c) \in Nat /\ i \in Nat /\ j \in Nat
  BY CandidatesFacts, UrlTypes
<1>2. ASSUME NEW k \in 2 .. Len(c), c[k].path \in Paths, fs[c[k].path].is = "dir"
      PROVE  c[k - 1].path \in Paths /\ fs[c[k - 1].path].is = "dir" /\ k <= 3
  <2>1. Front(c[k].path) = c[k - 1].path /\ Len(c[k].path) = k - 1 /\ k \in Nat /\ k >= 2
    <3>1. k \in 1 .. Len(c) /\ k \in Nat /\ k >= 2
      BY <1>1
    <3> QED BY <3>1, CandidatesFacts
  <2>2. c[k].path # << >>
    BY <2>1
  <2>3. Len(c[k].path) \in 0 .. 2 /\ c[k - 1].path \in Paths
    BY <1>2, <2>1, <2>2, PathLengths
  <2>4. fs[Front(c[k].path)].is = "dir"
    BY <1>2, <2>2, DirectoryLookupAssumption
  <2> HIDE DEF c
  <2> QED BY <2>1, <2>3, <2>4
<1>3. SUFFICES ASSUME c[j].path \in Paths, fs[c[j].path].is = "dir" PROVE FALSE
  BY DEF Apps, Hosts, IsApp, IsRmd, IsPyApp
<1>4. j \in 2 .. Len(c)
  BY <1>1
<1>5. c[j - 1].path \in Paths /\ fs[c[j - 1].path].is = "dir" /\ j <= 3
  BY <1>2, <1>3, <1>4
<1>6. CASE i = j - 1
  BY <1>5, <1>6 DEF At
<1>7. CASE i # j - 1
  <2>1. i = 1 /\ j - 1 = 2 /\ 2 \in 2 .. Len(c)
    BY <1>1, <1>4, <1>5, <1>7
  <2>2. c[1].path \in Paths /\ fs[c[1].path].is = "dir"
    BY <1>2, <1>5, <2>1
  <2> QED BY <2>1, <2>2 DEF At
<1> QED BY <1>6, <1>7

-----------------------------------------------------------------------------
(* One request                                                             *)

Request ==
  [url : Urls, stage : {"new", "exists", "readdir", "static", "answered"},
   at : 1 .. MaxSegments + 1, hops : Nat,
   always : SUBSET Paths, been : SUBSET Paths, answer : Answers]

Looking(q) == q.stage \in {"exists", "readdir", "static"}

NoCandidates(q) ==
  IF q.stage = "static" THEN DOMAIN Candidates(q.url) ELSE 1 .. q.at - 1

AlongUrl(url) == {Candidates(url)[i].path : i \in DOMAIN Candidates(url)}

\* What an answer promises, of OutermostAnswers, NoAppMissed and Redirections.
AnswerFits(q, a) ==
  /\ a.is = "redirect" => q.hops = 0
  /\ a.is \in {"app", "index"} =>
       /\ a.dir \in q.been
       /\ \A p \in AlongUrl(q.url) : Len(p) < Len(a.dir) => p \notin q.always
  /\ a.is \in {"file", "listing", "declined"} /\ ~Unsafe(q.url) =>
       AlongUrl(q.url) \cap q.always = {}

LookupFits(q, apps) ==
  /\ ~Unsafe(q.url)
  /\ apps \subseteq q.been
  /\ q.stage # "static" => q.at <= Len(Candidates(q.url))
  /\ \A i \in NoCandidates(q) : Candidates(q.url)[i].path \notin q.always

\* What IInv says of one request, where the apps are those of the set apps.
Fits(q, apps) ==
  /\ q \in Request
  /\ q.hops <= 1
  /\ q.hops > 0 => q.url # << >> /\ Last(q.url).kind = "empty"
  /\ q.always \subseteq apps
  /\ q.stage # "answered" => q.answer = NoAnswer
  /\ Looking(q) => LookupFits(q, apps)
  /\ AnswerFits(q, q.answer)

World ==
  /\ fs \in FileSystems
  /\ changes \in 0 .. MaxChanges
  /\ userDirs \in BOOLEAN /\ dirIndex \in BOOLEAN
  /\ req = [r \in Requests |-> req[r]]

AllFit == World /\ \A r \in Requests : Fits(req[r], Apps)

LEMMA RequestByRequest == IInv <=> AllFit
<1>1. ASSUME IInv PROVE AllFit
  <2>1. TypeOK /\ RedirectedOnce /\ Redirections /\ Progress /\ OutermostAnswers /\ NoAppMissed
    BY <1>1 DEF IInv, Inv
  <2>2. World /\ req \in [Requests -> Request]
    BY <2>1 DEF TypeOK, World, Request
  <2>3. ASSUME NEW r \in Requests PROVE Fits(req[r], Apps)
    <3>1. req[r] \in Request /\ req[r].hops <= 1
      BY <2>1, <2>2 DEF RedirectedOnce
    <3>2. /\ req[r].hops > 0 => req[r].url # << >> /\ Last(req[r].url).kind = "empty"
          /\ req[r].answer.is = "redirect" => req[r].hops = 0
      BY <2>1 DEF Redirections
    <3>3. /\ req[r].always \subseteq Apps
          /\ req[r].stage # "answered" => req[r].answer = NoAnswer
          /\ Looking(req[r]) => LookupFits(req[r], Apps)
      BY <2>1 DEF Progress, Underway, Excluded, Looking, LookupFits, NoCandidates
    <3>4. AnswerFits(req[r], req[r].answer)
      BY <2>1, <3>2 DEF OutermostAnswers, NoAppMissed, Along, AlongUrl, AnswerFits
    <3> QED BY <3>1, <3>2, <3>3, <3>4 DEF Fits
  <2> QED BY <2>2, <2>3 DEF AllFit
<1>2. ASSUME AllFit PROVE IInv
  <2> USE DEF AllFit
  <2>1. \A r \in Requests : req[r] \in Request
    BY <1>2 DEF Fits
  <2>2. TypeOK
    BY <1>2, <2>1 DEF World, TypeOK, Request
  <2>3. RedirectedOnce
    BY <1>2 DEF Fits, RedirectedOnce
  <2>4. Redirections
    BY <1>2 DEF Fits, AnswerFits, Redirections
  <2>5. Progress
    BY <1>2 DEF Fits, LookupFits, Looking, NoCandidates, Progress, Underway, Excluded
  <2>6. OutermostAnswers /\ NoAppMissed
    BY <1>2 DEF Fits, AnswerFits, OutermostAnswers, NoAppMissed, Along, AlongUrl
  <2> QED BY <2>2, <2>3, <2>4, <2>5, <2>6 DEF IInv, Inv
<1> QED BY <1>1, <1>2

\* Where one request changes, the others still fit.
LEMMA OneRequest ==
  ASSUME AllFit, UNCHANGED <<fs, changes, userDirs, dirIndex>>,
         NEW r \in Requests, NEW q, Fits(q, Apps), req' = [req EXCEPT ![r] = q]
  PROVE  AllFit'
<1>1. Apps' = Apps /\ World'
  BY DEF Apps, World, AllFit
<1>2. \A s \in Requests : req'[s] = IF s = r THEN q ELSE req[s]
  BY DEF World, AllFit
<1>3. \A s \in Requests : Fits(req'[s], Apps')
  BY <1>1, <1>2 DEF AllFit
<1> QED BY <1>1, <1>3 DEF AllFit

LEMMA Plain ==
  /\ NoAnswer \in Answers
  /\ NoAnswer.is \notin {"redirect", "app", "index", "file", "listing", "declined"}
<1>1. << >> \in Paths
  BY DEF Paths
<1>2. << >> \in Urls
  <2>1. 0 \in 0 .. MaxSegments /\ << >> \in [1 .. 0 -> Segments]
    BY DirectoryLookupAssumption
  <2> QED BY <2>1 DEF Urls
<1> QED BY <1>1, <1>2 DEF NoAnswer, Answers

\* A request that is answered.
LEMMA AnsweredFits ==
  ASSUME NEW q, NEW apps, Fits(q, apps), NEW a \in Answers, AnswerFits(q, a)
  PROVE  Fits([q EXCEPT !.stage = "answered", !.answer = a], apps)
<1> DEFINE d == [q EXCEPT !.stage = "answered", !.answer = a]
<1>1. q \in Request
  BY DEF Fits
<1>2. /\ d \in Request /\ d.stage = "answered" /\ d.answer = a /\ d.url = q.url
      /\ d.hops = q.hops /\ d.always = q.always /\ d.been = q.been
  BY <1>1 DEF Request
<1> HIDE DEF d
<1>3. AnswerFits(d, d.answer)
  BY <1>2 DEF AnswerFits
<1>4. /\ d.hops <= 1
      /\ d.hops > 0 => d.url # << >> /\ Last(d.url).kind = "empty"
      /\ d.always \subseteq apps
  BY <1>2 DEF Fits
<1> QED BY <1>2, <1>3, <1>4 DEF Fits, Looking, d

\* The search goes on: another stage, perhaps the next candidate.
LEMMA LookingFits ==
  ASSUME NEW q, NEW apps, Fits(q, apps), Looking(q),
         NEW stage \in {"exists", "readdir", "static"}, NEW at \in 1 .. MaxSegments + 1,
         LET d == [q EXCEPT !.stage = stage, !.at = at]
         IN  /\ stage # "static" => at <= Len(Candidates(q.url))
             /\ \A i \in NoCandidates(d) : Candidates(q.url)[i].path \notin q.always
  PROVE  Fits([q EXCEPT !.stage = stage, !.at = at], apps)
<1> DEFINE d == [q EXCEPT !.stage = stage, !.at = at]
<1>1. q \in Request /\ q.answer = NoAnswer /\ ~Unsafe(q.url) /\ apps \subseteq q.been
  BY DEF Fits, Looking, LookupFits
<1>2. /\ d \in Request /\ d.stage = stage /\ d.at = at /\ d.answer = NoAnswer /\ d.url = q.url
      /\ d.hops = q.hops /\ d.always = q.always /\ d.been = q.been
  BY <1>1 DEF Request
<1>3. \A i \in NoCandidates(d) : Candidates(q.url)[i].path \notin q.always
  OBVIOUS
<1> HIDE DEF d
<1>4. LookupFits(d, apps)
  BY <1>1, <1>2, <1>3 DEF LookupFits
<1>5. AnswerFits(d, d.answer)
  BY <1>2, Plain DEF AnswerFits
<1>6. /\ d.hops <= 1
      /\ d.hops > 0 => d.url # << >> /\ Last(d.url).kind = "empty"
      /\ d.always \subseteq apps
  BY <1>2 DEF Fits
<1> QED BY <1>2, <1>4, <1>5, <1>6 DEF Fits, Looking, d

-----------------------------------------------------------------------------
(* The actions                                                             *)

LEMMA ChangeFits ==
  ASSUME AllFit, Change
  PROVE  AllFit'
<1>1. World'
  <2>1. changes' \in 0 .. MaxChanges
    <3>1. changes < MaxChanges /\ changes' = changes + 1 /\ changes \in 0 .. MaxChanges
      BY DEF Change, World, AllFit
    <3> QED BY <3>1, DirectoryLookupAssumption
  <2> QED BY <2>1 DEF Change, World, AllFit
<1>2. ASSUME NEW r \in Requests PROVE Fits(req'[r], Apps')
  <2> DEFINE q == req[r]
             apps == {p \in Paths : Hosts(fs'[p])}
             d == [q EXCEPT !.always = @ \cap apps, !.been = @ \cup apps]
  <2>1. Apps' = apps /\ req'[r] = d
    BY DEF Change, Apps
  <2>2. Fits(q, Apps) /\ q \in Request
    BY DEF AllFit, Fits
  <2>3. /\ d \in Request /\ d.always = q.always \cap apps /\ d.been = q.been \cup apps
        /\ d.url = q.url /\ d.stage = q.stage /\ d.at = q.at /\ d.hops = q.hops /\ d.answer = q.answer
    BY <2>2 DEF Request
  <2> HIDE DEF q, d, apps
  <2>4. NoCandidates(d) = NoCandidates(q)
    BY <2>3 DEF NoCandidates
  <2>5. Looking(d) => LookupFits(d, apps)
    BY <2>2, <2>3, <2>4 DEF Fits, Looking, LookupFits
  <2>6. AnswerFits(d, d.answer)
    BY <2>2, <2>3 DEF Fits, AnswerFits
  <2> QED BY <2>1, <2>2, <2>3, <2>5, <2>6 DEF Fits
<1> QED BY <1>1, <1>2 DEF AllFit

LEMMA BeginFits ==
  ASSUME AllFit, NEW r \in Requests, Begin(r)
  PROVE  AllFit'
<1> DEFINE q == req[r]
           d == IF Forbidden(q.url) THEN Answer(r, Simple("forbidden"))
                ELSE IF Unsafe(q.url) THEN Answer(r, Simple("declined"))
                ELSE [q EXCEPT !.stage = "exists", !.at = 1, !.always = Apps, !.been = Apps]
<1>1. /\ req' = [req EXCEPT ![r] = d] /\ UNCHANGED <<fs, changes, userDirs, dirIndex>>
      /\ q.stage = "new"
  BY DEF Begin
<1>2. Fits(q, Apps) /\ q \in Request
  BY DEF AllFit, Fits
<1>3. CASE Forbidden(q.url) \/ Unsafe(q.url)
  <2>1. PICK a \in {Simple("forbidden"), Simple("declined")} :
          /\ d = [q EXCEPT !.stage = "answered", !.answer = a]
          /\ a = Simple("declined") => Unsafe(q.url)
    <3>1. CASE Forbidden(q.url)
      <4>1. d = [q EXCEPT !.stage = "answered", !.answer = Simple("forbidden")]
        BY <3>1 DEF Answer
      <4>2. Simple("forbidden") # Simple("declined")
        BY DEF Simple, NoAnswer
      <4> QED BY <4>1, <4>2
    <3>2. CASE ~Forbidden(q.url)
      <4>1. d = [q EXCEPT !.stage = "answered", !.answer = Simple("declined")]
        BY <1>3, <3>2 DEF Answer
      <4> QED BY <1>3, <3>2, <4>1
    <3> QED BY <3>1, <3>2
  <2>2. a \in Answers /\ AnswerFits(q, a)
    BY <2>1, Plain DEF Simple, NoAnswer, Answers, AnswerFits
  <2>3. Fits(d, Apps)
    BY <1>2, <2>1, <2>2, AnsweredFits
  <2> QED BY <1>1, <2>3, OneRequest
<1>4. CASE ~Forbidden(q.url) /\ ~Unsafe(q.url)
  <2>1. d = [q EXCEPT !.stage = "exists", !.at = 1, !.always = Apps, !.been = Apps]
    BY <1>4
  <2>2. 1 \in 1 .. MaxSegments + 1 /\ Apps \in SUBSET Paths
    BY DirectoryLookupAssumption DEF Apps
  <2>3. /\ d \in Request /\ d.stage = "exists" /\ d.at = 1 /\ d.always = Apps /\ d.been = Apps
        /\ d.url = q.url /\ d.hops = q.hops /\ d.answer = q.answer
    BY <1>2, <2>1, <2>2 DEF Request
  <2> HIDE DEF d
  <2>4. q.answer = NoAnswer
    BY <1>1, <1>2 DEF Fits
  <2>5. 1 <= Len(Candidates(q.url))
    <3>1. q.url \in Urls
      BY <1>2 DEF Request
    <3>2. Len(Candidates(q.url)) \in 1 .. Len(q.url) + 1 /\ Len(q.url) \in Nat
      BY <3>1, CandidatesFacts, UrlTypes
    <3> QED BY <3>2
  <2>6. NoCandidates(d) = {}
    BY <2>3 DEF NoCandidates
  <2>7. LookupFits(d, Apps)
    BY <1>4, <2>3, <2>5, <2>6 DEF LookupFits
  <2>8. AnswerFits(d, d.answer)
    BY <2>3, <2>4, Plain DEF AnswerFits
  <2>9. Fits(d, Apps)
    BY <1>2, <2>3, <2>4, <2>7, <2>8 DEF Fits
  <2> QED BY <1>1, <2>9, OneRequest
<1> QED BY <1>3, <1>4

\* While there is no directory where the look-up is, it may end there: what
\* follows are no apps either.
LEMMA NoneFurtherIn ==
  ASSUME AllFit, NEW r \in Requests, req[r].stage \in {"exists", "readdir"},
         At(Candidate(r).path).is # "dir"
  PROVE  Fits([req[r] EXCEPT !.stage = "static"], Apps)
<1> DEFINE q == req[r]
           c == Candidates(q.url)
           d == [q EXCEPT !.stage = "static", !.at = q.at]
<1>1. Fits(q, Apps) /\ q \in Request /\ q.always \subseteq Apps /\ fs \in FileSystems /\ q.url \in Urls
  BY DEF AllFit, World, Fits, Request
<1>2. Looking(q) /\ LookupFits(q, Apps) /\ NoCandidates(q) = 1 .. q.at - 1
  BY <1>1 DEF Fits, Looking, NoCandidates
<1>3. /\ Len(c) \in Nat /\ DOMAIN c = 1 .. Len(c) /\ q.at \in 1 .. Len(c)
  <2>1. Len(c) \in Nat /\ DOMAIN c = 1 .. Len(c)
    BY <1>1, CandidatesFacts, UrlTypes
  <2>2. q.at <= Len(c) /\ q.at \in Nat /\ q.at >= 1
    BY <1>1, <1>2, DirectoryLookupAssumption DEF LookupFits, Request
  <2> QED BY <2>1, <2>2
<1>4. ASSUME NEW i \in 1 .. Len(c) PROVE c[i].path \notin q.always
  <2>1. CASE i < q.at
    <3>1. i \in NoCandidates(q)
      BY <1>2, <1>3, <2>1
    <3> QED BY <1>2, <3>1 DEF LookupFits
  <2>2. CASE i = q.at
    <3>1. c[i].path \notin Apps
      BY <2>2 DEF Candidate, At, Apps, Hosts, IsApp, IsRmd, IsPyApp
    <3> QED BY <1>1, <3>1
  <2>3. CASE i > q.at
    <3>1. At(c[q.at].path).is # "dir"
      BY DEF Candidate
    <3>2. c[i].path \notin Apps
      BY <1>1, <1>3, <2>3, <3>1, NothingBelow
    <3> QED BY <1>1, <3>2
  <2> QED BY <1>3, <2>1, <2>2, <2>3
<1>5. d.url = q.url /\ NoCandidates(d) = DOMAIN c
  BY <1>1 DEF NoCandidates, Request
<1>6. Fits(d, Apps)
  <2>1. q.at \in 1 .. MaxSegments + 1
    BY <1>1 DEF Request
  <2> HIDE DEF q
  <2> QED BY <1>1, <1>2, <1>3, <1>4, <1>5, <2>1, LookingFits
<1>7. d = [q EXCEPT !.stage = "static"]
  BY <1>1 DEF Request
<1> QED BY <1>6, <1>7

LEMMA ExistsFits ==
  ASSUME AllFit, NEW r \in Requests, Exists(r)
  PROVE  AllFit'
<1> DEFINE q == req[r]
<1>1. Fits(q, Apps) /\ q \in Request /\ q.stage = "exists" /\ Looking(q)
  BY DEF AllFit, Fits, Exists, Looking
<1>2. UNCHANGED <<fs, changes, userDirs, dirIndex>>
  BY DEF Exists
<1>3. CASE At(Candidate(r).path).is = "none"
  <2>1. Fits([q EXCEPT !.stage = "static"], Apps)
    BY <1>1, <1>3, NoneFurtherIn
  <2>2. req' = [req EXCEPT ![r] = [q EXCEPT !.stage = "static"]]
    BY <1>3 DEF Exists
  <2> QED BY <1>2, <2>1, <2>2, OneRequest
<1>4. CASE At(Candidate(r).path).is # "none"
  <2> DEFINE d == [q EXCEPT !.stage = "readdir", !.at = q.at]
  <2>1. /\ q.at \in 1 .. MaxSegments + 1 /\ LookupFits(q, Apps)
        /\ NoCandidates(d) = NoCandidates(q) /\ d = [q EXCEPT !.stage = "readdir"]
    BY <1>1 DEF Fits, Request, NoCandidates
  <2>2. Fits(d, Apps)
    <3> HIDE DEF q
    <3> QED BY <1>1, <2>1, LookingFits DEF LookupFits
  <2>3. req' = [req EXCEPT ![r] = [q EXCEPT !.stage = "readdir"]]
    BY <1>4 DEF Exists
  <2> QED BY <1>2, <2>1, <2>2, <2>3, OneRequest
<1> QED BY <1>3, <1>4

\* The candidate hosts no app: on to the next, or to the static files.
LEMMA NextCandidateFits ==
  ASSUME AllFit, NEW r \in Requests, req[r].stage = "readdir", ~Hosts(At(Candidate(r).path))
  PROVE  Fits(NextCandidate(r), Apps)
<1> DEFINE q == req[r]
           c == Candidates(q.url)
           last == q.at >= Len(c)
           stage == IF last THEN "static" ELSE "exists"
           at == IF last THEN q.at ELSE q.at + 1
           d == [q EXCEPT !.stage = stage, !.at = at]
<1>1. Fits(q, Apps) /\ q \in Request /\ q.always \subseteq Apps /\ q.url \in Urls
  BY DEF AllFit, Fits, Request
<1>2. Looking(q) /\ LookupFits(q, Apps) /\ NoCandidates(q) = 1 .. q.at - 1
  BY <1>1 DEF Fits, Looking, NoCandidates
<1>3. /\ Len(c) \in Nat /\ Len(c) <= MaxSegments + 1 /\ DOMAIN c = 1 .. Len(c)
      /\ q.at \in 1 .. Len(c) /\ MaxSegments \in Nat
  <2>1. /\ Len(c) \in 1 .. Len(q.url) + 1 /\ Len(q.url) \in 0 .. MaxSegments /\ DOMAIN c = 1 .. Len(c)
        /\ MaxSegments \in Nat
    BY <1>1, CandidatesFacts, DirectoryLookupAssumption
  <2>2. q.at <= Len(c) /\ q.at \in Nat /\ q.at >= 1
    BY <1>1, <1>2, DirectoryLookupAssumption DEF LookupFits, Request
  <2> HIDE DEF c, q
  <2> QED BY <2>1, <2>2
<1>4. stage \in {"exists", "readdir", "static"} /\ at \in 1 .. MaxSegments + 1
      /\ (stage # "static" => at <= Len(c))
  <2> HIDE DEF q, c
  <2> QED BY <1>3
<1>5. d.stage = stage /\ d.at = at /\ d.url = q.url
  BY <1>1 DEF Request
<1>6. ASSUME NEW i \in NoCandidates(d) PROVE c[i].path \notin q.always
  <2>1. i \in 1 .. q.at
    <3>1. last => i \in 1 .. q.at
      BY <1>3, <1>5 DEF NoCandidates
    <3>2. ~last => i \in 1 .. (q.at + 1) - 1
      BY <1>5 DEF NoCandidates
    <3> HIDE DEF last, q, c
    <3> QED BY <1>3, <3>1, <3>2
  <2>2. CASE i = q.at
    <3>1. c[i].path \notin Apps
      BY <2>2 DEF Candidate, At, Apps
    <3> QED BY <1>1, <3>1
  <2>3. CASE i # q.at
    <3>1. i \in NoCandidates(q)
      BY <1>2, <1>3, <2>1, <2>3
    <3> QED BY <1>2, <3>1 DEF LookupFits
  <2> QED BY <2>2, <2>3
<1>7. Fits(d, Apps)
  <2> HIDE DEF q, at, stage
  <2> QED BY <1>1, <1>2, <1>4, <1>6, LookingFits
<1>8. NextCandidate(r) = d
  <2>1. CASE last
    <3>1. stage = "static" /\ at = q.at
      BY <2>1
    <3>2. d = [q EXCEPT !.stage = "static"]
      <4> HIDE DEF stage, at
      <4> QED BY <1>1, <3>1 DEF Request
    <3>3. ~(q.at < Len(c))
      <4> HIDE DEF q, c
      <4> QED BY <1>3, <2>1
    <3> QED BY <3>2, <3>3 DEF NextCandidate
  <2>2. CASE ~last
    <3>1. d = [q EXCEPT !.stage = "exists", !.at = q.at + 1]
      BY <2>2
    <3>2. q.at < Len(c)
      <4> HIDE DEF q, c
      <4> QED BY <1>3, <2>2
    <3> QED BY <3>1, <3>2 DEF NextCandidate
  <2> QED BY <2>1, <2>2
<1> QED BY <1>7, <1>8

\* What is found at a candidate that hosts an app is an answer that holds.
LEMMA FoundFits ==
  ASSUME AllFit, NEW r \in Requests, req[r].stage = "readdir", Hosts(At(Candidate(r).path)),
         NEW is \in {"redirect", "app", "index"},
         is = "redirect" => Complete(req[r].url, Candidate(r).raw)
  PROVE  LET a == [NoAnswer EXCEPT !.dir = Candidate(r).path,
                                   !.raw = SubSeq(req[r].url, 1, Candidate(r).raw), !.is = is]
         IN  a \in Answers /\ AnswerFits(req[r], a)
<1> DEFINE q == req[r]
           c == Candidates(q.url)
           e == Candidate(r)
           raw == SubSeq(q.url, 1, e.raw)
           a == [NoAnswer EXCEPT !.dir = e.path, !.raw = raw, !.is = is]
<1>1. Fits(q, Apps) /\ q \in Request /\ q.url \in Urls /\ Len(q.url) \in 0 .. MaxSegments
  BY UrlTypes DEF AllFit, Fits, Request
<1>2. Looking(q) /\ LookupFits(q, Apps) /\ NoCandidates(q) = 1 .. q.at - 1
  BY <1>1 DEF Fits, Looking, NoCandidates
<1>3. /\ Len(c) \in Nat /\ DOMAIN c = 1 .. Len(c)
      /\ q.at \in 1 .. Len(c) /\ e = c[q.at]
  <2>1. Len(c) \in Nat /\ DOMAIN c = 1 .. Len(c)
    BY <1>1, CandidatesFacts, UrlTypes
  <2>2. q.at <= Len(c) /\ q.at \in Nat /\ q.at >= 1
    BY <1>1, <1>2, DirectoryLookupAssumption DEF LookupFits, Request
  <2> QED BY <2>1, <2>2 DEF Candidate
<1>4. e.path \in Paths /\ e.path \in Apps
  BY DEF At, Nothing, Hosts, IsApp, IsRmd, IsPyApp, Apps
<1>5. /\ e.raw \in 0 .. Len(q.url) /\ Len(e.path) = q.at - 1
      /\ e.raw # 0 => q.url[e.raw].kind = "name"
  BY <1>1, <1>3, CandidatesFacts
<1>6. raw \in Urls
  <2>1. q.url \in Seq(Segments) /\ Len(q.url) \in Nat
    BY <1>1, UrlTypes, SeqDef, DirectoryLookupAssumption
  <2>2. raw \in Seq(Segments) /\ Len(raw) = e.raw
    BY <1>5, <2>1, SubSeqProperties
  <2>3. raw \in [1 .. e.raw -> Segments] /\ e.raw \in 0 .. MaxSegments
    <3>1. e.raw \in 0 .. MaxSegments
      BY <1>1, <1>5, DirectoryLookupAssumption
    <3> HIDE DEF raw
    <3>2. raw \in [1 .. Len(raw) -> Segments]
      BY <2>2, LenProperties
    <3> QED BY <2>2, <3>1, <3>2
  <2> QED BY <2>3 DEF Urls
<1>7. a.is = is /\ a.dir = e.path /\ a \in Answers
  BY <1>4, <1>6 DEF NoAnswer, Answers
<1>8. a.is = "redirect" => q.hops = 0
  <2> SUFFICES ASSUME is = "redirect", q.hops # 0 PROVE FALSE
    BY <1>7
  <2>1. q.url # << >> /\ Last(q.url).kind = "empty" /\ e.raw = Len(q.url)
    <3>1. q.hops > 0
      BY <1>1 DEF Request
    <3> QED BY <1>1, <3>1 DEF Fits, Complete
  <2>2. Last(q.url) = q.url[Len(q.url)] /\ Len(q.url) # 0
    <3>1. q.url \in Seq(Segment)
      BY <1>1, UrlTypes
    <3> QED BY <2>1, <3>1, EmptySeq DEF Last
  <2> QED BY <1>5, <2>1, <2>2
<1>9. a.dir \in q.been
  BY <1>2, <1>4, <1>7 DEF LookupFits
<1>10. ASSUME NEW p \in AlongUrl(q.url), Len(p) < Len(a.dir)
       PROVE  p \notin q.always
  <2>1. PICK i \in 1 .. Len(c) : p = c[i].path
    BY <1>3 DEF AlongUrl
  <2>2. Len(p) = i - 1
    BY <1>1, <2>1, CandidatesFacts
  <2>3. i \in 1 .. q.at - 1
    BY <1>3, <1>5, <1>7, <1>10, <2>1, <2>2
  <2> QED BY <1>2, <2>1, <2>3 DEF LookupFits
<1> HIDE DEF a
<1>11. AnswerFits(q, a)
  BY <1>7, <1>8, <1>9, <1>10 DEF AnswerFits
<1> QED BY <1>7, <1>11 DEF a

LEMMA ReadDirFits ==
  ASSUME AllFit, NEW r \in Requests, ReadDir(r)
  PROVE  AllFit'
<1> DEFINE q == req[r]
           e == Candidate(r)
           node == At(e.path)
           found(is) == [NoAnswer EXCEPT !.dir = e.path, !.raw = SubSeq(q.url, 1, e.raw), !.is = is]
<1>1. q.stage = "readdir" /\ Fits(q, Apps) /\ q \in Request
  BY DEF AllFit, Fits, ReadDir
<1>2. UNCHANGED <<fs, changes, userDirs, dirIndex>>
  BY DEF ReadDir
<1>3. CASE node.is = "file"
  <2>1. req' = [req EXCEPT ![r] = [q EXCEPT !.stage = "static"]]
    <3>1. ~Hosts(node)
      BY <1>3 DEF Hosts, IsApp, IsRmd, IsPyApp
    <3> QED BY <1>3, <3>1 DEF ReadDir
  <2>2. Fits([q EXCEPT !.stage = "static"], Apps)
    BY <1>1, <1>3, NoneFurtherIn
  <2> QED BY <1>2, <2>1, <2>2, OneRequest
<1>4. CASE node.is # "file" /\ ~Hosts(node)
  <2>1. req' = [req EXCEPT ![r] = NextCandidate(r)]
    BY <1>4 DEF ReadDir
  <2> QED BY <1>1, <1>2, <1>4, <2>1, NextCandidateFits, OneRequest
<1>5. CASE Hosts(node)
  <2>1. PICK is \in {"redirect", "app", "index"} :
          /\ is = "redirect" => Complete(q.url, e.raw)
          /\ req' = [req EXCEPT ![r] = Answer(r, found(is))]
    <3>1. node.is # "file"
      BY <1>5 DEF Hosts, IsApp, IsRmd, IsPyApp
    <3> DEFINE f == [NoAnswer EXCEPT !.dir = e.path, !.raw = SubSeq(q.url, 1, e.raw)]
    <3>2. \A is : found(is) = [f EXCEPT !.is = is]
      BY DEF NoAnswer
    <3>3. CASE Complete(q.url, e.raw)
      <4>1. req' = [req EXCEPT ![r] = Answer(r, [f EXCEPT !.is = "redirect"])]
        BY <1>5, <3>1, <3>3 DEF ReadDir
      <4> QED BY <3>2, <3>3, <4>1
    <3>4. CASE ~Complete(q.url, e.raw)
      <4>1. \/ req' = [req EXCEPT ![r] = Answer(r, [f EXCEPT !.is = "index"])]
            \/ req' = [req EXCEPT ![r] = Answer(r, [f EXCEPT !.is = "app"])]
        BY <1>5, <3>1, <3>4 DEF ReadDir
      <4> QED BY <3>2, <4>1
    <3> QED BY <3>3, <3>4
  <2>2. found(is) \in Answers /\ AnswerFits(q, found(is))
    BY <1>1, <1>5, <2>1, FoundFits
  <2>3. Fits(Answer(r, found(is)), Apps)
    <3> HIDE DEF found
    <3> QED BY <1>1, <2>2, AnsweredFits DEF Answer
  <2> QED BY <1>2, <2>1, <2>3, OneRequest
<1> QED BY <1>3, <1>4, <1>5

LEMMA StaticFits ==
  ASSUME AllFit, NEW r \in Requests, Static(r)
  PROVE  AllFit'
<1> DEFINE q == req[r]
           c == Candidates(q.url)
           node == At(Last(c).path)
           slash == q.url[Len(q.url)].kind = "empty"
           result == CASE node.is = "none" -> "declined"
                       [] node.is = "file" -> IF slash THEN "declined" ELSE "file"
                       [] node.is = "dir" ->
                            IF ~slash THEN "redirect"
                            ELSE IF "index.html" \in node.entries THEN "file"
                            ELSE IF dirIndex THEN "listing" ELSE "declined"
<1>1. /\ q.stage = "static" /\ req' = [req EXCEPT ![r] = Answer(r, Simple(result))]
      /\ UNCHANGED <<fs, changes, userDirs, dirIndex>>
  BY DEF Static
<1>2. Fits(q, Apps) /\ q \in Request /\ fs \in [Paths -> Node]
  BY DirectoryLookupAssumption DEF AllFit, World, Fits
<1>3. LookupFits(q, Apps) /\ NoCandidates(q) = DOMAIN c
  BY <1>1, <1>2 DEF Fits, Looking, NoCandidates
<1>4. node.is \in {"none", "file", "dir"}
  BY <1>2 DEF At, Nothing, Node
<1>5. result \in {"declined", "file", "listing", "redirect"} /\ (result = "redirect" => ~slash)
  <2> HIDE DEF node, slash
  <2> QED BY <1>4
<1> HIDE DEF result
<1>6. AlongUrl(q.url) \cap q.always = {}
  BY <1>3 DEF LookupFits, AlongUrl
<1>7. ~slash => q.hops = 0
  <2> SUFFICES ASSUME q.hops # 0 PROVE slash
    OBVIOUS
  <2>1. q.hops > 0
    BY <1>2 DEF Request
  <2>2. Last(q.url).kind = "empty"
    BY <1>2, <2>1 DEF Fits
  <2> QED BY <2>2 DEF Last
<1>8. Simple(result) \in Answers /\ Simple(result).is = result
  BY <1>5, Plain DEF Simple, NoAnswer, Answers
<1>9. AnswerFits(q, Simple(result))
  BY <1>5, <1>6, <1>7, <1>8 DEF AnswerFits
<1>10. Fits(Answer(r, Simple(result)), Apps)
  BY <1>2, <1>8, <1>9, AnsweredFits DEF Answer
<1> QED BY <1>1, <1>10, OneRequest

LEMMA FollowFits ==
  ASSUME AllFit, NEW r \in Requests, Follow(r)
  PROVE  AllFit'
<1> DEFINE q == req[r]
           url == Append(q.url, Empty)
           d == [q EXCEPT !.url = url, !.stage = "new", !.hops = q.hops + 1, !.answer = NoAnswer]
<1>1. /\ q.answer.is = "redirect" /\ Len(q.url) < MaxSegments
      /\ UNCHANGED <<fs, changes, userDirs, dirIndex>>
  BY DEF Follow
<1>2. Fits(q, Apps) /\ q \in Request /\ q.url \in Urls
  BY DEF AllFit, Fits, Request
<1>3. req' = [req EXCEPT ![r] = d]
  BY <1>2 DEF Follow, World, AllFit, Request
<1>4. q.hops = 0
  BY <1>1, <1>2 DEF Fits, AnswerFits
<1>5. /\ url \in Urls /\ url # << >> /\ Last(url) = Empty
  <2>1. Segments \subseteq Segment /\ Empty \in Segments /\ MaxSegments \in Nat
    BY DirectoryLookupAssumption
  <2>2. q.url \in Seq(Segments) /\ Len(q.url) \in Nat
    BY <1>2, UrlTypes, SeqDef, <2>1
  <2>3. /\ url \in Seq(Segments) /\ Len(url) = Len(q.url) + 1 /\ url[Len(q.url) + 1] = Empty
    <3> DEFINE u == q.url
    <3> HIDE DEF u
    <3>1. Append(u, Empty) \in Seq(Segments) /\ Len(Append(u, Empty)) = Len(u) + 1
          /\ Append(u, Empty)[Len(u) + 1] = Empty
      BY <2>1, <2>2, AppendProperties DEF u
    <3> QED BY <3>1 DEF u
  <2> HIDE DEF url
  <2>4. url \in [1 .. Len(url) -> Segments] /\ Len(url) \in 0 .. MaxSegments
    <3>1. url \in [1 .. Len(url) -> Segments]
      BY <2>3, LenProperties
    <3>2. Len(url) \in 0 .. MaxSegments
      BY <1>1, <2>1, <2>2, <2>3
    <3> QED BY <3>1, <3>2
  <2>5. url \in Urls
    BY <2>4 DEF Urls
  <2>6. Len(url) # 0
    BY <2>2, <2>3
  <2>7. url # << >>
    BY <2>3, <2>6, EmptySeq
  <2> QED BY <2>2, <2>3, <2>5, <2>7 DEF Last
<1>6. /\ d \in Request /\ d.url = url /\ d.stage = "new" /\ d.hops = 1 /\ d.answer = NoAnswer
      /\ d.always = q.always
  <2>1. q.hops + 1 = 1
    BY <1>4
  <2> DEFINE hops == q.hops + 1
             a == NoAnswer
  <2>2. hops = 1 /\ a \in Answers /\ d = [q EXCEPT !.url = url, !.stage = "new", !.hops = hops, !.answer = a]
    BY <2>1, Plain
  <2> HIDE DEF url, q, hops, a, d
  <2>3. /\ d \in Request /\ d.url = url /\ d.stage = "new" /\ d.hops = 1 /\ d.answer = a
        /\ d.always = q.always
    BY <1>2, <1>5, <2>2 DEF Request
  <2> QED BY <2>3 DEF a
<1> HIDE DEF d, url
<1>7. Fits(d, Apps)
  <2>1. AnswerFits(d, d.answer)
    BY <1>6, Plain DEF AnswerFits
  <2>2. Last(d.url).kind = "empty" /\ d.url # << >> /\ d.hops <= 1
    <3>1. Empty.kind = "empty"
      BY DEF Empty
    <3> QED BY <1>5, <1>6, <3>1
  <2>3. d.always \subseteq Apps
    BY <1>2, <1>6 DEF Fits
  <2> QED BY <1>6, <2>1, <2>2, <2>3 DEF Fits, Looking
<1> QED BY <1>1, <1>3, <1>7, OneRequest

LEMMA InitFits ==
  ASSUME Init
  PROVE  AllFit
<1>1. World
  BY DirectoryLookupAssumption DEF Init, World
<1>2. ASSUME NEW r \in Requests PROVE Fits(req[r], Apps)
  <2> DEFINE q == req[r]
  <2>1. q \in [url : Urls, stage : {"new"}, at : {1}, hops : {0}, always : {{}}, been : {{}}, answer : {NoAnswer}]
    BY DEF Init
  <2>2. 1 \in 1 .. MaxSegments + 1
    BY DirectoryLookupAssumption
  <2>3. q \in Request /\ q.hops = 0 /\ q.always = {} /\ q.stage = "new" /\ q.answer = NoAnswer
    BY <2>1, <2>2, Plain DEF Request
  <2> QED BY <2>3, Plain DEF Fits, Looking, AnswerFits
<1> QED BY <1>1, <1>2 DEF AllFit

-----------------------------------------------------------------------------
(* The theorems                                                            *)

LEMMA IInvHolds == Spec => []IInv
<1>1. Init => AllFit
  BY InitFits
<1>2. AllFit /\ [Next]_vars => AllFit'
  <2> SUFFICES ASSUME AllFit, [Next]_vars PROVE AllFit'
    OBVIOUS
  <2>1. CASE Change
    BY <2>1, ChangeFits
  <2>2. ASSUME NEW r \in Requests, Begin(r) \/ Exists(r) \/ ReadDir(r) \/ Static(r) \/ Follow(r)
        PROVE  AllFit'
    BY <2>2, BeginFits, ExistsFits, ReadDirFits, StaticFits, FollowFits
  <2>3. CASE UNCHANGED vars
    BY <2>3 DEF vars, AllFit, World, Apps
  <2> QED BY <2>1, <2>2, <2>3 DEF Next
<1> QED BY <1>1, <1>2, RequestByRequest, PTL DEF Spec

\* The invariant of a look-up: a request that is looked up knows of every
\* candidate behind it that it has not been an app all the time, and whoever
\* has been redirected comes with a slash and is not redirected again.
THEOREM LookupInOrder == Spec => []Inv
<1>1. IInv => Inv
  BY DEF IInv
<1> QED BY <1>1, IInvHolds, PTL

\* Whatever files come and go meanwhile, the app that answers has been there,
\* and none further out on the path of the URL has been there all the time
\* (forEachPromise_p over extractUnescapedDirs, outermost first).
THEOREM OutermostAppAnswers == Spec => []OutermostAnswers
<1>1. IInv => OutermostAnswers
  BY DEF IInv
<1> QED BY <1>1, IInvHolds, PTL

\* Static files are served, or the request is declined, only if no directory
\* on the path has hosted an app all the time: it is sound to end the search
\* where fs.exists finds nothing, or readdir a file.
THEOREM NoAppIsMissed == Spec => []NoAppMissed
<1>1. IInv => NoAppMissed
  BY DEF IInv
<1> QED BY <1>1, IInvHolds, PTL

\* No browser is redirected in circles, by directory-router or the static
\* files, whatever happens to the files meanwhile.
THEOREM RedirectedAtMostOnce == Spec => []RedirectedOnce
<1>1. IInv => RedirectedOnce
  BY DEF IInv, Inv
<1> QED BY <1>1, IInvHolds, PTL

=============================================================================
