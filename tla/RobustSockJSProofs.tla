------------------------- MODULE RobustSockJSProofs -------------------------
(***************************************************************************)
(* RobustSockJS for any number of connections and messages: Inv is         *)
(* inductive, so no handshake fails and only an ended session refuses its  *)
(* client; a session ends only while it is disconnected; and the two       *)
(* directions are reliable streams.                                        *)
(***************************************************************************)
EXTENDS RobustSockJS, SequenceTheorems, TLAPS

End ==
  [first : Nat, next : Nat, nextIn : Nat, ackDue : BOOLEAN, expectContinue : BOOLEAN]

Message == [kind : {"data", "ack", "CONTINUE"}, id : Nat]

-----------------------------------------------------------------------------
(* What is on its way                                                      *)

LEMMA NothingCarried ==
  ASSUME NEW a \in Nat
  PROVE  Carries(<< >>, a, a)
BY DEF Carries

\* What Append and Tail do to the elements.
LEMMA Appended ==
  ASSUME NEW w \in Seq(Message), NEW m \in Message
  PROVE  LET v == Append(w, m)
         IN  /\ v \in Seq(Message)
             /\ \A i \in DOMAIN w : i \in DOMAIN v /\ v[i] = w[i] /\ i \in Nat
             /\ \A i \in DOMAIN v :
                  (i \in DOMAIN w /\ v[i] = w[i]) \/ (i = Len(w) + 1 /\ v[i] = m)
             /\ Len(w) + 1 \in DOMAIN v /\ v[Len(w) + 1] = m
             /\ \A i \in DOMAIN w : i < Len(w) + 1
OBVIOUS

\* At its back, a message that is not data changes nothing ...
LEMMA CarriesMore ==
  ASSUME NEW w \in Seq(Message), NEW a \in Nat, NEW b \in Nat, Carries(w, a, b),
         NEW m \in Message, m.kind # "data"
  PROVE  Carries(Append(w, m), a, b)
<1> DEFINE v == Append(w, m)
<1>1. /\ \A i \in DOMAIN w : i \in DOMAIN v /\ v[i] = w[i] /\ i \in Nat
      /\ \A i \in DOMAIN v :
           (i \in DOMAIN w /\ v[i] = w[i]) \/ (i = Len(w) + 1 /\ v[i] = m)
      /\ Len(w) + 1 \in DOMAIN v /\ v[Len(w) + 1] = m
      /\ \A i \in DOMAIN w : i < Len(w) + 1
  BY Appended
<1> HIDE DEF v
<1> SUFFICES Carries(v, a, b)
  BY DEF v
<1>2. \A i \in DOMAIN v : v[i].kind = "data" => i \in DOMAIN w /\ v[i] = w[i]
  BY <1>1
<1>3. \A i \in DOMAIN w : i \in DOMAIN v /\ v[i] = w[i]
  BY <1>1
<1> QED BY <1>2, <1>3 DEF Carries

\* ... and data are the next ones.
LEMMA CarriesNext ==
  ASSUME NEW w \in Seq(Message), NEW a \in Nat, NEW b \in Nat, Carries(w, a, b),
         NEW m \in Message, m.kind = "data", m.id = b
  PROVE  Carries(Append(w, m), a, b + 1)
<1> DEFINE v == Append(w, m)
<1>1. /\ \A i \in DOMAIN w : i \in DOMAIN v /\ v[i] = w[i] /\ i \in Nat
      /\ \A i \in DOMAIN v :
           (i \in DOMAIN w /\ v[i] = w[i]) \/ (i = Len(w) + 1 /\ v[i] = m)
      /\ Len(w) + 1 \in DOMAIN v /\ v[Len(w) + 1] = m
      /\ \A i \in DOMAIN w : i < Len(w) + 1
  BY Appended
<1> HIDE DEF v
<1> SUFFICES Carries(v, a, b + 1)
  BY DEF v
<1>2. \A i \in DOMAIN v : v[i].kind = "data" => v[i].id \in a .. b
  BY <1>1 DEF Carries
<1>3. ASSUME NEW i \in DOMAIN v, NEW j \in DOMAIN v,
             v[i].kind = "data", v[j].kind = "data", i < j
      PROVE  v[i].id < v[j].id
  <2>1. i \in DOMAIN w /\ v[i] = w[i] /\ w[i].id \in a .. b - 1
    <3>1. i # Len(w) + 1
      <4>1. Len(w) \in Nat
        OBVIOUS
      <4> QED BY <1>1, <1>3, <4>1
    <3> QED BY <1>1, <1>3, <3>1 DEF Carries
  <2>2. CASE j \in DOMAIN w /\ v[j] = w[j]
    BY <1>3, <2>1, <2>2 DEF Carries
  <2>3. CASE v[j] = m
    BY <2>1, <2>3
  <2> QED BY <1>1, <2>2, <2>3
<1>4. \A n \in a .. b : \E i \in DOMAIN v : v[i].kind = "data" /\ v[i].id = n
  <2> SUFFICES ASSUME NEW n \in a .. b
               PROVE  \E i \in DOMAIN v : v[i].kind = "data" /\ v[i].id = n
    OBVIOUS
  <2>1. CASE n = b
    BY <1>1, <2>1
  <2>2. CASE n \in a .. b - 1
    <3>1. PICK i \in DOMAIN w : w[i].kind = "data" /\ w[i].id = n
      BY <2>2 DEF Carries
    <3>2. i \in DOMAIN v /\ v[i] = w[i]
      BY <1>1
    <3> QED BY <3>1, <3>2
  <2> QED BY <2>1, <2>2
<1> QED BY <1>2, <1>3, <1>4 DEF Carries

\* At its front, what is not data carries nothing ...
LEMMA CarriesLess ==
  ASSUME NEW w \in Seq(Message), w # << >>, NEW a \in Nat, NEW b \in Nat,
         Carries(w, a, b), Head(w).kind # "data"
  PROVE  Carries(Tail(w), a, b)
<1> DEFINE v == Tail(w)
<1>1. /\ Len(v) = Len(w) - 1 /\ Len(w) \in Nat \ {0} /\ DOMAIN w = 1 .. Len(w)
      /\ DOMAIN v = 1 .. Len(w) - 1
      /\ \A i \in 1 .. Len(w) - 1 : v[i] = w[i + 1]
      /\ w[1] = Head(w)
  OBVIOUS
<1> HIDE DEF v
<1> SUFFICES Carries(v, a, b)
  BY DEF v
<1>2. ASSUME NEW i \in DOMAIN v, v[i].kind = "data" PROVE v[i].id \in a .. b - 1
  <2>1. i + 1 \in DOMAIN w /\ w[i + 1] = v[i]
    BY <1>1
  <2> QED BY <1>2, <2>1 DEF Carries
<1>3. ASSUME NEW i \in DOMAIN v, NEW j \in DOMAIN v,
             v[i].kind = "data", v[j].kind = "data", i < j
      PROVE  v[i].id < v[j].id
  <2>1. /\ i + 1 \in DOMAIN w /\ w[i + 1] = v[i]
        /\ j + 1 \in DOMAIN w /\ w[j + 1] = v[j]
        /\ i + 1 < j + 1
    BY <1>1, <1>3
  <2> QED BY <1>3, <2>1 DEF Carries
<1>4. ASSUME NEW n \in a .. b - 1
      PROVE  \E i \in DOMAIN v : v[i].kind = "data" /\ v[i].id = n
  <2>1. PICK i \in DOMAIN w : w[i].kind = "data" /\ w[i].id = n
    BY DEF Carries
  <2>2. i # 1 /\ i - 1 \in DOMAIN v /\ v[i - 1] = w[i]
    BY <1>1, <2>1
  <2> QED BY <2>1, <2>2
<1> QED BY <1>2, <1>3, <1>4 DEF Carries

\* ... and data are the first ones.
LEMMA CarriesFirst ==
  ASSUME NEW w \in Seq(Message), w # << >>, NEW a \in Nat, NEW b \in Nat,
         Carries(w, a, b), Head(w).kind = "data"
  PROVE  /\ Head(w).id = a /\ a < b
         /\ Carries(Tail(w), a + 1, b)
<1> DEFINE v == Tail(w)
<1>1. /\ Len(v) = Len(w) - 1 /\ Len(w) \in Nat \ {0} /\ DOMAIN w = 1 .. Len(w)
      /\ DOMAIN v = 1 .. Len(w) - 1
      /\ \A i \in 1 .. Len(w) - 1 : v[i] = w[i + 1]
      /\ w[1] = Head(w) /\ 1 \in DOMAIN w
  OBVIOUS
<1> HIDE DEF v
<1>2. w[1].id \in a .. b - 1
  BY <1>1 DEF Carries
<1>3. w[1].id = a
  <2>1. PICK i \in DOMAIN w : w[i].kind = "data" /\ w[i].id = a
    BY <1>2 DEF Carries
  <2>2. i = 1 \/ 1 < i
    BY <1>1
  <2>3. 1 < i => w[1].id < a
    BY <1>1, <2>1 DEF Carries
  <2> QED BY <1>2, <2>1, <2>2, <2>3
<1>4. \A i \in DOMAIN v : v[i].kind = "data" => v[i].id \in a + 1 .. b - 1
  <2> SUFFICES ASSUME NEW i \in DOMAIN v, v[i].kind = "data" PROVE v[i].id \in a + 1 .. b - 1
    OBVIOUS
  <2>1. i + 1 \in DOMAIN w /\ 1 < i + 1 /\ w[i + 1] = v[i]
    BY <1>1
  <2>2. w[1].id < w[i + 1].id /\ w[i + 1].id \in a .. b - 1
    BY <1>1, <2>1 DEF Carries
  <2> QED BY <1>3, <2>1, <2>2
<1>5. ASSUME NEW i \in DOMAIN v, NEW j \in DOMAIN v,
             v[i].kind = "data", v[j].kind = "data", i < j
      PROVE  v[i].id < v[j].id
  <2>1. /\ i + 1 \in DOMAIN w /\ w[i + 1] = v[i]
        /\ j + 1 \in DOMAIN w /\ w[j + 1] = v[j]
        /\ i + 1 < j + 1
    BY <1>1, <1>5
  <2> QED BY <1>5, <2>1 DEF Carries
<1>6. ASSUME NEW n \in a + 1 .. b - 1
      PROVE  \E i \in DOMAIN v : v[i].kind = "data" /\ v[i].id = n
  <2>1. PICK i \in DOMAIN w : w[i].kind = "data" /\ w[i].id = n
    BY DEF Carries
  <2>2. i # 1 /\ i - 1 \in DOMAIN v /\ v[i - 1] = w[i]
    BY <1>1, <1>3, <2>1
  <2> QED BY <2>1, <2>2
<1>7. Carries(v, a + 1, b)
  BY <1>2, <1>4, <1>5, <1>6 DEF Carries
<1> QED BY <1>1, <1>2, <1>3, <1>7 DEF v

\* What is sent again.
LEMMA SentAgain ==
  ASSUME NEW e \in End, NEW id \in 0 .. e.next
  PROVE  LET g == GetMessagesFrom(e, id)
         IN  /\ g \in Seq(Message) /\ Len(g) = e.next - id
             /\ \A i \in 1 .. Len(g) : g[i] = [kind |-> "data", id |-> id + i - 1]
<1> DEFINE g == GetMessagesFrom(e, id)
<1>1. e.next - id \in Nat
  BY DEF End
<1>2. g = [i \in 1 .. e.next - id |-> [kind |-> "data", id |-> id + i - 1]]
  BY DEF GetMessagesFrom
<1>3. \A i \in 1 .. e.next - id : [kind |-> "data", id |-> id + i - 1] \in Message
  BY <1>1 DEF Message
<1>4. g \in Seq(Message) /\ Len(g) = e.next - id
  BY <1>1, <1>2, <1>3, IsASeq
<1> QED BY <1>2, <1>4

LEMMA CarriesAgain ==
  ASSUME NEW w \in Seq(Message), NEW e \in End, NEW id \in 0 .. e.next,
         Carries(w, id, id)
  PROVE  LET v == w \o GetMessagesFrom(e, id)
         IN  /\ v \in Seq(Message)
             /\ Len(v) >= Len(w)
             /\ \A i \in 1 .. Len(w) : v[i] = w[i]
             /\ \A i \in 1 .. Len(v) : i > Len(w) => v[i].kind = "data"
             /\ Carries(v, id, e.next)
<1> DEFINE g == GetMessagesFrom(e, id)
           v == w \o g
<1>1. /\ g \in Seq(Message) /\ Len(g) = e.next - id
      /\ \A i \in 1 .. Len(g) : g[i] = [kind |-> "data", id |-> id + i - 1]
  BY SentAgain
<1> HIDE DEF g
<1>2. v \in Seq(Message) /\ Len(v) = Len(w) + Len(g)
  BY <1>1, ConcatProperties
<1>3. \A i \in 1 .. Len(v) : v[i] = IF i <= Len(w) THEN w[i] ELSE g[i - Len(w)]
  BY <1>1, ConcatProperties
<1>4. /\ Len(w) \in Nat /\ DOMAIN w = 1 .. Len(w) /\ DOMAIN v = 1 .. Len(v)
      /\ e.next \in Nat /\ id \in Nat /\ id <= e.next
  BY <1>2 DEF End
<1> HIDE DEF v
<1>5. \A i \in 1 .. Len(v) :
        IF i <= Len(w) THEN v[i] = w[i]
        ELSE v[i].kind = "data" /\ v[i].id = id + (i - Len(w)) - 1
  <2> SUFFICES ASSUME NEW i \in 1 .. Len(v)
               PROVE  IF i <= Len(w) THEN v[i] = w[i]
                      ELSE v[i].kind = "data" /\ v[i].id = id + (i - Len(w)) - 1
    OBVIOUS
  <2>1. CASE i <= Len(w)
    BY <1>3, <2>1
  <2>2. CASE ~(i <= Len(w))
    <3>1. i - Len(w) \in 1 .. Len(g)
      BY <1>1, <1>2, <1>4, <2>2
    <3>2. v[i] = g[i - Len(w)]
      BY <1>3, <2>2
    <3>3. g[i - Len(w)] = [kind |-> "data", id |-> id + (i - Len(w)) - 1]
      BY <1>1, <3>1
    <3> QED BY <2>2, <3>2, <3>3
  <2> QED BY <2>1, <2>2
<1>6. \A i \in DOMAIN w : w[i].kind # "data"
  BY <1>4 DEF Carries
<1>7. \A i \in 1 .. Len(v) :
        v[i].kind = "data" => i > Len(w) /\ v[i].id = id + (i - Len(w)) - 1
  BY <1>4, <1>5, <1>6
<1>8. \A n \in id .. e.next - 1 : \E i \in 1 .. Len(v) : v[i].kind = "data" /\ v[i].id = n
  <2> SUFFICES ASSUME NEW n \in id .. e.next - 1
               PROVE  \E i \in 1 .. Len(v) : v[i].kind = "data" /\ v[i].id = n
    OBVIOUS
  <2> DEFINE i == Len(w) + (n - id) + 1
  <2>1. i \in 1 .. Len(v) /\ i > Len(w) /\ id + (i - Len(w)) - 1 = n
    BY <1>1, <1>2, <1>4
  <2> HIDE DEF i
  <2> QED BY <1>4, <1>5, <2>1
<1>9. Carries(v, id, e.next)
  <2>1. \A i \in 1 .. Len(v) : v[i].kind = "data" => v[i].id \in id .. e.next - 1
    <3> SUFFICES ASSUME NEW i \in 1 .. Len(v), v[i].kind = "data"
                 PROVE  v[i].id \in id .. e.next - 1
      OBVIOUS
    <3>1. i > Len(w) /\ v[i].id = id + (i - Len(w)) - 1 /\ i <= Len(w) + (e.next - id)
      BY <1>1, <1>2, <1>7
    <3> QED BY <1>4, <3>1
  <2>2. \A i, j \in 1 .. Len(v) :
          v[i].kind = "data" /\ v[j].kind = "data" /\ i < j => v[i].id < v[j].id
    BY <1>4, <1>7
  <2> QED BY <1>4, <1>8, <2>1, <2>2 DEF Carries
<1>10. Len(v) >= Len(w)
  BY <1>1, <1>2, <1>4
<1>11. /\ \A i \in 1 .. Len(w) : v[i] = w[i]
       /\ \A i \in 1 .. Len(v) : i > Len(w) => v[i].kind = "data"
  BY <1>4, <1>5, <1>10
<1> QED BY <1>2, <1>9, <1>10, <1>11 DEF v, g

-----------------------------------------------------------------------------
(* What one end can take: e reads w, which p writes                        *)

\* Nothing matters but these fields.
LEMMA StillAcceptable ==
  ASSUME NEW w, NEW awaited \in BOOLEAN,
         NEW e \in End, NEW f \in End, f.first = e.first, f.nextIn = e.nextIn,
         NEW p \in End, NEW q \in End, q.nextIn = p.nextIn, p.next <= q.next
  PROVE  /\ Acceptable(w, e, p, awaited) => Acceptable(w, f, q, awaited)
         /\ /\ q.expectContinue = p.expectContinue
            /\ q.next = p.next \/ q.expectContinue
            /\ Complete(w, e, p, awaited)
            => Complete(w, f, q, awaited)
<1>1. p.next \in Nat /\ q.next \in Nat
  BY DEF End
<1>2. \A b \in 0 .. p.next : b \in 0 .. q.next
  BY <1>1
<1> QED BY <1>2 DEF Acceptable, Complete

\* An acknowledgement is sent.
LEMMA AckSent ==
  ASSUME NEW w \in Seq(Message), NEW e \in End, NEW p \in End, NEW awaited \in BOOLEAN,
         awaited => w # << >>, Acceptable(w, e, p, awaited)
  PROVE  LET v == Append(w, [kind |-> "ack", id |-> p.nextIn])
         IN  /\ Acceptable(v, e, p, awaited)
             /\ Complete(w, e, p, awaited) => Complete(v, e, p, awaited)
<1> DEFINE m == [kind |-> "ack", id |-> p.nextIn]
           v == Append(w, m)
<1>1. m \in Message /\ m.kind = "ack" /\ m.id = p.nextIn /\ p.nextIn \in Nat
  BY DEF Message, End
<1> HIDE DEF m
<1>2. /\ \A i \in DOMAIN v :
           (i \in DOMAIN w /\ v[i] = w[i]) \/ (i = Len(w) + 1 /\ v[i] = m)
      /\ \A i \in DOMAIN w : i \in DOMAIN v /\ v[i] = w[i]
  BY <1>1, Appended
<1>3. w # << >> => v[1] = w[1]
  <2>1. w # << >> => 1 \in DOMAIN w
    OBVIOUS
  <2> QED BY <1>2, <2>1
<1>4. v # << >>
  BY <1>1
<1>5. ASSUME NEW b \in Nat, Carries(w, e.nextIn, b) PROVE Carries(v, e.nextIn, b)
  <2>1. e.nextIn \in Nat
    BY DEF End
  <2> QED BY <1>1, <1>5, <2>1, CarriesMore
<1>6. p.next \in Nat /\ e.nextIn \in Nat
  BY DEF End
<1> HIDE DEF v
<1>7. Acceptable(v, e, p, awaited)
  <2>1. awaited => v[1].kind = "CONTINUE" /\ e.first <= v[1].id
    BY <1>3 DEF Acceptable
  <2>2. \A i \in DOMAIN v :
          /\ v[i].kind = "CONTINUE" => i = 1 /\ awaited
          /\ v[i].kind # "data" => v[i].id <= p.nextIn
    BY <1>1, <1>2 DEF Acceptable
  <2>3. \E b \in 0 .. p.next : Carries(v, e.nextIn, b)
    BY <1>5, <1>6 DEF Acceptable
  <2> QED BY <2>1, <2>2, <2>3 DEF Acceptable
<1>8. Complete(w, e, p, awaited) => Complete(v, e, p, awaited)
  BY <1>3, <1>4, <1>5, <1>6 DEF Complete
<1> QED BY <1>7, <1>8 DEF v, m

\* The next message is written and sent.
LEMMA DataSent ==
  ASSUME NEW w \in Seq(Message), NEW e \in End, NEW p \in End, NEW awaited \in BOOLEAN,
         Acceptable(w, e, p, awaited), Complete(w, e, p, awaited), ~p.expectContinue
  PROVE  LET v == Append(w, [kind |-> "data", id |-> p.next])
             q == [p EXCEPT !.next = @ + 1]
         IN  Acceptable(v, e, q, awaited) /\ Complete(v, e, q, awaited)
<1> DEFINE m == [kind |-> "data", id |-> p.next]
           v == Append(w, m)
           q == [p EXCEPT !.next = @ + 1]
<1>1. m \in Message /\ m.kind = "data" /\ m.id = p.next /\ p.next \in Nat /\ e.nextIn \in Nat
  BY DEF Message, End
<1>2. q \in End /\ q.next = p.next + 1 /\ q.nextIn = p.nextIn /\ ~q.expectContinue
  BY DEF End
<1> HIDE DEF m, q
<1>3. /\ \A i \in DOMAIN v :
           (i \in DOMAIN w /\ v[i] = w[i]) \/ (i = Len(w) + 1 /\ v[i] = m)
      /\ \A i \in DOMAIN w : i \in DOMAIN v /\ v[i] = w[i]
  BY <1>1, Appended
<1>4. w # << >> => v[1] = w[1]
  <2>1. w # << >> => 1 \in DOMAIN w
    OBVIOUS
  <2> QED BY <1>3, <2>1
<1>5. v # << >>
  BY <1>1
<1>6. Carries(v, e.nextIn, p.next + 1)
  <2>1. Carries(w, e.nextIn, p.next)
    BY DEF Complete
  <2> QED BY <1>1, <2>1, CarriesNext
<1> HIDE DEF v
<1>7. awaited => w # << >>
  BY DEF Complete
<1>8. Acceptable(v, e, q, awaited)
  <2>1. awaited => v[1].kind = "CONTINUE" /\ e.first <= v[1].id
    BY <1>4, <1>7 DEF Acceptable
  <2>2. \A i \in DOMAIN v :
          /\ v[i].kind = "CONTINUE" => i = 1 /\ awaited
          /\ v[i].kind # "data" => v[i].id <= q.nextIn
    BY <1>1, <1>2, <1>3 DEF Acceptable
  <2>3. \E b \in 0 .. q.next : Carries(v, e.nextIn, b)
    BY <1>1, <1>2, <1>6
  <2> QED BY <2>1, <2>2, <2>3 DEF Acceptable
<1>9. Complete(v, e, q, awaited)
  BY <1>2, <1>4, <1>5, <1>6 DEF Complete
<1> QED BY <1>8, <1>9 DEF v, m, q

\* CONTINUE is the first message on a connection.
LEMMA ContinueSent ==
  ASSUME NEW e \in End, NEW p \in End, e.first <= p.nextIn, e.nextIn <= p.next
  PROVE  LET w == <<[kind |-> "CONTINUE", id |-> p.nextIn]>>
         IN  /\ w \in Seq(Message)
             /\ Acceptable(w, e, p, TRUE)
             /\ p.expectContinue => Complete(w, e, p, TRUE)
<1> DEFINE m == [kind |-> "CONTINUE", id |-> p.nextIn]
           w == <<m>>
<1>1. m \in Message /\ m.kind = "CONTINUE" /\ m.id = p.nextIn /\ p.nextIn \in Nat
  BY DEF Message, End
<1> HIDE DEF m
<1>2. w \in Seq(Message) /\ DOMAIN w = {1} /\ w[1] = m /\ w # << >>
  BY <1>1
<1>3. e.nextIn \in Nat /\ p.next \in Nat
  BY DEF End
<1> HIDE DEF w
<1>4. Carries(w, e.nextIn, e.nextIn)
  BY <1>1, <1>2, <1>3 DEF Carries
<1>5. Acceptable(w, e, p, TRUE)
  BY <1>1, <1>2, <1>3, <1>4 DEF Acceptable
<1>6. p.expectContinue => Complete(w, e, p, TRUE)
  BY <1>1, <1>2, <1>4 DEF Complete
<1> QED BY <1>2, <1>5, <1>6 DEF w, m

LEMMA NothingSent ==
  ASSUME NEW e \in End, NEW p \in End, NEW awaited \in BOOLEAN, e.nextIn <= p.next
  PROVE  Acceptable(<< >>, e, p, awaited)
<1>1. e.nextIn \in 0 .. p.next /\ e.nextIn \in Nat
  BY DEF End
<1> QED BY <1>1, NothingCarried DEF Acceptable

\* What is taken is one of these, and never a failure.
TakesAck(e, f, o) == ~e.expectContinue /\ f.nextIn = e.nextIn /\ o.replies = << >> /\ o.data = << >>

TakesContinue(e, f, o, id) ==
  /\ e.expectContinue /\ f.nextIn = e.nextIn
  /\ o.replies = GetMessagesFrom(e, id) /\ o.data = << >>

TakesData(e, f, o) ==
  ~e.expectContinue /\ f.nextIn = e.nextIn + 1 /\ o.replies = << >> /\ o.data = <<e.nextIn>>

LEMMA Taken ==
  ASSUME NEW w \in Seq(Message), w # << >>, NEW e \in End, NEW p \in End,
         Acceptable(w, e, p, e.expectContinue),
         e.first <= p.nextIn, p.nextIn <= e.next, e.nextIn <= p.next
  PROVE  LET o == Handle(e, Head(w))
             f == o.end
         IN  /\ o.ok /\ f \in End /\ ~f.expectContinue /\ f.next = e.next
             /\ f.first <= p.nextIn /\ f.nextIn <= p.next
             /\ Acceptable(Tail(w), f, p, FALSE)
             /\ Complete(w, e, p, e.expectContinue) => Complete(Tail(w), f, p, FALSE)
             /\ \/ TakesAck(e, f, o)
                \/ w[1].id <= p.nextIn /\ TakesContinue(e, f, o, w[1].id)
                \/ /\ TakesData(e, f, o)
                   /\ Complete(w, e, p, e.expectContinue) => ~p.expectContinue
<1> DEFINE m == w[1]
           v == Tail(w)
           o == Handle(e, m)
           f == o.end
<1>1. /\ Head(w) = m /\ m \in Message /\ 1 \in DOMAIN w
      /\ v \in Seq(Message)
      /\ \A i \in DOMAIN v : i + 1 \in DOMAIN w /\ v[i] = w[i + 1] /\ i + 1 # 1
  OBVIOUS
<1>2. /\ e.first \in Nat /\ e.next \in Nat /\ e.nextIn \in Nat /\ p.next \in Nat /\ p.nextIn \in Nat
      /\ e.ackDue \in BOOLEAN /\ e.expectContinue \in BOOLEAN
      /\ p.expectContinue \in BOOLEAN
      /\ m.id \in Nat /\ m.kind \in {"data", "ack", "CONTINUE"}
  BY <1>1 DEF End, Message
<1>3. /\ e.expectContinue => m.kind = "CONTINUE" /\ e.first <= m.id
      /\ m.kind = "CONTINUE" => e.expectContinue
      /\ m.kind # "data" => m.id <= p.nextIn
  BY <1>1 DEF Acceptable
<1>4. \A i \in DOMAIN v :
        /\ v[i].kind # "CONTINUE"
        /\ v[i].kind # "data" => v[i].id <= p.nextIn
  BY <1>1 DEF Acceptable
<1>5. PICK b \in 0 .. p.next : Carries(w, e.nextIn, b)
  BY DEF Acceptable
<1> DEFINE c == IF p.expectContinue THEN e.nextIn ELSE p.next
<1>6. Complete(w, e, p, e.expectContinue) => c \in Nat /\ Carries(w, e.nextIn, c)
  BY <1>2 DEF Complete
<1> HIDE DEF m, v
<1>7. CASE m.kind = "ack"
  <2>1. ~e.expectContinue /\ m.id <= e.next
    BY <1>2, <1>3, <1>7
  <2>2. o = [end |-> [e EXCEPT !.first = IF m.id > @ THEN m.id ELSE @],
             replies |-> << >>, data |-> << >>, ok |-> TRUE]
    BY <1>7, <2>1 DEF Handle, Outcome, Discard
  <2>3. /\ f \in End /\ ~f.expectContinue /\ f.next = e.next /\ f.nextIn = e.nextIn
        /\ f.first = e.first \/ f.first = m.id
    BY <1>2, <2>1, <2>2 DEF End
  <2>4. Carries(v, e.nextIn, b)
    BY <1>1, <1>2, <1>5, <1>7, CarriesLess DEF v
  <2>5. Complete(w, e, p, e.expectContinue) => Carries(v, e.nextIn, c)
    BY <1>1, <1>2, <1>6, <1>7, CarriesLess DEF v
  <2>6. o.ok /\ o.replies = << >> /\ o.data = << >>
    BY <2>2
  <2> HIDE DEF o, c, f
  <2>7. Acceptable(v, f, p, FALSE)
    BY <1>4, <1>5, <2>3, <2>4 DEF Acceptable
  <2>8. Complete(w, e, p, e.expectContinue) => Complete(v, f, p, FALSE)
    BY <2>3, <2>5 DEF Complete, c
  <2>9. f.first <= p.nextIn /\ f.nextIn <= p.next
    BY <1>2, <1>3, <1>7, <2>3
  <2> QED BY <1>1, <2>1, <2>3, <2>6, <2>7, <2>8, <2>9 DEF TakesAck, o, v, f
<1>8. CASE m.kind = "CONTINUE"
  <2>1. e.expectContinue /\ m.id \in e.first .. e.next
    BY <1>2, <1>3, <1>8
  <2>2. o = [end |-> [[e EXCEPT !.first = IF m.id > @ THEN m.id ELSE @]
                        EXCEPT !.expectContinue = FALSE],
             replies |-> GetMessagesFrom(e, m.id), data |-> << >>, ok |-> TRUE]
    BY <1>8, <2>1 DEF Handle, HandleContinue, Outcome, Discard
  <2>3. /\ f \in End /\ ~f.expectContinue /\ f.next = e.next /\ f.nextIn = e.nextIn
        /\ f.first = e.first \/ f.first = m.id
    <3> DEFINE g == [e EXCEPT !.first = IF m.id > @ THEN m.id ELSE @]
    <3>1. /\ g \in End /\ g.next = e.next /\ g.nextIn = e.nextIn
          /\ g.first = e.first \/ g.first = m.id
      BY <1>2 DEF End
    <3>2. f = [g EXCEPT !.expectContinue = FALSE]
      BY <2>2
    <3> HIDE DEF g, f
    <3> QED BY <3>1, <3>2 DEF End
  <2>4. Carries(v, e.nextIn, b)
    BY <1>1, <1>2, <1>5, <1>8, CarriesLess DEF v
  <2>5. Complete(w, e, p, e.expectContinue) => Carries(v, e.nextIn, c)
    BY <1>1, <1>2, <1>6, <1>8, CarriesLess DEF v
  <2>6. o.ok /\ o.replies = GetMessagesFrom(e, m.id) /\ o.data = << >>
    BY <2>2
  <2> HIDE DEF o, c, f
  <2>7. Acceptable(v, f, p, FALSE)
    BY <1>4, <1>5, <2>3, <2>4 DEF Acceptable
  <2>8. Complete(w, e, p, e.expectContinue) => Complete(v, f, p, FALSE)
    BY <2>3, <2>5 DEF Complete, c
  <2>9. f.first <= p.nextIn /\ f.nextIn <= p.next /\ m.id <= p.nextIn
    BY <1>2, <1>3, <1>8, <2>3
  <2> QED BY <1>1, <2>1, <2>3, <2>6, <2>7, <2>8, <2>9 DEF TakesContinue, o, v, f, m
<1>9. CASE m.kind = "data"
  <2>1. ~e.expectContinue
    BY <1>3, <1>9
  <2>2. m.id = e.nextIn /\ e.nextIn < b /\ Carries(v, e.nextIn + 1, b)
    BY <1>1, <1>2, <1>5, <1>9, CarriesFirst DEF v
  <2>3. Complete(w, e, p, e.expectContinue) => e.nextIn < c /\ Carries(v, e.nextIn + 1, c)
    BY <1>1, <1>2, <1>6, <1>9, CarriesFirst DEF v
  <2>4. o = [end |-> [e EXCEPT !.nextIn = m.id + 1, !.ackDue = TRUE],
             replies |-> << >>, data |-> <<m.id>>, ok |-> TRUE]
    BY <1>9, <2>1 DEF Handle, HandleData, Outcome
  <2>5. /\ f \in End /\ ~f.expectContinue /\ f.next = e.next /\ f.nextIn = e.nextIn + 1
        /\ f.first = e.first
    <3>1. f = [e EXCEPT !.nextIn = e.nextIn + 1, !.ackDue = TRUE]
      BY <2>2, <2>4
    <3>2. e.nextIn + 1 \in Nat
      BY <1>2
    <3> HIDE DEF f
    <3> QED BY <2>1, <3>1, <3>2 DEF End
  <2>6. o.ok /\ o.replies = << >> /\ o.data = <<e.nextIn>>
    BY <2>2, <2>4
  <2>7. Complete(w, e, p, e.expectContinue) => ~p.expectContinue /\ Carries(v, e.nextIn + 1, p.next)
    BY <1>2, <2>3
  <2> HIDE DEF o, c, f
  <2>8. Acceptable(v, f, p, FALSE)
    BY <1>4, <1>5, <2>2, <2>5 DEF Acceptable
  <2>9. Complete(w, e, p, e.expectContinue) => Complete(v, f, p, FALSE)
    BY <2>5, <2>7 DEF Complete
  <2>10. f.first <= p.nextIn /\ f.nextIn <= p.next
    BY <1>2, <1>5, <2>2, <2>5
  <2> QED BY <1>1, <2>1, <2>5, <2>6, <2>7, <2>8, <2>9, <2>10 DEF TakesData, o, v, f
<1> QED BY <1>2, <1>7, <1>8, <1>9

\* What that means for the messages the other way, v, which e writes and p
\* reads: f is e afterwards.
LEMMA Answered ==
  ASSUME NEW v \in Seq(Message), NEW e \in End, NEW f \in End, NEW p \in End,
         NEW awaited \in BOOLEAN, NEW id \in 0 .. e.next,
         Acceptable(v, p, e, awaited), Complete(v, p, e, awaited),
         e.expectContinue, ~f.expectContinue, f.nextIn = e.nextIn, f.next = e.next,
         p.nextIn = id
  PROVE  LET u == v \o GetMessagesFrom(e, id)
         IN  u \in Seq(Message) /\ Acceptable(u, p, f, awaited) /\ Complete(u, p, f, awaited)
<1> DEFINE u == v \o GetMessagesFrom(e, id)
<1>1. Carries(v, id, id)
  BY DEF Complete
<1>2. /\ u \in Seq(Message) /\ Len(u) >= Len(v)
      /\ \A i \in 1 .. Len(v) : u[i] = v[i]
      /\ \A i \in 1 .. Len(u) : i > Len(v) => u[i].kind = "data"
      /\ Carries(u, id, e.next)
  BY <1>1, CarriesAgain
<1> HIDE DEF u
<1>3. /\ DOMAIN u = 1 .. Len(u) /\ DOMAIN v = 1 .. Len(v) /\ Len(v) \in Nat /\ Len(u) \in Nat
      /\ v # << >> => 1 \in DOMAIN v
  BY <1>2
<1>4. v # << >> => u # << >> /\ u[1] = v[1]
  <2>1. u = << >> => Len(u) = 0
    OBVIOUS
  <2> QED BY <1>2, <1>3, <2>1
<1>5. awaited => v # << >> /\ v[1].id = e.nextIn
  BY DEF Complete
<1>6. \A i \in DOMAIN u : u[i].kind = "data" \/ (i \in DOMAIN v /\ u[i] = v[i])
  BY <1>2, <1>3
<1>7. Acceptable(u, p, f, awaited)
  <2>1. awaited => u[1].kind = "CONTINUE" /\ p.first <= u[1].id
    BY <1>4, <1>5 DEF Acceptable
  <2>2. \A i \in DOMAIN u :
          /\ u[i].kind = "CONTINUE" => i = 1 /\ awaited
          /\ u[i].kind # "data" => u[i].id <= f.nextIn
    BY <1>6 DEF Acceptable
  <2>3. f.next \in 0 .. f.next
    BY DEF End
  <2> QED BY <1>2, <2>1, <2>2, <2>3 DEF Acceptable
<1>8. Complete(u, p, f, awaited)
  BY <1>2, <1>4, <1>5 DEF Complete
<1> QED BY <1>2, <1>7, <1>8 DEF u

LEMMA Advanced ==
  ASSUME NEW v \in Seq(Message), NEW e \in End, NEW f \in End, NEW p \in End, NEW awaited \in BOOLEAN,
         f.nextIn = e.nextIn + 1, f.next = e.next, f.expectContinue = e.expectContinue
  PROVE  /\ Acceptable(v, p, e, awaited) => Acceptable(v, p, f, awaited)
         /\ ~awaited /\ Complete(v, p, e, awaited) => Complete(v, p, f, awaited)
<1>1. e.nextIn \in Nat /\ f.nextIn \in Nat
  BY DEF End
<1>2. \A i \in DOMAIN v : v[i].id \in Nat
  <2>1. \A i \in DOMAIN v : v[i] \in Message
    OBVIOUS
  <2> QED BY <2>1 DEF Message
<1>3. Acceptable(v, p, e, awaited) => Acceptable(v, p, f, awaited)
  <2> SUFFICES ASSUME Acceptable(v, p, e, awaited) PROVE Acceptable(v, p, f, awaited)
    OBVIOUS
  <2>1. \A i \in DOMAIN v :
          /\ v[i].kind = "CONTINUE" => i = 1 /\ awaited
          /\ v[i].kind # "data" => v[i].id <= f.nextIn
    <3>1. \A i \in DOMAIN v : v[i].kind # "data" => v[i].id <= e.nextIn
      BY DEF Acceptable
    <3> QED BY <1>1, <1>2, <3>1 DEF Acceptable
  <2>2. \E b \in 0 .. f.next : Carries(v, p.nextIn, b)
    BY DEF Acceptable
  <2> QED BY <2>1, <2>2 DEF Acceptable
<1>4. ~awaited /\ Complete(v, p, e, awaited) => Complete(v, p, f, awaited)
  BY DEF Complete
<1> QED BY <1>3, <1>4

\* Both together: what becomes of the messages the other way, v.
LEMMA Exchanged ==
  ASSUME NEW w \in Seq(Message), w # << >>, NEW e \in End, NEW p \in End,
         Acceptable(w, e, p, e.expectContinue),
         e.first <= p.nextIn, p.nextIn <= e.next, e.nextIn <= p.next,
         NEW v \in Seq(Message), NEW awaited \in BOOLEAN, Acceptable(v, p, e, awaited)
  PROVE  LET o == Handle(e, Head(w))
             f == o.end
             u == v \o o.replies
         IN  /\ Acceptable(v, p, f, awaited)
             /\ /\ Complete(w, e, p, e.expectContinue)
                /\ Complete(v, p, e, awaited)
                /\ awaited = p.expectContinue
                => Acceptable(u, p, f, awaited) /\ Complete(u, p, f, awaited)
<1> DEFINE o == Handle(e, Head(w))
           f == o.end
           u == v \o o.replies
<1>1. /\ f \in End /\ ~f.expectContinue /\ f.next = e.next
      /\ \/ TakesAck(e, f, o)
         \/ w[1].id <= p.nextIn /\ TakesContinue(e, f, o, w[1].id)
         \/ /\ TakesData(e, f, o)
            /\ Complete(w, e, p, e.expectContinue) => ~p.expectContinue
  BY Taken
<1> HIDE DEF o, f
<1>2. e.next <= f.next /\ p.nextIn \in Nat /\ f.nextIn \in Nat
  BY <1>1 DEF End
<1>3. v \o << >> = v
  OBVIOUS
<1> SUFFICES /\ Acceptable(v, p, f, awaited)
             /\ /\ Complete(w, e, p, e.expectContinue)
                /\ Complete(v, p, e, awaited)
                /\ awaited = p.expectContinue
                => Acceptable(u, p, f, awaited) /\ Complete(u, p, f, awaited)
  BY DEF o, f
<1>4. CASE TakesAck(e, f, o)
  <2>1. f.nextIn = e.nextIn /\ u = v /\ f.expectContinue = e.expectContinue
    BY <1>1, <1>3, <1>4 DEF TakesAck, End
  <2> HIDE DEF u
  <2>2. Acceptable(v, p, f, awaited)
    BY <1>1, <1>2, <2>1, StillAcceptable
  <2>3. Complete(v, p, e, awaited) => Complete(v, p, f, awaited)
    BY <1>1, <1>2, <2>1, StillAcceptable
  <2> QED BY <2>1, <2>2, <2>3
<1>5. CASE w[1].id <= p.nextIn /\ TakesContinue(e, f, o, w[1].id)
  <2>1. f.nextIn = e.nextIn /\ u = v \o GetMessagesFrom(e, w[1].id) /\ e.expectContinue
    BY <1>5 DEF TakesContinue
  <2> HIDE DEF u
  <2>2. Acceptable(v, p, f, awaited)
    BY <1>1, <1>2, <2>1, StillAcceptable
  <2>3. ASSUME Complete(w, e, p, e.expectContinue), Complete(v, p, e, awaited)
        PROVE  Acceptable(u, p, f, awaited) /\ Complete(u, p, f, awaited)
    <3>1. w[1].id = p.nextIn
      BY <2>1, <2>3 DEF Complete
    <3>2. w[1].id \in 0 .. e.next
      BY <1>2, <3>1 DEF End
    <3> QED BY <1>1, <2>1, <2>3, <3>1, <3>2, Answered
  <2> QED BY <2>2, <2>3
<1>6. CASE /\ TakesData(e, f, o)
           /\ Complete(w, e, p, e.expectContinue) => ~p.expectContinue
  <2>1. f.nextIn = e.nextIn + 1 /\ u = v /\ f.expectContinue = e.expectContinue
    BY <1>1, <1>3, <1>6 DEF TakesData, End
  <2> HIDE DEF u
  <2>2. Acceptable(v, p, f, awaited)
    BY <1>1, <2>1, Advanced
  <2>3. ~awaited /\ Complete(v, p, e, awaited) => Complete(v, p, f, awaited)
    BY <1>1, <2>1, Advanced
  <2> QED BY <1>6, <2>1, <2>2, <2>3
<1> QED BY <1>1, <1>4, <1>5, <1>6

-----------------------------------------------------------------------------
(* The types                                                               *)

LEMMA IdsBelow ==
  /\ Ids \subseteq Nat
  /\ \A side \in Sides : \A n \in Nat : n <= MaxMessages[side] => n \in Ids
BY RobustAssumption DEF Ids, Sides

LEMMA Typed ==
  ASSUME TypeOK
  PROVE  /\ end["client"] \in End /\ end["server"] \in End
         /\ \A c \in Conns, side \in Sides :
              wire[c][side] \in Seq(Messages) /\ wire[c][side] \in Seq(Message)
         /\ None \notin Conns
<1>1. \A side \in Sides : end[side] \in End
  BY IdsBelow DEF TypeOK, End
<1>2. \A s \in Seq(Messages) : s \in Seq(Message)
  <2>1. Messages \subseteq Message
    BY IdsBelow DEF Messages, Message
  <2> QED BY <2>1
<1>3. \A c \in Conns, side \in Sides : wire[c][side] \in Seq(Messages)
  BY DEF TypeOK
<1> QED BY <1>1, <1>2, <1>3 DEF Sides, Conns, None

LEMMA SentAgainTyped ==
  ASSUME NEW side \in Sides, NEW e \in End, e.next <= MaxMessages[side], NEW id \in 0 .. e.next
  PROVE  GetMessagesFrom(e, id) \in Seq(Messages)
<1> DEFINE m(i) == [kind |-> "data", id |-> id + i - 1]
<1>1. e.next \in Nat /\ e.next - id \in Nat /\ MaxMessages[side] \in Nat
  BY RobustAssumption DEF End
<1>2. \A i \in 1 .. e.next - id : m(i) \in Messages
  <2> SUFFICES ASSUME NEW i \in 1 .. e.next - id PROVE id + i - 1 \in Ids
    BY DEF Messages
  <2>1. id + i - 1 \in Nat /\ id + i - 1 <= MaxMessages[side]
    BY <1>1
  <2> QED BY <2>1, IdsBelow
<1>3. GetMessagesFrom(e, id) = [i \in 1 .. e.next - id |-> m(i)]
  BY DEF GetMessagesFrom
<1> HIDE DEF m
<1> QED BY <1>1, <1>2, <1>3, IsASeq

\* A new value of one end, and of one connection's messages.
LEMMA EndTyped ==
  ASSUME TypeOK, NEW side \in Sides, NEW e \in End,
         e.first \in Ids, e.next \in Ids, e.nextIn \in Ids
  PROVE  LET f == [end EXCEPT ![side] = e]
         IN  /\ f \in [Sides -> [first : Ids, next : Ids, nextIn : Ids,
                                 ackDue : BOOLEAN, expectContinue : BOOLEAN]]
             /\ f[side] = e
             /\ \A s \in Sides : s # side => f[s] = end[s]
BY DEF TypeOK, End

LEMMA WireTyped ==
  ASSUME TypeOK, NEW c \in Conns, NEW side \in Sides, NEW w \in Seq(Messages)
  PROVE  LET f == [wire EXCEPT ![c][side] = w]
         IN  /\ f \in [Conns -> [Sides -> Seq(Messages)]]
             /\ f[c][side] = w
             /\ \A b \in Conns, s \in Sides : b # c \/ s # side => f[b][s] = wire[b][s]
BY DEF TypeOK

-----------------------------------------------------------------------------
(* The inductive invariant                                                 *)

LEMMA InitInv == Init => Inv
<1> SUFFICES ASSUME Init PROVE Inv
  OBVIOUS
<1>1. TypeOK
  <2>1. 0 \in Ids
    BY IdsBelow, RobustAssumption DEF Sides
  <2>2. NewEnd \in [first : Ids, next : Ids, nextIn : Ids,
                    ackDue : BOOLEAN, expectContinue : BOOLEAN]
    BY <2>1 DEF NewEnd
  <2>3. << >> \in Seq(Ids) /\ << >> \in Seq(Messages)
    OBVIOUS
  <2> QED BY <2>2, <2>3 DEF Init, TypeOK
<1>2. NothingDiscardedEarly
  BY DEF Init, NothingDiscardedEarly, NewEnd, Sides, Peer
<1>3. NoProtocolErrors
  BY DEF Init, NoProtocolErrors
<1>4. RefusedOnlyIfEnded
  BY DEF Init, RefusedOnlyIfEnded
<1>5. Counted
  BY RobustAssumption DEF Init, Counted, NewEnd, Sides
<1>6. Registry
  BY DEF Init, Registry, Sides
<1>7. Client
  BY DEF Init, Client, NewEnd, Sides
<1>8. Underway
  BY DEF Init, Underway
<1> QED BY <1>1, <1>2, <1>3, <1>4, <1>5, <1>6, <1>7, <1>8 DEF Inv

\* What a connection that has just reached the server finds.
LEMMA Arriving ==
  ASSUME Inv, NEW c \in Conns, url[c] # "none", ready[c] = "none"
  PROVE  /\ c # current
         /\ \A side \in Sides : wire[c][side] = << >>
         /\ url[c] = "o" => opened
         /\ opened => session # "none"
         /\ clientConn = c => clientState = "connecting" /\ (url[c] = "o" <=> opened)
         /\ session # "none" => current \in Conns /\ ready[current] \in {"open", "closed"}
         /\ c # None
<1>1. /\ url[c] = "o" => opened
      /\ opened => session # "none"
  BY DEF Inv, Client
<1>2. clientConn = c => clientState = "connecting"
  BY Typed DEF Inv, Client, TypeOK, NoProtocolErrors
<1>3. session # "none" => current \in Conns /\ ready[current] \in {"open", "closed"}
  BY DEF Inv, Registry
<1>4. session = "none" => current = None
  BY DEF Inv, Registry
<1>5. c # None
  BY Typed DEF Inv
<1>6. \A side \in Sides : wire[c][side] = << >>
  BY DEF Inv, Registry
<1>7. clientConn = c => (url[c] = "o" <=> opened)
  BY <1>2 DEF Inv, Client
<1> QED BY <1>1, <1>2, <1>3, <1>4, <1>5, <1>6, <1>7

LEMMA RefuseInv ==
  ASSUME Inv, NEW c \in Conns, url[c] # "none", ready[c] = "none", Refuse(c)
  PROVE  Inv'
<1>1. /\ \/ url[c] = "n" /\ session = "live" /\ ~nascent
         \/ url[c] = "o" /\ session # "live"
      /\ ready' = [ready EXCEPT ![c] = "refused"]
      /\ UNCHANGED <<session, nascent, current, withheld, end, received, url, wire,
                     clientState, clientConn, opened>>
  BY DEF Refuse, sessionVars, clientVars
<1>2. /\ c # current
      /\ url[c] = "o" => opened
      /\ opened => session # "none"
      /\ clientConn = c => clientState = "connecting" /\ (url[c] = "o" <=> opened)
      /\ session # "none" => current \in Conns
      /\ c # None
  BY Arriving
<1>3. session # "none" /\ (clientConn = c => session = "ended" /\ opened)
  BY <1>1, <1>2 DEF Inv, TypeOK, Client
<1>4. /\ ready'[c] = "refused"
      /\ \A b \in Conns : b # c => ready'[b] = ready[b]
      /\ ready'[current] = ready[current]
  BY <1>1, <1>2, <1>3 DEF Inv, TypeOK
<1>5. clientConn # c /\ clientConn # None => ready'[clientConn] = ready[clientConn]
  BY <1>4 DEF Inv, TypeOK
<1>6. TypeOK'
  BY <1>1 DEF Inv, TypeOK
<1>7. NothingDiscardedEarly'
  BY <1>1 DEF Inv, NothingDiscardedEarly
<1>8. NoProtocolErrors'
  BY <1>1, <1>4 DEF Inv, NoProtocolErrors
<1>9. RefusedOnlyIfEnded'
  BY <1>1, <1>3, <1>5 DEF Inv, RefusedOnlyIfEnded
<1>10. Counted'
  BY <1>1 DEF Inv, Counted
<1>11. Registry'
  BY <1>1, <1>2, <1>3, <1>4, <1>5 DEF Inv, Registry
<1>12. Client'
  BY <1>1, <1>2, <1>3, <1>4, <1>5 DEF Inv, Client
<1>13. Underway'
  <2>1. clientConn = c => ready'[clientConn] = "refused" /\ clientState = "connecting"
    BY <1>2, <1>4
  <2>2. clientState \in {"connecting", "open"} => clientConn # None
    BY DEF Inv, Client
  <2> QED BY <1>1, <1>3, <1>4, <1>5, <2>1, <2>2 DEF Inv, Underway
<1> QED BY <1>6, <1>7, <1>8, <1>9, <1>10, <1>11, <1>12, <1>13 DEF Inv

LEMMA ServerDisconnectsInv ==
  ASSUME Inv, NEW c \in Conns, ServerDisconnects(c)
  PROVE  Inv'
<1>1. /\ ready[c] \in {"open", "closing"}
      /\ ready' = [ready EXCEPT ![c] = "closed"]
      /\ withheld' = (withheld \/ c = current)
      /\ UNCHANGED <<session, nascent, current, end, received, url, wire,
                     clientState, clientConn, opened>>
  BY DEF ServerDisconnects, clientVars
<1>2. ready[c] = "open" /\ c = current /\ session = "live"
  BY <1>1 DEF Inv, NoProtocolErrors, Registry, TypeOK
<1>3. /\ ready'[c] = "closed" /\ withheld'
      /\ \A b \in Conns : b # c => ready'[b] = ready[b]
  BY <1>1, <1>2 DEF Inv, TypeOK
<1>4. /\ TypeOK'
      /\ NothingDiscardedEarly' /\ NoProtocolErrors' /\ Counted'
  <2>1. TypeOK'
    BY <1>1 DEF Inv, TypeOK
  <2>2. NothingDiscardedEarly' /\ Counted'
    BY <1>1 DEF Inv, NothingDiscardedEarly, Counted
  <2>3. NoProtocolErrors'
    BY <1>1, <1>3 DEF Inv, NoProtocolErrors
  <2> QED BY <2>1, <2>2, <2>3
<1>5. clientConn # None => ready'[clientConn] = ready[clientConn] \/ clientConn = c
  BY <1>3 DEF Inv, TypeOK
<1>6. RefusedOnlyIfEnded'
  BY <1>1, <1>3, <1>5 DEF Inv, RefusedOnlyIfEnded
<1>7. Registry'
  BY <1>1, <1>2, <1>3 DEF Inv, Registry
<1>8. Client'
  BY <1>1, <1>2, <1>3, <1>5 DEF Inv, Client
<1>9. Underway'
  <2>1. clientState \in {"connecting", "open"} => clientConn # None
    BY DEF Inv, Client
  <2>2. clientState \in {"connecting", "open"} => ready'[clientConn] # "open"
    BY <1>2, <1>3, <1>5, <2>1 DEF Inv, Registry, TypeOK
  <2> QED BY <1>1, <1>2, <1>3, <1>5, <2>1, <2>2 DEF Inv, Underway
<1> QED BY <1>4, <1>6, <1>7, <1>8, <1>9 DEF Inv

LEMMA WithheldTimerFiresInv ==
  ASSUME Inv, WithheldTimerFires
  PROVE  Inv'
<1>1. /\ withheld /\ withheld' = FALSE /\ session' = "ended"
      /\ ready' = [c \in Conns |->
                     IF url[c] = "n" /\ ready[c] = "none" /\ c # clientConn
                     THEN "closed" ELSE ready[c]]
      /\ UNCHANGED <<nascent, current, end, received, url, wire,
                     clientState, clientConn, opened>>
  BY DEF WithheldTimerFires, clientVars
<1>2. /\ session = "live" /\ current \in Conns /\ ready[current] = "closed"
      /\ \A c \in Conns : ready[c] # "open"
  BY <1>1 DEF Inv, Registry
<1>3. \A c \in Conns :
        /\ ready'[c] = ready[c] \/ (url[c] = "n" /\ ready[c] = "none" /\ ready'[c] = "closed")
        /\ c = clientConn \/ c = current => ready'[c] = ready[c]
        /\ url[c] = "n" /\ ready'[c] = "none" => c = clientConn
  BY <1>1, <1>2
<1>4. TypeOK'
  <2>1. ready' \in [Conns -> {"none", "open", "closing", "closed", "refused"}]
    BY <1>1 DEF Inv, TypeOK
  <2> QED BY <1>1, <2>1 DEF Inv, TypeOK
<1>5. /\ NothingDiscardedEarly' /\ NoProtocolErrors' /\ Counted'
  BY <1>1, <1>3 DEF Inv, NothingDiscardedEarly, NoProtocolErrors, Counted
<1>6. RefusedOnlyIfEnded'
  BY <1>1 DEF RefusedOnlyIfEnded
<1>7. clientConn # None => clientConn \in Conns /\ ready'[clientConn] = ready[clientConn]
  BY <1>3 DEF Inv, TypeOK
<1>8. Registry'
  <2>1. ASSUME opened, clientConn # None, url[clientConn] = "n" PROVE ready[clientConn] # "none"
    BY <2>1, Arriving, <1>7
  <2>2. opened \/ (clientConn # None /\ ready[clientConn] # "none")
        => \A c \in Conns : url[c] = "n" => ready'[c] # "none"
    BY <1>3, <1>7, <2>1, Typed DEF Inv
  <2>3. \A c \in Conns : ready'[c] = "none" => ready[c] = "none"
    BY <1>3
  <2>4. \A c \in Conns : url[c] = "none" => ready'[c] = ready[c]
    BY <1>3
  <2> QED BY <1>1, <1>2, <1>3, <1>7, <2>2, <2>3, <2>4 DEF Inv, Registry
<1>9. Client'
  BY <1>1, <1>2, <1>7 DEF Inv, Client
<1>10. Underway'
  <2>1. clientState \in {"connecting", "open"} => clientConn # None
    BY DEF Inv, Client
  <2>2. ready'[current] = "closed"
    BY <1>2, <1>3
  <2> QED BY <1>1, <1>2, <1>7, <2>1, <2>2 DEF Inv, Underway
<1> QED BY <1>4, <1>5, <1>6, <1>8, <1>9, <1>10 DEF Inv

LEMMA ClientConnectsInv ==
  ASSUME Inv, NEW c \in Conns, ClientConnects(c)
  PROVE  Inv'
<1>1. /\ clientState = "disconnected" /\ url[c] = "none"
      /\ url' = [url EXCEPT ![c] = IF opened THEN "o" ELSE "n"]
      /\ clientConn' = c /\ clientState' = "connecting"
      /\ UNCHANGED <<session, nascent, current, withheld, end, received, ready, wire, opened>>
  BY DEF ClientConnects, sessionVars
<1>2. /\ ready[c] = "none" /\ clientConn = None /\ c # None
      /\ \A b \in Conns : url[b] = "o" => opened
  BY <1>1, Typed DEF Inv, Registry, Client
<1>3. /\ url'[c] = "o" <=> opened
      /\ url'[c] = "n" <=> ~opened
      /\ \A b \in Conns : b # c => url'[b] = url[b]
      /\ url'[c] # "none"
  BY <1>1 DEF Inv, TypeOK
<1>4. TypeOK'
  BY <1>1 DEF Inv, TypeOK
<1>5. NothingDiscardedEarly' /\ Counted'
  BY <1>1 DEF Inv, NothingDiscardedEarly, Counted
<1>6. NoProtocolErrors'
  BY <1>1 DEF Inv, NoProtocolErrors
<1>7. RefusedOnlyIfEnded'
  BY <1>1, <1>2 DEF RefusedOnlyIfEnded
<1>8. Registry'
  BY <1>1, <1>2, <1>3 DEF Inv, Registry
<1>9. Client'
  BY <1>1, <1>2, <1>3 DEF Inv, Client
<1>10. Underway'
  BY <1>1, <1>2 DEF Inv, Underway
<1> QED BY <1>4, <1>5, <1>6, <1>7, <1>8, <1>9, <1>10 DEF Inv

LEMMA ClientDisconnectsInv ==
  ASSUME Inv, ClientDisconnects
  PROVE  Inv'
<1>1. /\ clientState' = "disconnected" /\ clientConn' = None
      /\ UNCHANGED <<session, nascent, current, withheld, end, received, url, ready, wire, opened>>
  BY DEF ClientDisconnects, sessionVars, linkVars
<1>2. TypeOK'
  BY <1>1 DEF Inv, TypeOK
<1>3. NothingDiscardedEarly' /\ Counted'
  BY <1>1 DEF Inv, NothingDiscardedEarly, Counted
<1>4. NoProtocolErrors' /\ RefusedOnlyIfEnded'
  BY <1>1 DEF Inv, NoProtocolErrors, RefusedOnlyIfEnded
<1>5. Registry'
  BY <1>1 DEF Inv, Registry
<1>6. Client'
  BY <1>1 DEF Inv, Client
<1>7. Underway'
  BY <1>1 DEF Inv, Underway
<1> QED BY <1>2, <1>3, <1>4, <1>5, <1>6, <1>7 DEF Inv

LEMMA ClientRefusedInv ==
  ASSUME Inv, ClientRefused
  PROVE  Inv'
<1>1. /\ ready[clientConn] = "refused" /\ clientState = "connecting" /\ clientState' = "refused"
      /\ UNCHANGED <<session, nascent, current, withheld, end, received, url, ready, wire,
                     clientConn, opened>>
  BY DEF ClientRefused, sessionVars, linkVars
<1>2. TypeOK'
  BY <1>1 DEF Inv, TypeOK
<1>3. NothingDiscardedEarly' /\ Counted'
  BY <1>1 DEF Inv, NothingDiscardedEarly, Counted
<1>4. NoProtocolErrors' /\ RefusedOnlyIfEnded'
  BY <1>1 DEF Inv, NoProtocolErrors, RefusedOnlyIfEnded
<1>5. Registry'
  BY <1>1 DEF Inv, Registry
<1>6. Client'
  BY <1>1 DEF Inv, Client
<1>7. Underway'
  BY <1>1 DEF Inv, Underway
<1> QED BY <1>2, <1>3, <1>4, <1>5, <1>6, <1>7 DEF Inv

LEMMA ResumeInv ==
  ASSUME Inv, NEW c \in Conns, url[c] # "none", ready[c] = "none", Resume(c)
  PROVE  Inv'
<1> DEFINE client == end["client"]
           server == end["server"]
           resumed == [server EXCEPT !.expectContinue = TRUE]
           w == <<[kind |-> "CONTINUE", id |-> server.nextIn]>>
<1>1. /\ session = "live" /\ url[c] = "o"
      /\ current' = c /\ withheld' = FALSE
      /\ ready' = [b \in Conns |-> IF b = c THEN "open"
                                   ELSE IF b = current THEN "closed" ELSE ready[b]]
      /\ wire' = [wire EXCEPT ![c]["client"] = w]
      /\ end' = [end EXCEPT !["server"] = resumed]
      /\ UNCHANGED <<session, nascent, received, url, clientState, clientConn, opened>>
  BY DEF Resume, Replace, clientVars
<1>2. /\ c # current /\ c # None
      /\ \A side \in Sides : wire[c][side] = << >>
      /\ opened
      /\ clientConn = c => clientState = "connecting"
      /\ current \in Conns /\ ready[current] \in {"open", "closed"}
  BY <1>1, Arriving
<1>3. /\ TypeOK /\ client \in End /\ server \in End
      /\ "client" \in Sides /\ "server" \in Sides
      /\ client.first <= server.nextIn /\ server.nextIn <= client.next
      /\ server.first <= client.nextIn /\ client.nextIn <= server.next
  BY Typed DEF Inv, NothingDiscardedEarly, Sides, Peer
<1>4. /\ resumed \in End /\ resumed.expectContinue
      /\ resumed.first = server.first /\ resumed.next = server.next
      /\ resumed.nextIn = server.nextIn
      /\ server.first \in Ids /\ server.next \in Ids /\ server.nextIn \in Ids
  BY <1>3 DEF End, TypeOK
<1>5. w \in Seq(Messages)
  BY <1>4 DEF Messages
<1> HIDE DEF w, resumed
<1>6. /\ end' \in [Sides -> [first : Ids, next : Ids, nextIn : Ids,
                             ackDue : BOOLEAN, expectContinue : BOOLEAN]]
      /\ end'["server"] = resumed /\ end'["client"] = client
  BY <1>1, <1>3, <1>4, EndTyped
<1>7. /\ wire' \in [Conns -> [Sides -> Seq(Messages)]]
      /\ wire'[c]["client"] = w
      /\ \A b \in Conns, s \in Sides : b # c \/ s # "client" => wire'[b][s] = wire[b][s]
  BY <1>1, <1>3, <1>5, WireTyped
<1>8. /\ ready' \in [Conns -> {"none", "open", "closing", "closed", "refused"}]
      /\ ready'[c] = "open"
      /\ \A b \in Conns : b # c =>
           \/ b = current /\ ready'[b] = "closed"
           \/ b # current /\ ready'[b] = ready[b]
  BY <1>1 DEF Inv, TypeOK
<1>9. TypeOK'
  BY <1>1, <1>3, <1>6, <1>7, <1>8 DEF TypeOK
<1>10. NothingDiscardedEarly'
  BY <1>3, <1>4, <1>6 DEF NothingDiscardedEarly, Sides, Peer
<1>11. NoProtocolErrors'
  BY <1>1, <1>8 DEF Inv, NoProtocolErrors
<1>12. clientConn # None => clientConn \in Conns
  BY <1>3 DEF TypeOK
<1>13. RefusedOnlyIfEnded'
  BY <1>1, <1>2, <1>8, <1>12 DEF Inv, RefusedOnlyIfEnded
<1>14. Counted'
  BY <1>1, <1>4, <1>6 DEF Inv, Counted, Sides
<1>15. Registry'
  BY <1>1, <1>2, <1>7, <1>8 DEF Inv, Registry
<1>16. Client'
  BY <1>1, <1>2, <1>3, <1>6, <1>7, <1>8, <1>12 DEF Inv, Client, Sides
<1>17. Underway'
  <2>1. /\ Acceptable(w, client, resumed, TRUE) /\ Complete(w, client, resumed, TRUE)
    BY <1>3, <1>4, ContinueSent DEF w
  <2>2. Acceptable(<< >>, resumed, client, TRUE)
    BY <1>3, <1>4, NothingSent
  <2>3. ASSUME NEW b \in Conns, NEW awaited \in BOOLEAN,
               Acceptable(wire[b]["client"], client, server, awaited)
        PROVE  Acceptable(wire[b]["client"], client, resumed, awaited)
    BY <1>3, <1>4, <2>3, StillAcceptable DEF End
  <2>4. clientState \in {"connecting", "open"} => clientConn # None
    BY DEF Inv, Client
  <2>5. /\ wire'[current']["server"] = << >> /\ ready'[current'] = "open"
        /\ end'["server"].expectContinue = TRUE /\ opened = TRUE
    BY <1>1, <1>2, <1>3, <1>4, <1>6, <1>7, <1>8 DEF TypeOK, End
  <2>6. clientConn # None /\ clientConn # c =>
          /\ wire'[clientConn]["client"] = wire[clientConn]["client"]
          /\ ready'[clientConn] \in {"open", "closed"} => ready[clientConn] \in {"open", "closed"}
          /\ ready'[clientConn] # "open"
    BY <1>2, <1>3, <1>7, <1>8, <1>12 DEF Inv, Registry
  <2>7. client.expectContinue \in BOOLEAN
    BY <1>3 DEF End
  <2>8. clientState = "connecting" /\ clientConn # c /\ ready'[clientConn] \in {"open", "closed"}
          => Acceptable(wire'[clientConn]["client"], client, resumed, opened)
    BY <1>12, <2>3, <2>4, <2>5, <2>6 DEF Inv, Underway
  <2>9. clientState = "open"
          => Acceptable(wire'[clientConn]["client"], client, resumed, client.expectContinue)
    BY <1>2, <1>12, <2>3, <2>4, <2>6, <2>7 DEF Inv, Underway
  <2>10. current' = c /\ clientConn' = clientConn /\ clientState' = clientState /\ opened' = opened
    BY <1>1
  <2>11. Acceptable(wire'[current']["server"], end'["server"], end'["client"],
                    end'["server"].expectContinue)
    BY <1>6, <2>2, <2>5
  <2>12. clientState' = "connecting" /\ ready'[clientConn'] \in {"open", "closed"}
           => Acceptable(wire'[clientConn']["client"], end'["client"], end'["server"], opened')
    BY <1>6, <1>7, <2>1, <2>5, <2>8, <2>10
  <2>13. clientState' = "open"
           => Acceptable(wire'[clientConn']["client"], end'["client"], end'["server"],
                         end'["client"].expectContinue)
    BY <1>6, <2>9, <2>10
  <2>14. clientState' \in {"connecting", "open"} /\ ready'[clientConn'] = "open" =>
           /\ clientState' = "connecting"
           /\ Complete(wire'[clientConn']["client"], end'["client"], end'["server"], opened')
    BY <1>2, <1>6, <1>7, <2>1, <2>4, <2>5, <2>6, <2>10
  <2> QED BY <2>5, <2>11, <2>12, <2>13, <2>14 DEF Underway
<1> QED BY <1>9, <1>10, <1>11, <1>13, <1>14, <1>15, <1>16, <1>17 DEF Inv

LEMMA ResumeNascentInv ==
  ASSUME Inv, NEW c \in Conns, url[c] # "none", ready[c] = "none", ResumeNascent(c)
  PROVE  Inv'
<1> DEFINE client == end["client"]
           server == end["server"]
           w == GetMessagesFrom(server, 0)
<1>1. /\ session = "live" /\ url[c] = "n" /\ nascent
      /\ current' = c /\ withheld' = FALSE
      /\ ready' = [b \in Conns |-> IF b = c THEN "open"
                                   ELSE IF b = current THEN "closed" ELSE ready[b]]
      /\ wire' = [wire EXCEPT ![c]["client"] = w]
      /\ UNCHANGED <<session, nascent, end, received, url, clientState, clientConn, opened>>
  BY DEF ResumeNascent, Replace, clientVars
<1>2. /\ c # current /\ c # None
      /\ \A side \in Sides : wire[c][side] = << >>
      /\ clientConn = c => clientState = "connecting" /\ ~opened
      /\ current \in Conns /\ ready[current] \in {"open", "closed"}
  BY <1>1, Arriving
<1>3. /\ TypeOK /\ client \in End /\ server \in End
      /\ "client" \in Sides /\ "server" \in Sides
      /\ client.nextIn <= server.next /\ server.nextIn <= client.next
      /\ server.next \in Ids /\ server.next <= MaxMessages["server"]
  BY Typed DEF Inv, TypeOK, NothingDiscardedEarly, Counted, Sides, Peer
<1>4. w \in Seq(Messages)
  <2>1. 0 \in 0 .. server.next
    BY <1>3 DEF End
  <2> QED BY <1>3, <2>1, SentAgainTyped
<1>5. clientConn = c => /\ client = NewEnd /\ server.nextIn = 0 /\ ~server.expectContinue
                        /\ Carries(w, client.nextIn, server.next)
  <2> SUFFICES ASSUME clientConn = c
               PROVE  /\ client = NewEnd /\ server.nextIn = 0 /\ ~server.expectContinue
                      /\ Carries(w, client.nextIn, server.next)
    OBVIOUS
  <2>1. client = NewEnd /\ server.nextIn = 0 /\ ~server.expectContinue
    BY <1>1, <1>2, <1>3 DEF Inv, Client
  <2>2. 0 \in 0 .. server.next
    BY <1>3 DEF End
  <2>3. Carries(<< >> \o w, 0, server.next)
    <3>1. << >> \in Seq(Message) /\ Carries(<< >>, 0, 0)
      BY NothingCarried
    <3> QED BY <1>3, <2>2, <3>1, CarriesAgain
  <2>4. << >> \o w = w
    BY <1>4
  <2> QED BY <2>1, <2>3, <2>4 DEF NewEnd
<1> HIDE DEF w
<1>6. /\ wire' \in [Conns -> [Sides -> Seq(Messages)]]
      /\ wire'[c]["client"] = w
      /\ \A b \in Conns, s \in Sides : b # c \/ s # "client" => wire'[b][s] = wire[b][s]
  BY <1>1, <1>3, <1>4, WireTyped
<1>7. /\ ready' \in [Conns -> {"none", "open", "closing", "closed", "refused"}]
      /\ ready'[c] = "open"
      /\ \A b \in Conns : b # c =>
           \/ b = current /\ ready'[b] = "closed"
           \/ b # current /\ ready'[b] = ready[b]
  BY <1>1 DEF Inv, TypeOK
<1>8. TypeOK'
  BY <1>1, <1>3, <1>6, <1>7 DEF TypeOK
<1>9. NothingDiscardedEarly' /\ Counted'
  BY <1>1 DEF Inv, NothingDiscardedEarly, Counted
<1>10. NoProtocolErrors'
  BY <1>1, <1>7 DEF Inv, NoProtocolErrors
<1>11. clientConn # None => clientConn \in Conns
  BY <1>3 DEF TypeOK
<1>12. RefusedOnlyIfEnded'
  BY <1>1, <1>2, <1>7, <1>11 DEF Inv, RefusedOnlyIfEnded
<1>13. Registry'
  BY <1>1, <1>2, <1>6, <1>7 DEF Inv, Registry
<1>14. Client'
  BY <1>1, <1>2, <1>3, <1>6, <1>7, <1>11 DEF Inv, Client, Sides
<1>15. Underway'
  <2>1. Acceptable(<< >>, server, client, server.expectContinue)
    BY <1>3, NothingSent DEF End
  <2>2. clientConn = c => Acceptable(w, client, server, FALSE) /\ Complete(w, client, server, FALSE)
    <3> SUFFICES ASSUME clientConn = c
                 PROVE  Acceptable(w, client, server, FALSE) /\ Complete(w, client, server, FALSE)
      OBVIOUS
    <3>1. \A i \in DOMAIN w : w[i].kind = "data"
      <4>1. 0 \in 0 .. server.next /\ server.next \in Nat
        BY <1>3 DEF End
      <4>2. \A i \in 1 .. Len(w) : w[i] = [kind |-> "data", id |-> 0 + i - 1]
        BY <1>3, <4>1, SentAgain DEF w
      <4>3. DOMAIN w = 1 .. Len(w)
        BY <1>4
      <4> QED BY <4>2, <4>3
    <3>2. server.next \in 0 .. server.next
      BY <1>3 DEF End
    <3> QED BY <1>5, <3>1, <3>2 DEF Acceptable, Complete
  <2>3. clientState \in {"connecting", "open"} => clientConn # None
    BY DEF Inv, Client
  <2>4. wire'[current']["server"] = << >> /\ ready'[current'] = "open" /\ (clientConn = c => opened = FALSE)
    BY <1>1, <1>2, <1>3, <1>6, <1>7 DEF TypeOK
  <2>5. clientConn # None /\ clientConn # c =>
          /\ wire'[clientConn]["client"] = wire[clientConn]["client"]
          /\ ready'[clientConn] \in {"open", "closed"} => ready[clientConn] \in {"open", "closed"}
          /\ ready'[clientConn] # "open"
    BY <1>2, <1>3, <1>6, <1>7, <1>11 DEF Inv, Registry
  <2>6. clientState = "connecting" /\ ready'[clientConn] \in {"open", "closed"}
          => Acceptable(wire'[clientConn]["client"], client, server, opened)
    BY <1>6, <2>2, <2>3, <2>4, <2>5 DEF Inv, Underway
  <2>7. clientState = "open"
          => Acceptable(wire'[clientConn]["client"], client, server, client.expectContinue)
    BY <1>2, <2>3, <2>5 DEF Inv, Underway
  <2>8. clientState \in {"connecting", "open"} /\ ready'[clientConn] = "open" =>
           /\ clientState = "connecting" /\ ~opened
           /\ Complete(wire'[clientConn]["client"], client, server, opened)
    BY <1>2, <1>6, <2>2, <2>3, <2>4, <2>5
  <2> QED BY <1>1, <2>1, <2>4, <2>6, <2>7, <2>8 DEF Underway
<1> QED BY <1>8, <1>9, <1>10, <1>12, <1>13, <1>14, <1>15 DEF Inv

\* A session begins when the client has seen nothing of one yet.
LEMMA Unseen ==
  ASSUME Inv, NEW c \in Conns, url[c] # "none", ready[c] = "none", Create(c)
  PROVE  /\ ~opened /\ (clientConn # None => ready[clientConn] = "none")
         /\ end["client"] = NewEnd /\ end["server"].nextIn = 0
         /\ \A b \in Conns : wire[b]["server"] = << >>
<1>1. session # "live" /\ url[c] = "n"
  BY DEF Create
<1>2. opened => session # "none"
  BY Arriving
<1>3. ~opened /\ (clientConn # None => ready[clientConn] = "none")
  <2>1. session \in {"none", "ended"} /\ (clientConn # None => clientConn \in Conns)
    BY <1>1 DEF Inv, TypeOK
  <2>2. session = "none" => \A b \in Conns : ready[b] = "none"
    BY DEF Inv, Registry
  <2>3. /\ session = "ended"
        /\ opened \/ (clientConn # None /\ ready[clientConn] # "none")
        => \A b \in Conns : url[b] = "n" => ready[b] # "none"
    BY DEF Inv, Registry
  <2> QED BY <1>1, <1>2, <2>1, <2>2, <2>3
<1> QED BY <1>3 DEF Inv, Client

LEMMA CreateInv ==
  ASSUME Inv, NEW c \in Conns, url[c] # "none", ready[c] = "none", Create(c)
  PROVE  Inv'
<1> DEFINE client == end["client"]
           server == end["server"]
<1>1. /\ session # "live" /\ url[c] = "n"
      /\ session' = "live" /\ nascent' = TRUE
      /\ current' = c /\ withheld' = FALSE
      /\ ready' = [b \in Conns |-> IF b = c THEN "open"
                                   ELSE IF b = current THEN "closed" ELSE ready[b]]
      /\ end' = [end EXCEPT !["server"] = NewEnd]
      /\ UNCHANGED <<received, url, wire, clientState, clientConn, opened>>
  BY DEF Create, Replace, clientVars
<1>2. /\ c # current /\ c # None
      /\ \A side \in Sides : wire[c][side] = << >>
      /\ opened => session # "none"
      /\ clientConn = c => clientState = "connecting"
      /\ session # "none" => current \in Conns /\ ready[current] \in {"open", "closed"}
  BY <1>1, Arriving
<1>3. /\ TypeOK /\ client \in End /\ server \in End
      /\ "client" \in Sides /\ "server" \in Sides
  BY Typed DEF Inv, Sides
<1>4. clientConn # None => clientConn \in Conns
  BY <1>3 DEF TypeOK
<1>5. ~opened /\ (clientConn # None => ready[clientConn] = "none")
  BY Unseen
<1>6. /\ client = NewEnd /\ server.nextIn = 0
      /\ \A b \in Conns : wire[b]["server"] = << >>
  BY Unseen
<1>7. NewEnd \in End /\ NewEnd.first \in Ids /\ NewEnd.next \in Ids /\ NewEnd.nextIn \in Ids
      /\ NewEnd.first = 0 /\ NewEnd.next = 0 /\ NewEnd.nextIn = 0
      /\ NewEnd.expectContinue = FALSE
  <2>1. 0 \in Ids
    BY IdsBelow, RobustAssumption DEF Sides
  <2> QED BY <2>1 DEF NewEnd, End
<1>8. /\ end' \in [Sides -> [first : Ids, next : Ids, nextIn : Ids,
                             ackDue : BOOLEAN, expectContinue : BOOLEAN]]
      /\ end'["server"] = NewEnd /\ end'["client"] = NewEnd
  BY <1>1, <1>3, <1>6, <1>7, EndTyped
<1>9. /\ ready' \in [Conns -> {"none", "open", "closing", "closed", "refused"}]
      /\ ready'[c] = "open"
      /\ \A b \in Conns : b # c =>
           \/ b = current /\ ready'[b] = "closed"
           \/ b # current /\ ready'[b] = ready[b]
  BY <1>1 DEF Inv, TypeOK
<1>10. TypeOK'
  BY <1>1, <1>3, <1>8, <1>9 DEF TypeOK
<1>11. NothingDiscardedEarly'
  BY <1>7, <1>8 DEF NothingDiscardedEarly, Sides, Peer
<1>12. NoProtocolErrors'
  BY <1>1, <1>9 DEF Inv, NoProtocolErrors
<1>13. clientConn # None /\ clientConn # c => clientConn # current /\ ready'[clientConn] = "none"
  <2>1. session = "none" => current = None
    BY DEF Inv, Registry
  <2> QED BY <1>2, <1>4, <1>5, <1>9, <2>1
<1>14. RefusedOnlyIfEnded'
  BY <1>1, <1>9, <1>13 DEF RefusedOnlyIfEnded
<1>15. Counted'
  <2>1. MaxMessages["server"] >= 0
    BY <1>3, RobustAssumption
  <2> QED BY <1>1, <1>3, <1>6, <1>7, <1>8, <2>1 DEF Inv, Counted, Sides
<1>16. Registry'
  <2>1. \A b \in Conns : ready'[b] = "open" => b = c
    BY <1>9 DEF Inv, Registry
  <2>2. \A b \in Conns : url[b] = "none" => ready'[b] = "none"
    <3>1. session = "none" => current \notin Conns
      BY <1>3, Typed DEF Inv, Registry
    <3> QED BY <1>1, <1>2, <1>9, <3>1 DEF Inv, Registry
  <2>3. \A b \in Conns : ready'[b] = "none" => ready[b] = "none"
    BY <1>9
  <2>4. session' = "live" /\ withheld' = FALSE /\ current' = c /\ ready'[c] = "open"
    BY <1>1, <1>9
  <2> QED BY <1>1, <2>1, <2>2, <2>3, <2>4 DEF Inv, Registry
<1>17. Client'
  BY <1>1, <1>2, <1>3, <1>4, <1>5, <1>6, <1>7, <1>8, <1>9, <1>13 DEF Inv, Client, Sides
<1>18. Underway'
  <2>1. Acceptable(<< >>, NewEnd, NewEnd, FALSE) /\ Complete(<< >>, NewEnd, NewEnd, FALSE)
    <3>1. NewEnd.nextIn <= NewEnd.next
      BY <1>7
    <3> QED BY <1>7, <3>1, NothingSent, NothingCarried DEF Complete
  <2>2. clientState \in {"connecting", "open"} => clientConn # None
    BY DEF Inv, Client
  <2>3. clientState # "open"
    BY <1>5 DEF Inv, Client
  <2>4. opened = FALSE
    BY <1>3, <1>5 DEF TypeOK
  <2> QED BY <1>1, <1>2, <1>3, <1>7, <1>8, <1>13, <2>1, <2>2, <2>3, <2>4 DEF Underway
<1> QED BY <1>10, <1>11, <1>12, <1>14, <1>15, <1>16, <1>17, <1>18 DEF Inv

LEMMA ClientOpensInv ==
  ASSUME Inv, ClientOpens
  PROVE  Inv'
<1> DEFINE client == end["client"]
           server == end["server"]
           c == clientConn
           resumed == [client EXCEPT !.expectContinue = TRUE]
           w == <<[kind |-> "CONTINUE", id |-> client.nextIn]>>
<1>1. /\ clientState = "connecting" /\ ready[c] \in {"open", "closed"}
      /\ clientState' = "open" /\ opened' = TRUE
      /\ \/ /\ url[c] = "o"
            /\ wire' = [wire EXCEPT ![c]["server"] = w]
            /\ end' = [end EXCEPT !["client"] = resumed]
         \/ /\ url[c] # "o"
            /\ UNCHANGED <<wire, end>>
      /\ UNCHANGED <<session, nascent, current, withheld, received, url, ready, clientConn>>
  BY DEF ClientOpens, sessionVars
<1>2. /\ TypeOK /\ client \in End /\ server \in End
      /\ "client" \in Sides /\ "server" \in Sides
      /\ client.first <= server.nextIn /\ server.nextIn <= client.next
      /\ server.first <= client.nextIn /\ client.nextIn <= server.next
  BY Typed DEF Inv, NothingDiscardedEarly, Sides, Peer
<1>3. /\ c \in Conns /\ c # None /\ url[c] # "none" /\ (url[c] = "o" <=> opened)
      /\ session # "none"
      /\ ready[c] = "open" => c = current
      /\ current \in Conns
  <2>1. c # None /\ url[c] # "none" /\ (url[c] = "o" <=> opened)
    BY <1>1 DEF Inv, Client
  <2>2. c \in Conns
    BY <1>2, <2>1 DEF TypeOK
  <2> QED BY <1>1, <2>1, <2>2 DEF Inv, Registry
<1>4. NoProtocolErrors'
  BY <1>1 DEF Inv, NoProtocolErrors
<1>5. RefusedOnlyIfEnded'
  BY <1>1 DEF Inv, RefusedOnlyIfEnded
<1>6. CASE url[c] = "o"
  <2>1. /\ wire' = [wire EXCEPT ![c]["server"] = w]
        /\ end' = [end EXCEPT !["client"] = resumed]
        /\ opened = TRUE
    BY <1>1, <1>2, <1>3, <1>6 DEF TypeOK
  <2>2. /\ resumed \in End /\ resumed.expectContinue = TRUE
        /\ resumed.first = client.first /\ resumed.next = client.next
        /\ resumed.nextIn = client.nextIn
        /\ client.first \in Ids /\ client.next \in Ids /\ client.nextIn \in Ids
    BY <1>2 DEF End, TypeOK
  <2>3. w \in Seq(Messages)
    BY <2>2 DEF Messages
  <2> HIDE DEF w, resumed
  <2>4. /\ end' \in [Sides -> [first : Ids, next : Ids, nextIn : Ids,
                               ackDue : BOOLEAN, expectContinue : BOOLEAN]]
        /\ end'["client"] = resumed /\ end'["server"] = server
    BY <1>2, <2>1, <2>2, EndTyped
  <2>5. /\ wire' \in [Conns -> [Sides -> Seq(Messages)]]
        /\ wire'[c]["server"] = w
        /\ \A b \in Conns, s \in Sides : b # c \/ s # "server" => wire'[b][s] = wire[b][s]
    BY <1>2, <1>3, <2>1, <2>3, WireTyped
  <2>6. TypeOK'
    BY <1>1, <1>2, <2>4, <2>5 DEF TypeOK
  <2>7. NothingDiscardedEarly'
    BY <1>2, <2>2, <2>4 DEF NothingDiscardedEarly, Sides, Peer
  <2>8. Counted'
    BY <1>1, <2>2, <2>4 DEF Inv, Counted, Sides
  <2>9. Registry'
    BY <1>1, <1>3, <2>1, <2>5 DEF Inv, Registry
  <2>10. Client'
    BY <1>1, <1>2, <1>3, <1>6, <2>1, <2>4 DEF Inv, Client, Sides
  <2>11. Underway'
    <3>1. /\ server.expectContinue = TRUE
            => Acceptable(w, server, resumed, server.expectContinue)
               /\ Complete(w, server, resumed, server.expectContinue)
      BY <1>2, <2>2, ContinueSent DEF w
    <3>2. ready[c] = "open" => server.expectContinue = TRUE
      BY <1>1, <1>2, <2>1 DEF Inv, Underway, End
    <3>3. Acceptable(wire[c]["client"], resumed, server, TRUE)
      <4>1. Acceptable(wire[c]["client"], client, server, TRUE)
        BY <1>1, <2>1 DEF Inv, Underway
      <4>2. server.next <= server.next
        BY <1>2 DEF End
      <4> QED BY <1>2, <2>2, <4>1, <4>2, StillAcceptable
    <3>4. ready[c] = "open" => Complete(wire[c]["client"], resumed, server, TRUE)
      <4>1. ready[c] = "open" => Complete(wire[c]["client"], client, server, TRUE)
        BY <1>1, <2>1 DEF Inv, Underway
      <4>2. server.next <= server.next
        BY <1>2 DEF End
      <4> QED BY <1>2, <2>2, <4>1, <4>2, StillAcceptable
    <3>5. ready[current] = "open" => Acceptable(wire[current]["server"], server, resumed, server.expectContinue)
      <4>1. ready[current] = "open" => Acceptable(wire[current]["server"], server, client, server.expectContinue)
        BY <1>3 DEF Inv, Underway
      <4> QED BY <1>2, <2>2, <4>1, StillAcceptable DEF End
    <3>6. /\ wire'[c]["client"] = wire[c]["client"]
          /\ current # c => wire'[current]["server"] = wire[current]["server"]
      BY <1>2, <1>3, <2>5
    <3> QED BY <1>1, <1>3, <2>2, <2>4, <2>5, <3>1, <3>2, <3>3, <3>4, <3>5, <3>6 DEF Underway
  <2> QED BY <1>4, <1>5, <2>6, <2>7, <2>8, <2>9, <2>10, <2>11 DEF Inv
<1>7. CASE url[c] # "o"
  <2>1. UNCHANGED <<wire, end>> /\ opened = FALSE
    BY <1>1, <1>2, <1>3, <1>7 DEF TypeOK
  <2>2. TypeOK'
    BY <1>1, <1>2, <2>1 DEF TypeOK
  <2>3. NothingDiscardedEarly' /\ Counted'
    BY <1>1, <2>1 DEF Inv, NothingDiscardedEarly, Counted
  <2>4. Registry'
    BY <1>1, <1>3, <2>1 DEF Inv, Registry
  <2>5. Client'
    BY <1>1, <1>2, <1>3, <1>7, <2>1 DEF Inv, Client
  <2>6. Underway'
    <3>1. /\ client = NewEnd /\ server.nextIn = 0 /\ server.expectContinue = FALSE
          /\ client.expectContinue = FALSE /\ client.next = 0
      <4>1. client = NewEnd /\ server.nextIn = 0
        BY <2>1 DEF Inv, Client
      <4>2. ~server.expectContinue
        BY <1>2, <1>3, <2>1 DEF Inv, Client
      <4> QED BY <1>2, <4>1, <4>2 DEF NewEnd, End
    <3>2. ready[c] = "open" => wire[current]["server"] = << >>
      BY <1>1 DEF Inv, Underway
    <3>3. Complete(<< >>, server, client, FALSE)
      BY <3>1, NothingCarried DEF Complete
    <3>4. Acceptable(wire[c]["client"], client, server, client.expectContinue)
      BY <1>1, <2>1, <3>1 DEF Inv, Underway
    <3>5. ready[c] = "open" => Complete(wire[c]["client"], client, server, client.expectContinue)
      BY <1>1, <2>1, <3>1 DEF Inv, Underway
    <3>6. session # "none" /\ ready[current] = "open"
            => Acceptable(wire[current]["server"], server, client, server.expectContinue)
      BY DEF Inv, Underway
    <3> QED BY <1>1, <2>1, <3>1, <3>2, <3>3, <3>4, <3>5, <3>6 DEF Underway
  <2> QED BY <1>4, <1>5, <2>2, <2>3, <2>4, <2>5, <2>6 DEF Inv
<1> QED BY <1>6, <1>7

\* One end becomes q, and it sends m, or nothing.
Becomes(side, q) ==
  /\ q \in End
  /\ q.first = end[side].first /\ q.nextIn = end[side].nextIn
  /\ q.expectContinue = end[side].expectContinue
  /\ end[side].next <= q.next /\ q.next <= MaxMessages[side]
  /\ side = "client" => opened
  /\ end' = [end EXCEPT ![side] = q]
  /\ UNCHANGED <<session, nascent, current, withheld, received, url, ready,
                 clientState, clientConn, opened>>

SendsNothing(side, q) ==
  /\ wire' = wire
  /\ q.next = end[side].next \/ q.expectContinue \/ ~IsOpen(side)

Sends(side, q, m) ==
  /\ IsOpen(side)
  /\ m \in Messages
  /\ wire' = [wire EXCEPT ![Conn(side)][Peer(side)] = Append(@, m)]
  /\ \A w \in Seq(Message), e \in End, awaited \in BOOLEAN :
       Acceptable(w, e, end[side], awaited) /\ Complete(w, e, end[side], awaited)
         => Acceptable(Append(w, m), e, q, awaited) /\ Complete(Append(w, m), e, q, awaited)

LEMMA AppendTyped ==
  ASSUME TypeOK, NEW c \in Conns, NEW side \in Sides, NEW m \in Messages,
         wire' = [wire EXCEPT ![c][side] = Append(@, m)]
  PROVE  /\ wire' \in [Conns -> [Sides -> Seq(Messages)]]
         /\ wire'[c][side] = Append(wire[c][side], m)
         /\ \A b \in Conns, s \in Sides : b # c \/ s # side => wire'[b][s] = wire[b][s]
<1>1. Append(wire[c][side], m) \in Seq(Messages)
  BY Typed
<1> QED BY <1>1 DEF TypeOK

\* An end that is open has its connection.
LEMMA OpenConn ==
  ASSUME Inv, NEW side \in Sides, IsOpen(side)
  PROVE  Conn(side) \in Conns /\ ready[Conn(side)] # "none"
<1>1. CASE side = "server"
  BY <1>1 DEF Inv, IsOpen, Conn, Registry
<1>2. CASE side = "client"
  BY <1>2 DEF Inv, IsOpen, Conn, Client, TypeOK
<1> QED BY <1>1, <1>2 DEF Sides

\* All but Underway.
LEMMA BecomesInv ==
  ASSUME Inv, NEW side \in Sides, NEW q, Becomes(side, q), NEW m,
         SendsNothing(side, q) \/ Sends(side, q, m)
  PROVE  /\ TypeOK' /\ NothingDiscardedEarly' /\ NoProtocolErrors' /\ RefusedOnlyIfEnded'
         /\ Counted' /\ Registry' /\ Client'
         /\ end'[side] = q /\ end'[Peer(side)] = end[Peer(side)]
         /\ \A b \in Conns : /\ wire'[b][side] = wire[b][side]
                             /\ b # Conn(side) => wire'[b][Peer(side)] = wire[b][Peer(side)]
         /\ Sends(side, q, m) =>
              /\ Conn(side) \in Conns
              /\ wire'[Conn(side)][Peer(side)] = Append(wire[Conn(side)][Peer(side)], m)
<1> DEFINE p == end[side]
           o == end[Peer(side)]
           c == Conn(side)
<1>1. /\ q \in End
      /\ q.first = p.first /\ q.nextIn = p.nextIn /\ q.expectContinue = p.expectContinue
      /\ p.next <= q.next /\ q.next <= MaxMessages[side]
      /\ side = "client" => opened
      /\ end' = [end EXCEPT ![side] = q]
      /\ UNCHANGED <<session, nascent, current, withheld, received, url, ready,
                     clientState, clientConn, opened>>
  BY DEF Becomes
<1>2. /\ TypeOK /\ p \in End /\ o \in End /\ Peer(side) \in Sides /\ Peer(side) # side
      /\ Sides = {side, Peer(side)} /\ Peer(Peer(side)) = side
      /\ p.first <= o.nextIn /\ o.nextIn <= p.next
      /\ o.first <= p.nextIn /\ p.nextIn <= o.next
  BY Typed DEF Inv, NothingDiscardedEarly, Sides, Peer
<1>3. q.first \in Ids /\ q.next \in Ids /\ q.nextIn \in Ids
  BY <1>1, <1>2, IdsBelow DEF TypeOK, End
<1>4. /\ end' \in [Sides -> [first : Ids, next : Ids, nextIn : Ids,
                             ackDue : BOOLEAN, expectContinue : BOOLEAN]]
      /\ end'[side] = q /\ end'[Peer(side)] = o
  BY <1>1, <1>2, <1>3, EndTyped
<1>5. /\ wire' \in [Conns -> [Sides -> Seq(Messages)]]
      /\ \A b \in Conns : /\ wire'[b][side] = wire[b][side]
                          /\ b # c => wire'[b][Peer(side)] = wire[b][Peer(side)]
      /\ Sends(side, q, m) =>
           c \in Conns /\ wire'[c][Peer(side)] = Append(wire[c][Peer(side)], m)
      /\ \A b \in Conns : ready[b] = "none" => \A s \in Sides : wire'[b][s] = wire[b][s]
      /\ ~opened => \A b \in Conns : wire'[b]["server"] = wire[b]["server"]
  <2>1. CASE Sends(side, q, m)
    <3>1. m \in Messages /\ c \in Conns /\ ready[c] # "none"
      BY <2>1, OpenConn DEF Sends
    <3>2. /\ wire' \in [Conns -> [Sides -> Seq(Messages)]]
          /\ wire'[c][Peer(side)] = Append(wire[c][Peer(side)], m)
          /\ \A b \in Conns, s \in Sides : b # c \/ s # Peer(side) => wire'[b][s] = wire[b][s]
      <4>1. wire' = [wire EXCEPT ![c][Peer(side)] = Append(@, m)]
        BY <2>1 DEF Sends
      <4> HIDE DEF c
      <4> QED BY <1>2, <3>1, <4>1, AppendTyped
    <3>3. ~opened => Peer(side) # "server"
      BY <1>1 DEF Peer, Sides
    <3> QED BY <1>2, <3>1, <3>2, <3>3 DEF Sides
  <2>2. CASE wire' = wire /\ ~Sends(side, q, m)
    BY <1>2, <2>2 DEF TypeOK
  <2> QED BY <2>1, <2>2 DEF SendsNothing
<1>6. TypeOK'
  BY <1>1, <1>2, <1>4, <1>5 DEF TypeOK
<1>7. NothingDiscardedEarly'
  <2>1. o.nextIn <= q.next
    BY <1>1, <1>2 DEF End
  <2> QED BY <1>1, <1>2, <1>4, <2>1 DEF NothingDiscardedEarly
<1>8. NoProtocolErrors' /\ RefusedOnlyIfEnded'
  BY <1>1 DEF Inv, NoProtocolErrors, RefusedOnlyIfEnded
<1>9. Counted'
  BY <1>1, <1>2, <1>4 DEF Inv, Counted
<1>10. Registry'
  <2>1. \A b \in Conns : ready[b] = "none" => \A s \in Sides : wire'[b][s] = << >>
    <3>1. \A b \in Conns : ready[b] = "none" => \A s \in Sides : wire[b][s] = << >>
      BY DEF Inv, Registry
    <3> QED BY <1>5, <3>1
  <2> QED BY <1>1, <2>1 DEF Inv, Registry
<1>11. Client'
  <2>1. \A s \in Sides : end'[s].expectContinue = end[s].expectContinue
    BY <1>1, <1>2, <1>4
  <2>2. end'["server"].nextIn = end["server"].nextIn
    BY <1>1, <1>2, <1>4 DEF Sides
  <2>3. ~opened => end'["client"] = end["client"]
    BY <1>1, <1>2, <1>4 DEF Sides
  <2> QED BY <1>1, <1>5, <2>1, <2>2, <2>3 DEF Inv, Client
<1> QED BY <1>4, <1>5, <1>6, <1>7, <1>8, <1>9, <1>10, <1>11

LEMMA ServerBecomesInv ==
  ASSUME Inv, NEW q, Becomes("server", q), NEW m,
         SendsNothing("server", q) \/ Sends("server", q, m)
  PROVE  Inv'
<1> DEFINE client == end["client"]
           server == end["server"]
           v == wire[clientConn]["client"]
<1>1. /\ TypeOK' /\ NothingDiscardedEarly' /\ NoProtocolErrors' /\ RefusedOnlyIfEnded'
      /\ Counted' /\ Registry' /\ Client'
      /\ end'["server"] = q /\ end'["client"] = client
      /\ \A b \in Conns : /\ wire'[b]["server"] = wire[b]["server"]
                          /\ b # current => wire'[b]["client"] = wire[b]["client"]
      /\ Sends("server", q, m) =>
           current \in Conns /\ wire'[current]["client"] = Append(wire[current]["client"], m)
  BY BecomesInv DEF Peer, Conn, Sides
<1>2. /\ client \in End /\ server \in End /\ client.expectContinue \in BOOLEAN /\ opened \in BOOLEAN
      /\ q.expectContinue \in BOOLEAN
      /\ client.next <= client.next /\ server.next <= q.next
      /\ q.first = server.first /\ q.nextIn = server.nextIn
      /\ q.expectContinue = server.expectContinue
      /\ q \in End
      /\ UNCHANGED <<session, nascent, current, withheld, received, url, ready,
                     clientState, clientConn, opened>>
  BY Typed DEF Inv, End, TypeOK, Becomes
<1>3. /\ clientState \in {"connecting", "open"} => clientConn \in Conns
      /\ clientConn \in Conns => v \in Seq(Message)
      /\ clientConn \in Conns /\ ready[clientConn] = "open" => clientConn = current /\ session # "none"
      /\ session # "none" => current \in Conns
  <2>1. clientState \in {"connecting", "open"} => clientConn \in Conns
    BY DEF Inv, Client, TypeOK
  <2>2. clientConn \in Conns => v \in Seq(Message)
    BY Typed DEF Inv, Sides
  <2> QED BY <2>1, <2>2 DEF Inv, Registry
<1>4. ASSUME NEW awaited \in BOOLEAN, clientConn \in Conns, Acceptable(v, client, server, awaited),
             ready[clientConn] = "open" => Complete(v, client, server, awaited)
      PROVE  /\ Acceptable(wire'[clientConn]["client"], client, q, awaited)
             /\ ready[clientConn] = "open" =>
                  Complete(wire'[clientConn]["client"], client, q, awaited)
  <2>1. Acceptable(v, client, q, awaited)
    BY <1>2, <1>4, StillAcceptable
  <2>2. CASE Sends("server", q, m) /\ clientConn = current
    <3>1. ready[clientConn] = "open"
      BY <2>2 DEF Sends, IsOpen
    <3>2. Acceptable(Append(v, m), client, q, awaited) /\ Complete(Append(v, m), client, q, awaited)
      BY <1>2, <1>3, <1>4, <2>2, <3>1 DEF Sends
    <3> QED BY <1>1, <2>2, <3>2
  <2>3. CASE ~Sends("server", q, m) \/ clientConn # current
    <3>1. wire'[clientConn]["client"] = v
      BY <1>1, <1>4, <2>3 DEF SendsNothing
    <3>2. ready[clientConn] = "open" => q.next = server.next \/ q.expectContinue
      BY <1>3, <1>4, <2>3 DEF SendsNothing, IsOpen
    <3>3. ready[clientConn] = "open" => Complete(v, client, q, awaited)
      BY <1>2, <1>4, <3>2, StillAcceptable
    <3> QED BY <2>1, <3>1, <3>3
  <2> QED BY <2>2, <2>3
<1>5. ASSUME session # "none"
      PROVE  /\ wire'[current]["server"] = wire[current]["server"]
             /\ Acceptable(wire[current]["server"], server, client, server.expectContinue)
                  => Acceptable(wire[current]["server"], q, client, q.expectContinue)
             /\ Complete(wire[current]["server"], server, client, server.expectContinue)
                  => Complete(wire[current]["server"], q, client, q.expectContinue)
  BY <1>1, <1>2, <1>3, <1>5, StillAcceptable
<1>6. Underway'
  <2>1. session # "none" /\ ready[current] = "open" =>
          Acceptable(wire'[current]["server"], q, client, q.expectContinue)
    BY <1>5 DEF Inv, Underway
  <2>2. clientState = "connecting" /\ ready[clientConn] \in {"open", "closed"} =>
          /\ Acceptable(wire'[clientConn]["client"], client, q, opened)
          /\ ready[clientConn] = "open" => Complete(wire'[clientConn]["client"], client, q, opened)
    BY <1>2, <1>3, <1>4 DEF Inv, Underway
  <2>3. clientState = "open" =>
          /\ Acceptable(wire'[clientConn]["client"], client, q, client.expectContinue)
          /\ ready[clientConn] = "open" =>
               Complete(wire'[clientConn]["client"], client, q, client.expectContinue)
    BY <1>2, <1>3, <1>4 DEF Inv, Underway
  <2>4. clientState = "connecting" /\ ready[clientConn] = "open" =>
          wire'[current]["server"] = << >> /\ (opened => q.expectContinue)
    BY <1>2, <1>3, <1>5 DEF Inv, Underway
  <2>5. clientState = "open" /\ ready[clientConn] = "open" =>
          Complete(wire'[current]["server"], q, client, q.expectContinue)
    BY <1>3, <1>5 DEF Inv, Underway
  <2> QED BY <1>1, <1>2, <2>1, <2>2, <2>3, <2>4, <2>5 DEF Underway
<1> QED BY <1>1, <1>6 DEF Inv

LEMMA ClientBecomesInv ==
  ASSUME Inv, NEW q, Becomes("client", q), NEW m,
         SendsNothing("client", q) \/ Sends("client", q, m)
  PROVE  Inv'
<1> DEFINE client == end["client"]
           server == end["server"]
           v == wire[current]["server"]
<1>1. /\ TypeOK' /\ NothingDiscardedEarly' /\ NoProtocolErrors' /\ RefusedOnlyIfEnded'
      /\ Counted' /\ Registry' /\ Client'
      /\ end'["client"] = q /\ end'["server"] = server
      /\ \A b \in Conns : /\ wire'[b]["client"] = wire[b]["client"]
                          /\ b # clientConn => wire'[b]["server"] = wire[b]["server"]
      /\ Sends("client", q, m) =>
           /\ clientConn \in Conns
           /\ wire'[clientConn]["server"] = Append(wire[clientConn]["server"], m)
  BY BecomesInv DEF Peer, Conn, Sides
<1>2. /\ client \in End /\ server \in End /\ server.expectContinue \in BOOLEAN /\ opened \in BOOLEAN
      /\ q.expectContinue \in BOOLEAN
      /\ server.next <= server.next /\ client.next <= q.next
      /\ q.first = client.first /\ q.nextIn = client.nextIn
      /\ q.expectContinue = client.expectContinue
      /\ q \in End
      /\ UNCHANGED <<session, nascent, current, withheld, received, url, ready,
                     clientState, clientConn, opened>>
  BY Typed DEF Inv, End, TypeOK, Becomes
<1>3. /\ clientState \in {"connecting", "open"} => clientConn \in Conns
      /\ clientConn \in Conns /\ ready[clientConn] = "open" => clientConn = current /\ session # "none"
      /\ session # "none" => current \in Conns
      /\ current \in Conns => v \in Seq(Message)
  <2>1. clientState \in {"connecting", "open"} => clientConn \in Conns
    BY DEF Inv, Client, TypeOK
  <2>2. current \in Conns => v \in Seq(Message)
    BY Typed DEF Inv, Sides
  <2> QED BY <2>1, <2>2 DEF Inv, Registry
<1>4. ASSUME session # "none", ready[current] = "open"
      PROVE  /\ Acceptable(wire'[current]["server"], server, q, server.expectContinue)
             /\ clientState = "open" /\ clientConn = current
                  => Complete(wire'[current]["server"], server, q, server.expectContinue)
  <2>1. Acceptable(v, server, client, server.expectContinue)
    BY <1>4 DEF Inv, Underway
  <2>2. Acceptable(v, server, q, server.expectContinue)
    BY <1>2, <2>1, StillAcceptable
  <2>3. clientState = "open" /\ clientConn = current
          => Complete(v, server, client, server.expectContinue)
    BY <1>4 DEF Inv, Underway
  <2>4. CASE Sends("client", q, m) /\ clientConn = current
    <3>1. clientState = "open"
      BY <2>4 DEF Sends, IsOpen
    <3>2. /\ Acceptable(Append(v, m), server, q, server.expectContinue)
          /\ Complete(Append(v, m), server, q, server.expectContinue)
      BY <1>2, <1>3, <1>4, <2>1, <2>3, <2>4, <3>1 DEF Sends
    <3>3. wire'[current]["server"] = Append(v, m)
      BY <1>1, <2>4
    <3> QED BY <3>1, <3>2, <3>3
  <2>5. CASE ~Sends("client", q, m) \/ clientConn # current
    <3>1. wire'[current]["server"] = v
      BY <1>1, <1>3, <1>4, <2>5 DEF SendsNothing
    <3>2. clientState = "open" /\ clientConn = current => q.next = client.next \/ q.expectContinue
      BY <2>5 DEF SendsNothing, IsOpen
    <3>3. clientState = "open" /\ clientConn = current => Complete(v, server, q, server.expectContinue)
      BY <1>2, <2>3, <3>2, StillAcceptable
    <3> QED BY <2>2, <3>1, <3>3
  <2> QED BY <2>4, <2>5
<1>5. ASSUME clientState \in {"connecting", "open"}, NEW awaited \in BOOLEAN
      PROVE  /\ wire'[clientConn]["client"] = wire[clientConn]["client"]
             /\ Acceptable(wire[clientConn]["client"], client, server, awaited)
                  => Acceptable(wire[clientConn]["client"], q, server, awaited)
             /\ Complete(wire[clientConn]["client"], client, server, awaited)
                  => Complete(wire[clientConn]["client"], q, server, awaited)
  BY <1>1, <1>2, <1>3, <1>5, StillAcceptable
<1>6. Underway'
  <2>1. clientState = "connecting" /\ ready[clientConn] \in {"open", "closed"} =>
          Acceptable(wire'[clientConn]["client"], q, server, opened)
    BY <1>2, <1>5 DEF Inv, Underway
  <2>2. clientState = "open" =>
          Acceptable(wire'[clientConn]["client"], q, server, q.expectContinue)
    BY <1>2, <1>5 DEF Inv, Underway
  <2>3. clientState = "connecting" /\ ready[clientConn] = "open" =>
          /\ Complete(wire'[clientConn]["client"], q, server, opened)
          /\ opened => server.expectContinue
    BY <1>2, <1>5 DEF Inv, Underway
  <2>4. clientState = "connecting" /\ ready[clientConn] = "open" =>
          wire'[current]["server"] = << >>
    <3>1. clientState = "connecting" => ~Sends("client", q, m)
      BY DEF Sends, IsOpen
    <3> QED BY <3>1 DEF Inv, Underway, SendsNothing
  <2>5. clientState = "open" /\ ready[clientConn] = "open" =>
          /\ Complete(wire'[clientConn]["client"], q, server, q.expectContinue)
          /\ Complete(wire'[current]["server"], server, q, server.expectContinue)
    BY <1>2, <1>3, <1>4, <1>5 DEF Inv, Underway
  <2> QED BY <1>1, <1>2, <1>4, <2>1, <2>2, <2>3, <2>4, <2>5 DEF Underway
<1> QED BY <1>1, <1>6 DEF Inv

LEMMA WriteInv ==
  ASSUME Inv, NEW side \in Sides, Write(side)
  PROVE  Inv'
<1> DEFINE p == end[side]
           q == [p EXCEPT !.next = @ + 1]
           m == [kind |-> "data", id |-> p.next]
<1>1. /\ p \in End /\ p.next < MaxMessages[side] /\ MaxMessages[side] \in Nat
      /\ p.next \in Nat /\ p.next \in Ids
  BY Typed, RobustAssumption DEF Inv, Sides, Write, MayWrite, End, TypeOK
<1>2. /\ q \in End /\ q.next = p.next + 1
      /\ q.first = p.first /\ q.nextIn = p.nextIn /\ q.expectContinue = p.expectContinue
  BY <1>1 DEF End
<1>3. m \in Messages
  BY <1>1 DEF Messages
<1>4. end' = [end EXCEPT ![side] = q]
  BY DEF Write
<1>5. Becomes(side, q)
  <2>1. side = "client" => opened
    BY DEF Write, MayWrite
  <2> QED BY <1>1, <1>2, <1>4, <2>1 DEF Becomes, Write, sessionVars, clientVars
<1>6. SendsNothing(side, q) \/ Sends(side, q, m)
  <2>1. CASE IsOpen(side) /\ ~p.expectContinue
    <3>1. \A w \in Seq(Message), e \in End, awaited \in BOOLEAN :
            Acceptable(w, e, p, awaited) /\ Complete(w, e, p, awaited)
              => Acceptable(Append(w, m), e, q, awaited) /\ Complete(Append(w, m), e, q, awaited)
      BY <1>1, <2>1, DataSent
    <3> QED BY <1>3, <2>1, <3>1 DEF Write, Sends
  <2>2. CASE ~(IsOpen(side) /\ ~p.expectContinue)
    BY <1>2, <2>2 DEF Write, SendsNothing
  <2> QED BY <2>1, <2>2
<1> HIDE DEF q, m
<1> QED BY <1>5, <1>6, ServerBecomesInv, ClientBecomesInv DEF Sides

LEMMA SendAckInv ==
  ASSUME Inv, NEW side \in Sides, SendAck(side)
  PROVE  Inv'
<1> DEFINE p == end[side]
           q == [p EXCEPT !.ackDue = FALSE]
           m == [kind |-> "ack", id |-> p.nextIn]
<1>1. /\ p \in End /\ p.next <= MaxMessages[side] /\ p.nextIn \in Ids /\ p.next \in Nat
      /\ p.ackDue
  BY Typed DEF Inv, Sides, SendAck, Counted, End, TypeOK
<1>2. /\ q \in End /\ q.next = p.next
      /\ q.first = p.first /\ q.nextIn = p.nextIn /\ q.expectContinue = p.expectContinue
  BY <1>1 DEF End
<1>3. m \in Messages
  BY <1>1 DEF Messages
<1>4. end' = [end EXCEPT ![side] = q]
  BY DEF SendAck
<1>5. Becomes(side, q)
  <2>1. side = "client" => opened
    BY <1>1 DEF Inv, Client, NewEnd
  <2>2. p.next <= q.next /\ q.next <= MaxMessages[side]
    BY <1>1, <1>2
  <2> QED BY <1>2, <1>4, <2>1, <2>2 DEF Becomes, SendAck, sessionVars, clientVars
<1>6. SendsNothing(side, q) \/ Sends(side, q, m)
  <2>1. CASE IsOpen(side)
    <3>1. \A w \in Seq(Message), e \in End, awaited \in BOOLEAN :
            Acceptable(w, e, p, awaited) /\ Complete(w, e, p, awaited)
              => Acceptable(Append(w, m), e, q, awaited) /\ Complete(Append(w, m), e, q, awaited)
      <4> SUFFICES ASSUME NEW w \in Seq(Message), NEW e \in End, NEW awaited \in BOOLEAN,
                          Acceptable(w, e, p, awaited), Complete(w, e, p, awaited)
                   PROVE  /\ Acceptable(Append(w, m), e, q, awaited)
                          /\ Complete(Append(w, m), e, q, awaited)
        OBVIOUS
      <4>1. Acceptable(Append(w, m), e, p, awaited) /\ Complete(Append(w, m), e, p, awaited)
        <5>1. awaited => w # << >>
          BY DEF Complete
        <5> QED BY <1>1, <5>1, AckSent
      <4>2. p.next <= q.next
        BY <1>1, <1>2
      <4> HIDE DEF q, m
      <4> QED BY <1>1, <1>2, <4>1, <4>2, StillAcceptable
    <3> QED BY <1>3, <2>1, <3>1 DEF SendAck, Sends
  <2>2. CASE ~IsOpen(side)
    BY <2>2 DEF SendAck, SendsNothing
  <2> QED BY <2>1, <2>2
<1> HIDE DEF q, m
<1> QED BY <1>5, <1>6, ServerBecomesInv, ClientBecomesInv DEF Sides

\* What an end reads is acceptable to it.
LEMMA Readable ==
  ASSUME Inv, NEW side \in Sides, IsOpen(side)
  PROVE  Acceptable(wire[Conn(side)][side], end[side], end[Peer(side)],
                    end[side].expectContinue)
<1>1. CASE side = "server"
  BY <1>1 DEF Inv, Underway, IsOpen, Conn, Peer
<1>2. CASE side = "client"
  BY <1>2 DEF Inv, Underway, IsOpen, Conn, Peer
<1> QED BY <1>1, <1>2 DEF Sides

\* All but Underway.
LEMMA ReceiveParts ==
  ASSUME Inv, NEW side \in Sides, Receive(side)
  PROVE  LET e == end[side]
             p == end[Peer(side)]
             c == Conn(side)
             w == wire[c][side]
             v == wire[c][Peer(side)]
             o == Handle(e, Head(w))
             f == o.end
         IN  /\ TypeOK' /\ NothingDiscardedEarly' /\ NoProtocolErrors' /\ RefusedOnlyIfEnded'
             /\ Counted' /\ Registry' /\ Client'
             /\ c \in Conns /\ w \in Seq(Message) /\ w # << >> /\ v \in Seq(Message)
             /\ e \in End /\ p \in End
             /\ e.first <= p.nextIn /\ p.nextIn <= e.next /\ e.nextIn <= p.next
             /\ end'[side] = f /\ end'[Peer(side)] = p /\ f.expectContinue = FALSE
             /\ wire'[c][side] = Tail(w) /\ wire'[c][Peer(side)] = v \o o.replies
             /\ \A b \in Conns, s \in Sides : b # c => wire'[b][s] = wire[b][s]
             /\ Acceptable(w, e, p, e.expectContinue)
             /\ Acceptable(Tail(w), f, p, FALSE)
             /\ Complete(w, e, p, e.expectContinue) => Complete(Tail(w), f, p, FALSE)
             /\ opened = TRUE
             /\ UNCHANGED <<session, current, ready, clientState, clientConn, opened>>
<1> DEFINE e == end[side]
           p == end[Peer(side)]
           c == Conn(side)
           w == wire[c][side]
           v == wire[c][Peer(side)]
           o == Handle(e, Head(w))
           f == o.end
<1> SUFFICES /\ TypeOK' /\ NothingDiscardedEarly' /\ NoProtocolErrors' /\ RefusedOnlyIfEnded'
             /\ Counted' /\ Registry' /\ Client'
             /\ c \in Conns /\ w \in Seq(Message) /\ w # << >> /\ v \in Seq(Message)
             /\ e \in End /\ p \in End
             /\ e.first <= p.nextIn /\ p.nextIn <= e.next /\ e.nextIn <= p.next
             /\ end'[side] = f /\ end'[Peer(side)] = p /\ f.expectContinue = FALSE
             /\ wire'[c][side] = Tail(w) /\ wire'[c][Peer(side)] = v \o o.replies
             /\ \A b \in Conns, s \in Sides : b # c => wire'[b][s] = wire[b][s]
             /\ Acceptable(w, e, p, e.expectContinue)
             /\ Acceptable(Tail(w), f, p, FALSE)
             /\ Complete(w, e, p, e.expectContinue) => Complete(Tail(w), f, p, FALSE)
             /\ opened = TRUE
             /\ UNCHANGED <<session, current, ready, clientState, clientConn, opened>>
  OBVIOUS
<1>1. /\ IsOpen(side) /\ w # << >>
      /\ end' = [end EXCEPT ![side] = f]
      /\ received' = [received EXCEPT ![side] = @ \o o.data]
      /\ wire' = [wire EXCEPT ![c] = [s \in Sides |->
                    IF s = side THEN Tail(@[s]) ELSE @[s] \o o.replies]]
      /\ UNCHANGED <<session, current, withheld, url, clientConn, opened>>
  BY DEF Receive
<1>2. /\ TypeOK /\ e \in End /\ p \in End /\ Peer(side) \in Sides /\ Peer(side) # side
      /\ Sides = {side, Peer(side)} /\ Peer(Peer(side)) = side
      /\ e.first <= p.nextIn /\ p.nextIn <= e.next
      /\ p.first <= e.nextIn /\ e.nextIn <= p.next
  BY Typed DEF Inv, NothingDiscardedEarly, Sides, Peer
<1>3. c \in Conns /\ ready[c] # "none"
  BY <1>1, OpenConn
<1>4. w \in Seq(Message) /\ w \in Seq(Messages) /\ v \in Seq(Message) /\ v \in Seq(Messages)
  BY <1>2, <1>3, Typed
<1>5. Acceptable(w, e, p, e.expectContinue)
  BY <1>1, Readable
<1>6. /\ e.next \in Nat /\ e.nextIn \in Nat /\ e.first \in Nat
      /\ p.next \in Nat /\ p.nextIn \in Nat /\ p.first \in Nat /\ w[1].id \in Nat
      /\ e.next <= MaxMessages[side] /\ p.next <= MaxMessages[Peer(side)]
      /\ MaxMessages \in [Sides -> Nat]
      /\ e.nextIn \in Ids /\ Len(received[side]) = e.nextIn
      /\ received[side] \in Seq(Ids)
  <2>1. w[1] \in Message
    BY <1>1, <1>4
  <2> QED BY <1>2, <2>1, RobustAssumption DEF Inv, TypeOK, Counted, End, Message
<1>7. opened
  <2>1. CASE side = "client"
    BY <1>1, <2>1 DEF Inv, IsOpen, Client
  <2>2. CASE side = "server"
    BY <1>1, <1>3, <2>2 DEF Inv, Client
  <2> QED BY <2>1, <2>2 DEF Sides
<1> HIDE DEF e, p, w, v
<1>8. /\ o.ok /\ f \in End /\ ~f.expectContinue /\ f.next = e.next
      /\ f.first <= p.nextIn /\ f.nextIn <= p.next
      /\ Acceptable(Tail(w), f, p, FALSE)
      /\ Complete(w, e, p, e.expectContinue) => Complete(Tail(w), f, p, FALSE)
      /\ \/ TakesAck(e, f, o)
         \/ w[1].id <= p.nextIn /\ TakesContinue(e, f, o, w[1].id)
         \/ TakesData(e, f, o)
  BY <1>1, <1>2, <1>4, <1>5, Taken
<1>9. /\ f.next \in Nat /\ f.nextIn \in Nat /\ f.first \in Nat
  BY <1>8 DEF End
<1> HIDE DEF o, f
<1>10. f.first \in Ids /\ f.next \in Ids /\ f.nextIn \in Ids
  <2>1. f.first <= MaxMessages[side] /\ f.nextIn <= MaxMessages[Peer(side)]
    <3>1. MaxMessages[side] \in Nat /\ MaxMessages[Peer(side)] \in Nat
      BY <1>2, <1>6
    <3>2. /\ f.first <= p.nextIn /\ p.nextIn <= e.next /\ e.next <= MaxMessages[side]
          /\ f.nextIn <= p.next /\ p.next <= MaxMessages[Peer(side)]
          /\ p.nextIn \in Nat /\ e.next \in Nat /\ p.next \in Nat
      BY <1>2, <1>6, <1>8
    <3> QED BY <1>9, <3>1, <3>2
  <2> QED BY <1>2, <1>6, <1>8, <1>9, <2>1, IdsBelow
<1>11. /\ o.replies \in Seq(Messages)
       /\ o.data \in Seq(Ids) /\ Len(o.data) = f.nextIn - e.nextIn /\ e.nextIn <= f.nextIn
  <2>1. CASE TakesAck(e, f, o)
    BY <1>6, <1>9, <2>1 DEF TakesAck
  <2>2. CASE w[1].id <= p.nextIn /\ TakesContinue(e, f, o, w[1].id)
    <3>1. w[1].id \in 0 .. e.next
      <4>1. w[1].id \in Nat /\ e.next \in Nat /\ p.nextIn \in Nat /\ p.nextIn <= e.next
        BY <1>2, <1>6
      <4> QED BY <2>2, <4>1
    <3>2. GetMessagesFrom(e, w[1].id) \in Seq(Messages)
      BY <1>2, <1>6, <1>9, <3>1, SentAgainTyped
    <3> QED BY <1>6, <1>9, <2>2, <3>2 DEF TakesContinue
  <2>3. CASE TakesData(e, f, o)
    <3>1. /\ f.nextIn = e.nextIn + 1 /\ o.replies = << >> /\ o.data = <<e.nextIn>>
      BY <2>3 DEF TakesData
    <3>2. o.data \in Seq(Ids) /\ Len(o.data) = 1
      BY <1>6, <1>9, <3>1
    <3>3. o.replies \in Seq(Messages)
      BY <3>1
    <3> QED BY <1>6, <1>9, <3>1, <3>2, <3>3
  <2> QED BY <1>6, <1>8, <2>1, <2>2, <2>3
<1>12. /\ end' \in [Sides -> [first : Ids, next : Ids, nextIn : Ids,
                              ackDue : BOOLEAN, expectContinue : BOOLEAN]]
       /\ end'[side] = f /\ end'[Peer(side)] = p
  BY <1>1, <1>2, <1>6, <1>8, <1>10, EndTyped DEF p
<1>13. /\ received' \in [Sides -> Seq(Ids)]
       /\ Len(received'[side]) = f.nextIn /\ received'[Peer(side)] = received[Peer(side)]
  <2>1. received[side] \o o.data \in Seq(Ids) /\ Len(received[side] \o o.data) = f.nextIn
    <3>1. Len(received[side] \o o.data) = Len(received[side]) + Len(o.data)
      BY <1>6, <1>9, <1>11, ConcatProperties
    <3> QED BY <1>6, <1>9, <1>11, <3>1, ConcatProperties
  <2> QED BY <1>1, <1>2, <2>1 DEF TypeOK
<1>14. /\ wire' \in [Conns -> [Sides -> Seq(Messages)]]
       /\ wire'[c][side] = Tail(w) /\ wire'[c][Peer(side)] = v \o o.replies
       /\ \A b \in Conns, s \in Sides : b # c => wire'[b][s] = wire[b][s]
  <2>1. Tail(w) \in Seq(Messages)
    BY <1>1, <1>4
  <2>2. v \o o.replies \in Seq(Messages)
    BY <1>4, <1>11, ConcatProperties
  <2> DEFINE row == [s \in Sides |-> IF s = side THEN Tail(wire[c][s])
                                     ELSE wire[c][s] \o o.replies]
  <2>3. row \in [Sides -> Seq(Messages)] /\ row[side] = Tail(w) /\ row[Peer(side)] = v \o o.replies
    BY <1>2, <2>1, <2>2 DEF w, v
  <2>4. wire' = [wire EXCEPT ![c] = row]
    BY <1>1
  <2> HIDE DEF row, c, w, v
  <2> QED BY <1>2, <1>3, <2>3, <2>4 DEF TypeOK
<1>15. /\ nascent' \in BOOLEAN /\ UNCHANGED <<ready, clientState>>
  BY <1>2, <1>8 DEF Receive, TypeOK, o, w, c, e
<1>16. TypeOK'
  BY <1>1, <1>2, <1>12, <1>13, <1>14, <1>15 DEF TypeOK
<1>17. NothingDiscardedEarly'
  <2>1. p.first <= f.nextIn
    BY <1>2, <1>6, <1>9, <1>11
  <2> QED BY <1>2, <1>6, <1>8, <1>12, <2>1 DEF NothingDiscardedEarly
<1>18. NoProtocolErrors' /\ RefusedOnlyIfEnded'
  BY <1>1, <1>15 DEF Inv, NoProtocolErrors, RefusedOnlyIfEnded
<1>19. Counted'
  BY <1>2, <1>6, <1>8, <1>12, <1>13 DEF Inv, Counted, e, p
<1>20. Registry'
  <2>1. \A b \in Conns : ready[b] = "none" => \A s \in Sides : wire'[b][s] = << >>
    <3>1. \A b \in Conns : ready[b] = "none" => \A s \in Sides : wire[b][s] = << >>
      BY DEF Inv, Registry
    <3> QED BY <1>3, <1>14, <3>1
  <2> QED BY <1>1, <1>15, <2>1 DEF Inv, Registry
<1>21. Client'
  <2>1. \A s \in Sides : end'[s].expectContinue => end[s].expectContinue
    BY <1>2, <1>6, <1>8, <1>12 DEF p
  <2> QED BY <1>1, <1>7, <1>15, <2>1 DEF Inv, Client
<1>22. opened = TRUE /\ f.expectContinue = FALSE
  BY <1>2, <1>6, <1>8, <1>7 DEF TypeOK, End
<1> QED BY <1>1, <1>2, <1>3, <1>4, <1>5, <1>6, <1>8, <1>12, <1>14, <1>15, <1>16, <1>17, <1>18, <1>19,
           <1>20, <1>21, <1>22

LEMMA ServerReceivesInv ==
  ASSUME Inv, Receive("server")
  PROVE  Inv'
<1> DEFINE client == end["client"]
           server == end["server"]
           w == wire[current]["server"]
           o == Handle(server, Head(w))
           f == o.end
<1>1. /\ TypeOK' /\ NothingDiscardedEarly' /\ NoProtocolErrors' /\ RefusedOnlyIfEnded'
      /\ Counted' /\ Registry' /\ Client'
      /\ current \in Conns /\ w \in Seq(Message) /\ w # << >>
      /\ server \in End /\ client \in End
      /\ server.first <= client.nextIn /\ client.nextIn <= server.next
      /\ server.nextIn <= client.next
      /\ end'["server"] = f /\ end'["client"] = client /\ f.expectContinue = FALSE
      /\ wire'[current]["server"] = Tail(w)
      /\ wire'[current]["client"] = wire[current]["client"] \o o.replies
      /\ \A b \in Conns, s \in Sides : b # current => wire'[b][s] = wire[b][s]
      /\ Acceptable(w, server, client, server.expectContinue)
      /\ Acceptable(Tail(w), f, client, FALSE)
      /\ Complete(w, server, client, server.expectContinue) => Complete(Tail(w), f, client, FALSE)
      /\ opened = TRUE
      /\ UNCHANGED <<session, current, ready, clientState, clientConn, opened>>
  <2>1. "server" \in Sides /\ Peer("server") = "client" /\ Conn("server") = current
    BY DEF Sides, Peer, Conn
  <2> QED BY <2>1, ReceiveParts
<1>2. ready[current] = "open" /\ session # "none"
  BY DEF Receive, IsOpen, Conn
<1>3. /\ clientState \in {"connecting", "open"} => clientConn \in Conns
      /\ clientConn \in Conns => wire[clientConn]["client"] \in Seq(Message)
      /\ client.expectContinue \in BOOLEAN
  BY <1>1, Typed DEF Inv, Client, TypeOK, Sides, End
<1> HIDE DEF o, f
<1>4. \A v \in Seq(Message), awaited \in BOOLEAN :
        Acceptable(v, client, server, awaited) =>
          /\ Acceptable(v, client, f, awaited)
          /\ /\ Complete(w, server, client, server.expectContinue)
             /\ Complete(v, client, server, awaited)
             /\ awaited = client.expectContinue
             => /\ Acceptable(v \o o.replies, client, f, awaited)
                /\ Complete(v \o o.replies, client, f, awaited)
  BY <1>1, Exchanged DEF o, f
<1>5. clientState = "connecting" => ready[clientConn] # "open"
  <2>1. clientState = "connecting" /\ ready[clientConn] = "open" => w = << >>
    BY DEF Inv, Underway
  <2> QED BY <1>1, <2>1
<1>6. clientState = "connecting" /\ ready[clientConn] \in {"open", "closed"}
        => Acceptable(wire'[clientConn]["client"], client, f, opened)
  <2> SUFFICES ASSUME clientState = "connecting", ready[clientConn] \in {"open", "closed"}
               PROVE  Acceptable(wire'[clientConn]["client"], client, f, opened)
    OBVIOUS
  <2>1. clientConn # current /\ clientConn \in Conns
    BY <1>2, <1>3, <1>5
  <2>2. wire'[clientConn]["client"] = wire[clientConn]["client"]
    BY <1>1, <2>1 DEF Sides
  <2>3. Acceptable(wire[clientConn]["client"], client, server, opened)
    BY DEF Inv, Underway
  <2> QED BY <1>1, <1>3, <1>4, <2>1, <2>2, <2>3
<1>7. clientState = "open" =>
        /\ Acceptable(wire'[clientConn]["client"], client, f, client.expectContinue)
        /\ ready[clientConn] = "open" =>
             Complete(wire'[clientConn]["client"], client, f, client.expectContinue)
  <2> SUFFICES ASSUME clientState = "open"
               PROVE  /\ Acceptable(wire'[clientConn]["client"], client, f, client.expectContinue)
                      /\ ready[clientConn] = "open" =>
                           Complete(wire'[clientConn]["client"], client, f, client.expectContinue)
    OBVIOUS
  <2>1. /\ Acceptable(wire[clientConn]["client"], client, server, client.expectContinue)
        /\ ready[clientConn] = "open" =>
             /\ Complete(wire[clientConn]["client"], client, server, client.expectContinue)
             /\ Complete(w, server, client, server.expectContinue)
    BY DEF Inv, Underway
  <2>2. CASE clientConn = current
    BY <1>1, <1>2, <1>3, <1>4, <2>1, <2>2
  <2>3. CASE clientConn # current
    <3>1. ready[clientConn] # "open"
      BY <1>3, <2>3 DEF Inv, Registry
    <3>2. wire'[clientConn]["client"] = wire[clientConn]["client"]
      BY <1>1, <1>3, <2>3 DEF Sides
    <3> QED BY <1>3, <1>4, <2>1, <3>1, <3>2
  <2> QED BY <2>2, <2>3
<1>8. clientState = "open" /\ ready[clientConn] = "open" => Complete(Tail(w), f, client, FALSE)
  BY <1>1 DEF Inv, Underway
<1>9. Underway'
  BY <1>1, <1>5, <1>6, <1>7, <1>8 DEF Underway
<1> QED BY <1>1, <1>9 DEF Inv

LEMMA ClientReceivesInv ==
  ASSUME Inv, Receive("client")
  PROVE  Inv'
<1> DEFINE client == end["client"]
           server == end["server"]
           w == wire[clientConn]["client"]
           o == Handle(client, Head(w))
           f == o.end
<1>1. /\ TypeOK' /\ NothingDiscardedEarly' /\ NoProtocolErrors' /\ RefusedOnlyIfEnded'
      /\ Counted' /\ Registry' /\ Client'
      /\ clientConn \in Conns /\ w \in Seq(Message) /\ w # << >>
      /\ server \in End /\ client \in End
      /\ client.first <= server.nextIn /\ server.nextIn <= client.next
      /\ client.nextIn <= server.next
      /\ end'["client"] = f /\ end'["server"] = server /\ f.expectContinue = FALSE
      /\ wire'[clientConn]["client"] = Tail(w)
      /\ wire'[clientConn]["server"] = wire[clientConn]["server"] \o o.replies
      /\ \A b \in Conns, s \in Sides : b # clientConn => wire'[b][s] = wire[b][s]
      /\ Acceptable(w, client, server, client.expectContinue)
      /\ Acceptable(Tail(w), f, server, FALSE)
      /\ Complete(w, client, server, client.expectContinue) => Complete(Tail(w), f, server, FALSE)
      /\ opened = TRUE
      /\ UNCHANGED <<session, current, ready, clientState, clientConn, opened>>
  <2>1. "client" \in Sides /\ Peer("client") = "server" /\ Conn("client") = clientConn
    BY DEF Sides, Peer, Conn
  <2> QED BY <2>1, ReceiveParts
<1>2. clientState = "open"
  BY DEF Receive, IsOpen
<1>3. /\ session # "none" => current \in Conns
      /\ current \in Conns => wire[current]["server"] \in Seq(Message)
      /\ server.expectContinue \in BOOLEAN
      /\ ready[clientConn] = "open" => clientConn = current /\ session # "none"
  BY <1>1, Typed DEF Inv, Registry, Sides, End
<1> HIDE DEF o, f
<1>4. \A v \in Seq(Message), awaited \in BOOLEAN :
        Acceptable(v, server, client, awaited) =>
          /\ Acceptable(v, server, f, awaited)
          /\ /\ Complete(w, client, server, client.expectContinue)
             /\ Complete(v, server, client, awaited)
             /\ awaited = server.expectContinue
             => /\ Acceptable(v \o o.replies, server, f, awaited)
                /\ Complete(v \o o.replies, server, f, awaited)
  BY <1>1, Exchanged DEF o, f
<1>5. session # "none" /\ ready[current] = "open" =>
        /\ Acceptable(wire'[current]["server"], server, f, server.expectContinue)
        /\ clientConn = current =>
             Complete(wire'[current]["server"], server, f, server.expectContinue)
  <2> SUFFICES ASSUME session # "none", ready[current] = "open"
               PROVE  /\ Acceptable(wire'[current]["server"], server, f, server.expectContinue)
                      /\ clientConn = current =>
                           Complete(wire'[current]["server"], server, f, server.expectContinue)
    OBVIOUS
  <2>1. /\ Acceptable(wire[current]["server"], server, client, server.expectContinue)
        /\ clientConn = current =>
             /\ Complete(wire[current]["server"], server, client, server.expectContinue)
             /\ Complete(w, client, server, client.expectContinue)
    BY <1>2 DEF Inv, Underway
  <2>2. CASE clientConn = current
    BY <1>1, <1>3, <1>4, <2>1, <2>2
  <2>3. CASE clientConn # current
    <3>1. wire'[current]["server"] = wire[current]["server"]
      BY <1>1, <1>3, <2>3 DEF Sides
    <3> QED BY <1>3, <1>4, <2>1, <2>3, <3>1
  <2> QED BY <2>2, <2>3
<1>6. ready[clientConn] = "open" => Complete(Tail(w), f, server, FALSE)
  BY <1>1, <1>2 DEF Inv, Underway
<1>7. Underway'
  BY <1>1, <1>2, <1>3, <1>5, <1>6 DEF Underway
<1> QED BY <1>1, <1>7 DEF Inv

-----------------------------------------------------------------------------
(* The theorems                                                            *)

LEMMA RobustifyInv ==
  ASSUME Inv, NEW c \in Conns, Robustify(c)
  PROVE  Inv'
<1>1. url[c] # "none" /\ ready[c] = "none"
  BY DEF Robustify
<1>2. CASE Resume(c)
  BY <1>1, <1>2, ResumeInv
<1>3. CASE ResumeNascent(c)
  BY <1>1, <1>3, ResumeNascentInv
<1>4. CASE Create(c)
  BY <1>1, <1>4, CreateInv
<1>5. CASE Refuse(c)
  BY <1>1, <1>5, RefuseInv
<1> QED BY <1>2, <1>3, <1>4, <1>5 DEF Robustify

LEMMA StepInv == Inv /\ [Next]_vars => Inv'
<1> SUFFICES ASSUME Inv, [Next]_vars PROVE Inv'
  OBVIOUS
<1>1. ASSUME NEW c \in Conns, Robustify(c) PROVE Inv'
  BY <1>1, RobustifyInv
<1>2. ASSUME NEW c \in Conns, ServerDisconnects(c) PROVE Inv'
  BY <1>2, ServerDisconnectsInv
<1>3. ASSUME NEW c \in Conns, ClientConnects(c) PROVE Inv'
  BY <1>3, ClientConnectsInv
<1>4. CASE WithheldTimerFires
  BY <1>4, WithheldTimerFiresInv
<1>5. CASE ClientOpens
  BY <1>5, ClientOpensInv
<1>6. CASE ClientDisconnects
  BY <1>6, ClientDisconnectsInv
<1>7. CASE ClientRefused
  BY <1>7, ClientRefusedInv
<1>8. ASSUME NEW side \in Sides, Write(side) PROVE Inv'
  BY <1>8, WriteInv
<1>9. ASSUME NEW side \in Sides, SendAck(side) PROVE Inv'
  BY <1>9, SendAckInv
<1>10. ASSUME NEW side \in Sides, Receive(side) PROVE Inv'
  BY <1>10, ServerReceivesInv, ClientReceivesInv DEF Sides
<1>11. CASE UNCHANGED vars
  <2>1. UNCHANGED <<session, nascent, current, withheld, end, received, url, ready, wire,
                    clientState, clientConn, opened>>
    BY <1>11 DEF vars, sessionVars, linkVars, clientVars
  <2>2. TypeOK' /\ NothingDiscardedEarly' /\ NoProtocolErrors' /\ RefusedOnlyIfEnded' /\ Counted'
    BY <2>1 DEF Inv, TypeOK, NothingDiscardedEarly, NoProtocolErrors, RefusedOnlyIfEnded, Counted
  <2>3. Registry' /\ Client'
    BY <2>1 DEF Inv, Registry, Client
  <2>4. Underway'
    BY <2>1 DEF Inv, Underway
  <2> QED BY <2>2, <2>3, <2>4 DEF Inv
<1> QED BY <1>1, <1>2, <1>3, <1>4, <1>5, <1>6, <1>7, <1>8, <1>9, <1>10, <1>11 DEF Next

\* The registry, the two ends and what is on its way always agree: robustify
\* and the emit handler never see a message or a connection they would refuse,
\* unless the session has ended.
THEOREM InductiveInvariant == Spec => []Inv
BY InitInv, StepInv, PTL DEF Spec

\* The handlers of MessageBuffer and MessageReceiver: what has not arrived is
\* still buffered.
THEOREM BufferedUntilReceived == Spec => []NothingDiscardedEarly
<1>1. Inv => NothingDiscardedEarly
  BY DEF Inv
<1> QED BY <1>1, InductiveInvariant, PTL

\* "BAD_PROTOCOL" is never the outcome of a handshake, whatever breaks when.
THEOREM NoHandshakeFails == Spec => []NoProtocolErrors
<1>1. Inv => NoProtocolErrors
  BY DEF Inv
<1> QED BY <1>1, InductiveInvariant, PTL

\* "BAD_IDENTIFIER" is only the answer to a client whose session has ended.
THEOREM OnlyEndedSessionsRefuse == Spec => []RefusedOnlyIfEnded
<1>1. Inv => RefusedOnlyIfEnded
  BY DEF Inv
<1> QED BY <1>1, InductiveInvariant, PTL

\* The timer of the withheld events: it is cleared when a connection takes
\* over, so it never ends a session that is in use.
THEOREM EndedOnlyIfDisconnected == Spec => EndsOnlyIfDisconnected
<1>1. Inv /\ [Next]_vars =>
        [(session = "live" /\ session' = "ended") => ready[current] = "closed"]_vars
  <2> SUFFICES ASSUME Inv, Next, session = "live", session' = "ended"
               PROVE  ready[current] = "closed"
    OBVIOUS
  <2>1. WithheldTimerFires
    BY DEF Next, Robustify, Resume, ResumeNascent, Create, Refuse, ServerDisconnects,
           ClientConnects, ClientOpens, ClientDisconnects, ClientRefused, Write, SendAck,
           Receive, sessionVars
  <2> QED BY <2>1 DEF WithheldTimerFires, Inv, Registry
<1> QED BY <1>1, InductiveInvariant, PTL DEF Spec, EndsOnlyIfDisconnected

-----------------------------------------------------------------------------
(* The two streams                                                         *)

LEMMA InitStream == Init => Stream!Init
BY DEF Init, Stream!Init, Sides, Stream!Sides, NewEnd

\* What is not written, received or begun is none of the streams' business.
LEMMA Aside ==
  ASSUME TypeOK, received' = received,
         \A side \in Sides : end'[side].next = end[side].next
  PROVE  UNCHANGED Stream!vars
BY DEF Stream!vars

LEMMA WriteStream ==
  ASSUME Inv, NEW side \in Sides, Write(side)
  PROVE  Stream!Write(side)
<1>1. /\ end[side].next < MaxMessages[side] /\ received' = received
      /\ end' = [end EXCEPT ![side].next = @ + 1]
  BY DEF Write, MayWrite
<1>2. /\ end'[side].next = end[side].next + 1
      /\ \A s \in Sides : s # side => end'[s].next = end[s].next
  BY <1>1 DEF Inv, TypeOK
<1> QED BY <1>1, <1>2 DEF Stream!Write

LEMMA ReceiveStream ==
  ASSUME Inv, NEW side \in Sides, Receive(side)
  PROVE  UNCHANGED Stream!vars \/ Stream!Receive(side)
<1> DEFINE e == end[side]
           p == end[Peer(side)]
           w == wire[Conn(side)][side]
           o == Handle(e, Head(w))
           f == o.end
<1>1. /\ w \in Seq(Message) /\ w # << >> /\ e \in End /\ p \in End
      /\ e.first <= p.nextIn /\ p.nextIn <= e.next /\ e.nextIn <= p.next
      /\ end'[side] = f /\ end'[Peer(side)] = p
      /\ Acceptable(w, e, p, e.expectContinue)
  BY ReceiveParts
<1>2. /\ f.next = e.next /\ f.nextIn <= p.next
      /\ \/ TakesAck(e, f, o)
         \/ w[1].id <= p.nextIn /\ TakesContinue(e, f, o, w[1].id)
         \/ TakesData(e, f, o)
  BY <1>1, Taken
<1>3. received' = [received EXCEPT ![side] = @ \o o.data]
  BY DEF Receive
<1>4. /\ received \in [Sides -> Seq(Ids)] /\ Len(received[side]) = e.nextIn
      /\ Sides = {side, Peer(side)} /\ Peer(side) # side
      /\ e.nextIn \in Nat /\ p.next \in Nat
      /\ Stream!Peer(side) = Peer(side) /\ Peer(side) \in Sides
  BY <1>1 DEF Inv, TypeOK, Counted, Sides, Peer, Stream!Peer, End
<1> HIDE DEF w, o, f
<1>5. \A s \in Sides : end'[s].next = end[s].next
  BY <1>1, <1>2, <1>4
<1>6. CASE o.data = << >>
  <2>1. received[side] \o o.data = received[side]
    BY <1>4, <1>6
  <2>2. received' = received
    BY <1>3, <1>4, <2>1
  <2> QED BY <1>5, <2>2, Aside DEF Inv
<1>7. CASE f.nextIn = e.nextIn + 1 /\ o.data = <<e.nextIn>>
  <2>1. received[side] \o o.data = Append(received[side], Len(received[side]))
    BY <1>4, <1>7
  <2>2. received' = [received EXCEPT ![side] = Append(received[side], Len(received[side]))]
    BY <1>3, <2>1
  <2>3. Len(received[side]) < p.next
    BY <1>2, <1>4, <1>7
  <2> QED BY <1>4, <1>5, <2>2, <2>3 DEF Stream!Receive
<1> QED BY <1>2, <1>6, <1>7 DEF TakesAck, TakesContinue, TakesData

LEMMA CreateStream ==
  ASSUME Inv, NEW c \in Conns, url[c] # "none", ready[c] = "none", Create(c)
  PROVE  Stream!StartOver
<1>1. end["client"] = NewEnd /\ end["server"].nextIn = 0
  BY Unseen
<1>2. received' = received /\ end' = [end EXCEPT !["server"] = NewEnd]
  BY DEF Create
<1>3. \A side \in Sides : Len(received[side]) = 0 /\ received[side] \in Seq(Ids)
  BY <1>1 DEF Inv, TypeOK, Counted, Sides, NewEnd
<1>4. \A side \in Sides : received[side] = << >>
  BY <1>3, EmptySeq
<1>5. \A side \in Sides : end'[side].next = 0
  BY <1>1, <1>2 DEF Inv, TypeOK, Sides, NewEnd
<1> QED BY <1>2, <1>4, <1>5 DEF Stream!StartOver, Stream!Sides, Sides

LEMMA StepStream == Inv /\ [Next]_vars => [Stream!Next]_(Stream!vars)
<1> SUFFICES ASSUME Inv, [Next]_vars PROVE [Stream!Next]_(Stream!vars)
  OBVIOUS
<1>1. ASSUME NEW side \in Sides, Write(side) PROVE Stream!Next
  BY <1>1, WriteStream DEF Stream!Next, Stream!Sides, Sides
<1>2. ASSUME NEW side \in Sides, Receive(side) PROVE [Stream!Next]_(Stream!vars)
  <2>1. UNCHANGED Stream!vars \/ Stream!Receive(side)
    BY <1>2, ReceiveStream
  <2>2. side \in Stream!Sides
    BY DEF Stream!Sides, Sides
  <2> QED BY <2>1, <2>2 DEF Stream!Next
<1>3. ASSUME NEW c \in Conns, Robustify(c), Create(c) PROVE Stream!Next
  BY <1>3, CreateStream DEF Stream!Next, Robustify
<1>4. ASSUME received' = received, \A side \in Sides : end'[side].next = end[side].next
      PROVE  UNCHANGED Stream!vars
  BY <1>4, Aside DEF Inv
<1>5. ASSUME NEW c \in Conns, Resume(c) PROVE UNCHANGED Stream!vars
  BY <1>4, <1>5 DEF Resume, Inv, TypeOK, Sides
<1>6. CASE ClientOpens
  <2>1. end \in [Sides -> [first : Ids, next : Ids, nextIn : Ids,
                         ackDue : BOOLEAN, expectContinue : BOOLEAN]]
    BY DEF Inv, TypeOK
  <2>2. \A side \in Sides : end'[side].next = end[side].next
    BY <1>6, <2>1 DEF ClientOpens, Sides
  <2>3. received' = received
    BY <1>6 DEF ClientOpens
  <2> QED BY <1>4, <2>2, <2>3
<1>7. ASSUME NEW side \in Sides, SendAck(side) PROVE UNCHANGED Stream!vars
  BY <1>4, <1>7 DEF SendAck, Inv, TypeOK
<1>8. CASE end' = end /\ received' = received
  BY <1>4, <1>8
<1>9. ASSUME NEW c \in Conns, Robustify(c) PROVE [Stream!Next]_(Stream!vars)
  <2>1. CASE Create(c)
    BY <1>3, <1>9, <2>1
  <2>2. CASE Resume(c)
    BY <1>5, <2>2
  <2>3. CASE ResumeNascent(c) \/ Refuse(c)
    BY <1>8, <2>3 DEF ResumeNascent, Refuse
  <2> QED BY <1>9, <2>1, <2>2, <2>3 DEF Robustify
<1>10. ASSUME NEW c \in Conns, ServerDisconnects(c) \/ ClientConnects(c)
       PROVE  [Stream!Next]_(Stream!vars)
  <2>1. end' = end /\ received' = received
    BY <1>10 DEF ServerDisconnects, ClientConnects
  <2> QED BY <1>8, <2>1
<1>11. CASE WithheldTimerFires \/ ClientDisconnects \/ ClientRefused
  BY <1>8, <1>11 DEF WithheldTimerFires, ClientDisconnects, ClientRefused
<1>12. CASE UNCHANGED vars
  BY <1>8, <1>12 DEF vars
<1> QED BY <1>1, <1>2, <1>6, <1>7, <1>9, <1>10, <1>11, <1>12 DEF Next

\* "RobustConn": however its connections come and go, the layers above see two
\* streams of messages that lose, repeat and reorder nothing.
THEOREM StreamsAreReliable == Spec => ImplementsReliableStream
BY InitStream, StepStream, InductiveInvariant, PTL
DEF Spec, ImplementsReliableStream, Stream!Spec

=============================================================================
