------------------------- MODULE WireExchangeProofs -------------------------
(***************************************************************************)
(* Proofs about WireExchange for every set of request ids and of handles:  *)
(* what one side writes the other reads back, and what the application     *)
(* concludes from a reply is what the service did.                         *)
(***************************************************************************)
EXTENDS WireExchange, SequenceTheorems, TLAPS

-----------------------------------------------------------------------------
(* Sequences of fields *)

\* The elements of two sequences one after the other.
LEMMA TwoParts ==
  ASSUME NEW S, NEW s \in Seq(S), NEW t \in Seq(S)
  PROVE  /\ s \o t \in Seq(S)
         /\ Len(s \o t) = Len(s) + Len(t)
         /\ \A i \in 1 .. Len(s) : (s \o t)[i] = s[i]
         /\ \A i \in 1 .. Len(t) : (s \o t)[Len(s) + i] = t[i]
<1>1. Len(s) \in Nat /\ Len(t) \in Nat
  OBVIOUS
<1> QED
  BY <1>1, ConcatProperties

\* The fields of a body that is written in four parts.
LEMMA FourParts ==
  ASSUME NEW S, NEW a \in Seq(S), NEW b \in Seq(S), NEW c \in Seq(S), NEW d \in Seq(S),
         NEW s, s = a \o b \o c \o d
  PROVE  /\ Len(s) = Len(a) + Len(b) + Len(c) + Len(d)
         /\ \A i \in 1 .. Len(a) : s[i] = a[i]
         /\ \A i \in 1 .. Len(b) : s[Len(a) + i] = b[i]
         /\ \A i \in 1 .. Len(c) : s[Len(a) + Len(b) + i] = c[i]
         /\ \A i \in 1 .. Len(d) : s[Len(a) + Len(b) + Len(c) + i] = d[i]
<1> DEFINE ab == a \o b
           abc == ab \o c
<1>0. Len(a) \in Nat /\ Len(b) \in Nat /\ Len(c) \in Nat /\ Len(d) \in Nat
  OBVIOUS
<1>1. /\ ab \in Seq(S) /\ Len(ab) = Len(a) + Len(b)
      /\ \A i \in 1 .. Len(a) : ab[i] = a[i]
      /\ \A i \in 1 .. Len(b) : ab[Len(a) + i] = b[i]
  BY TwoParts
<1>a. ab \in Seq(S)
  BY <1>1
<1> HIDE DEF ab
<1>2. /\ abc \in Seq(S) /\ Len(abc) = Len(ab) + Len(c)
      /\ \A i \in 1 .. Len(ab) : abc[i] = ab[i]
      /\ \A i \in 1 .. Len(c) : abc[Len(ab) + i] = c[i]
  BY <1>a, TwoParts
<1>b. abc \in Seq(S)
  BY <1>2
<1> HIDE DEF abc
<1>c. s = abc \o d
  BY DEF ab, abc
<1>3. /\ Len(s) = Len(abc) + Len(d)
      /\ \A i \in 1 .. Len(abc) : s[i] = abc[i]
      /\ \A i \in 1 .. Len(d) : s[Len(abc) + i] = d[i]
  BY <1>b, <1>c, TwoParts
<1>4. \A i \in 1 .. Len(a) : s[i] = a[i]
  BY <1>0, <1>1, <1>2, <1>3
<1>5. \A i \in 1 .. Len(b) : s[Len(a) + i] = b[i]
  <2> SUFFICES ASSUME NEW i \in 1 .. Len(b) PROVE s[Len(a) + i] = b[i]
    OBVIOUS
  <2>1. Len(a) + i \in 1 .. Len(ab) /\ Len(a) + i \in 1 .. Len(abc)
    BY <1>0, <1>1, <1>2
  <2> QED
    BY <2>1, <1>1, <1>2, <1>3
<1>6. \A i \in 1 .. Len(c) : s[Len(a) + Len(b) + i] = c[i]
  <2> SUFFICES ASSUME NEW i \in 1 .. Len(c) PROVE s[Len(a) + Len(b) + i] = c[i]
    OBVIOUS
  <2>1. Len(a) + Len(b) + i = Len(ab) + i /\ Len(ab) + i \in 1 .. Len(abc)
    BY <1>0, <1>1, <1>2
  <2> QED
    BY <2>1, <1>2, <1>3
<1>7. \A i \in 1 .. Len(d) : s[Len(a) + Len(b) + Len(c) + i] = d[i]
  BY <1>0, <1>1, <1>2, <1>3
<1>8. Len(s) = Len(a) + Len(b) + Len(c) + Len(d)
  BY <1>0, <1>1, <1>2, <1>3
<1> QED
  BY <1>4, <1>5, <1>6, <1>7, <1>8

\* Short sequences one after the other.
LEMMA Joined ==
  /\ \A a : <<a>> \o <<>> = <<a>>
  /\ \A a, b : <<a>> \o <<b>> = <<a, b>> /\ <<a, b>> \o <<>> = <<a, b>>
  /\ \A a, b, c : /\ <<a, b>> \o <<c>> = <<a, b, c>> /\ <<a, b, c>> \o <<>> = <<a, b, c>>
                 /\ <<a>> \o <<b, c>> = <<a, b, c>>
  /\ \A a, b, c, d, e : /\ <<a>> \o <<b, c, d, e>> = <<a, b, c, d, e>>
                       /\ <<a, b, c>> \o <<d, e>> = <<a, b, c, d, e>>
<1>1. ASSUME NEW a
      PROVE  <<a>> \o <<>> = <<a>>
  <2>1. <<a>> \in Seq({a})
    OBVIOUS
  <2> QED
    BY <2>1, ConcatEmptySeq
<1>2. ASSUME NEW a, NEW b
      PROVE  <<a, b>> \o <<>> = <<a, b>>
  <2>1. <<a, b>> \in Seq({a, b})
    OBVIOUS
  <2> QED
    BY <2>1, ConcatEmptySeq
<1>3. ASSUME NEW a, NEW b, NEW c
      PROVE  <<a, b, c>> \o <<>> = <<a, b, c>>
  <2>1. <<a, b, c>> \in Seq({a, b, c})
    OBVIOUS
  <2> QED
    BY <2>1, ConcatEmptySeq
<1>4. ASSUME NEW a, NEW b
      PROVE  <<a>> \o <<b>> = <<a, b>>
  <2> DEFINE S == {a, b}
             s == <<a>> \o <<b>>
             t == <<a, b>>
  <2>1. <<a>> \in Seq(S) /\ <<b>> \in Seq(S) /\ t \in Seq(S)
    OBVIOUS
  <2> HIDE DEF S
  <2>2. /\ s \in Seq(S) /\ Len(s) = 2 /\ Len(t) = 2
        /\ s[1] = a /\ t[1] = a
        /\ s[2] = b /\ t[2] = b
    BY <2>1, ConcatProperties
  <2> HIDE DEF s, t
  <2>3. \A i \in 1 .. Len(s) : s[i] = t[i]
    BY <2>2
  <2>4. s = t
    BY <2>1, <2>2, <2>3, SeqEqual
  <2> QED
    BY <2>4 DEF s, t
<1>5. ASSUME NEW a, NEW b, NEW c
      PROVE  <<a, b>> \o <<c>> = <<a, b, c>>
  <2> DEFINE S == {a, b, c}
             s == <<a, b>> \o <<c>>
             t == <<a, b, c>>
  <2>1. <<a, b>> \in Seq(S) /\ <<c>> \in Seq(S) /\ t \in Seq(S)
    OBVIOUS
  <2> HIDE DEF S
  <2>2. /\ s \in Seq(S) /\ Len(s) = 3 /\ Len(t) = 3
        /\ s[1] = a /\ t[1] = a
        /\ s[2] = b /\ t[2] = b
        /\ s[3] = c /\ t[3] = c
    BY <2>1, ConcatProperties
  <2> HIDE DEF s, t
  <2>3. \A i \in 1 .. Len(s) : s[i] = t[i]
    BY <2>2
  <2>4. s = t
    BY <2>1, <2>2, <2>3, SeqEqual
  <2> QED
    BY <2>4 DEF s, t
<1>6. ASSUME NEW a, NEW b, NEW c
      PROVE  <<a>> \o <<b, c>> = <<a, b, c>>
  <2> DEFINE S == {a, b, c}
             s == <<a>> \o <<b, c>>
             t == <<a, b, c>>
  <2>1. <<a>> \in Seq(S) /\ <<b, c>> \in Seq(S) /\ t \in Seq(S)
    OBVIOUS
  <2> HIDE DEF S
  <2>2. /\ s \in Seq(S) /\ Len(s) = 3 /\ Len(t) = 3
        /\ s[1] = a /\ t[1] = a
        /\ s[2] = b /\ t[2] = b
        /\ s[3] = c /\ t[3] = c
    BY <2>1, ConcatProperties
  <2> HIDE DEF s, t
  <2>3. \A i \in 1 .. Len(s) : s[i] = t[i]
    BY <2>2
  <2>4. s = t
    BY <2>1, <2>2, <2>3, SeqEqual
  <2> QED
    BY <2>4 DEF s, t
<1>7. ASSUME NEW a, NEW b, NEW c, NEW d, NEW e
      PROVE  <<a>> \o <<b, c, d, e>> = <<a, b, c, d, e>>
  <2> DEFINE S == {a, b, c, d, e}
             s == <<a>> \o <<b, c, d, e>>
             t == <<a, b, c, d, e>>
  <2>1. <<a>> \in Seq(S) /\ <<b, c, d, e>> \in Seq(S) /\ t \in Seq(S)
    OBVIOUS
  <2> HIDE DEF S
  <2>2. /\ s \in Seq(S) /\ Len(s) = 5 /\ Len(t) = 5
        /\ s[1] = a /\ t[1] = a
        /\ s[2] = b /\ t[2] = b
        /\ s[3] = c /\ t[3] = c
        /\ s[4] = d /\ t[4] = d
        /\ s[5] = e /\ t[5] = e
    BY <2>1, ConcatProperties
  <2> HIDE DEF s, t
  <2>3. \A i \in 1 .. Len(s) : s[i] = t[i]
    BY <2>2
  <2>4. s = t
    BY <2>1, <2>2, <2>3, SeqEqual
  <2> QED
    BY <2>4 DEF s, t
<1>8. ASSUME NEW a, NEW b, NEW c, NEW d, NEW e
      PROVE  <<a, b, c>> \o <<d, e>> = <<a, b, c, d, e>>
  <2> DEFINE S == {a, b, c, d, e}
             s == <<a, b, c>> \o <<d, e>>
             t == <<a, b, c, d, e>>
  <2>1. <<a, b, c>> \in Seq(S) /\ <<d, e>> \in Seq(S) /\ t \in Seq(S)
    OBVIOUS
  <2> HIDE DEF S
  <2>2. /\ s \in Seq(S) /\ Len(s) = 5 /\ Len(t) = 5
        /\ s[1] = a /\ t[1] = a
        /\ s[2] = b /\ t[2] = b
        /\ s[3] = c /\ t[3] = c
        /\ s[4] = d /\ t[4] = d
        /\ s[5] = e /\ t[5] = e
    BY <2>1, ConcatProperties
  <2> HIDE DEF s, t
  <2>3. \A i \in 1 .. Len(s) : s[i] = t[i]
    BY <2>2
  <2>4. s = t
    BY <2>1, <2>2, <2>3, SeqEqual
  <2> QED
    BY <2>4 DEF s, t
<1> QED
  BY <1>1, <1>2, <1>3, <1>4, <1>5, <1>6, <1>7, <1>8

-----------------------------------------------------------------------------
(* Replies *)

\* phase_byte numbers the phases from 0.
LEMMA PhaseBytes ==
  ASSUME NEW p \in Phases
  PROVE  PhaseByte(p) \in 0 .. 9 /\ RustPhases[PhaseByte(p) + 1] = p
<1>1. \E n \in DOMAIN RustPhases : RustPhases[n] = p
  BY DEF RustPhases, Phases, TransientPhases, FailurePhases
<1>2. DOMAIN RustPhases = 1 .. 10
  BY DEF RustPhases
<1> HIDE DEF RustPhases
<1> DEFINE n == CHOOSE n \in DOMAIN RustPhases : RustPhases[n] = p
<1>3. n \in DOMAIN RustPhases /\ RustPhases[n] = p
  BY <1>1
<1>4. PhaseByte(p) = n - 1
  BY DEF PhaseByte
<1> HIDE DEF n
<1> QED
  BY <1>2, <1>3, <1>4

\* Where the fields of a response are: n is what its first option takes.
LEMMA ResponseFields ==
  ASSUME NEW e, e.counters \in {None, "counters", "handshake"}
  PROVE  LET f == Response(e)
             b == f.body
             n == IF e.profile = NoHandle THEN 1 ELSE 2
         IN  /\ f.magic = "KVPN" /\ f.version = 4 /\ f.opcode = 129 /\ f.reserved = 0
             /\ f.length = Len(b)
             /\ b[1] = e.id /\ b[2] = PhaseByte(e.phase)
             /\ b[3] = n - 1 /\ (n = 2 => b[4] = e.profile)
             /\ b[n + 4] = e.code
             /\ b[n + 5] = (IF e.counters = None THEN 0 ELSE 1)
             /\ e.counters # None => b[n + 8] = IF e.counters = "handshake" THEN 1 ELSE 0
             /\ Len(b) = n + 4 + (IF e.counters = None THEN 1
                                  ELSE IF e.counters = "handshake" THEN 5 ELSE 4)
<1> DEFINE S == {e.id, PhaseByte(e.phase), 0, 1, e.profile, e.code, "received", "sent",
                 "handshake"}
           head == <<e.id, PhaseByte(e.phase)>>
           profile == IF e.profile = NoHandle THEN <<0>> ELSE <<1, e.profile>>
           code == <<0, e.code>>
           last == IF e.counters = "handshake" THEN <<1, "handshake">> ELSE <<0>>
           counters == IF e.counters = None THEN <<0>>
                       ELSE <<1, "received", "sent">> \o last
<1>1. /\ head \in Seq(S) /\ Len(head) = 2 /\ head[1] = e.id /\ head[2] = PhaseByte(e.phase)
      /\ code \in Seq(S) /\ Len(code) = 2 /\ code[2] = e.code
  OBVIOUS
<1>2. /\ profile \in Seq(S)
      /\ e.profile = NoHandle => Len(profile) = 1 /\ profile[1] = 0
      /\ e.profile # NoHandle => Len(profile) = 2 /\ profile[1] = 1 /\ profile[2] = e.profile
  <2>1. <<0>> \in Seq(S) /\ <<1, e.profile>> \in Seq(S)
    OBVIOUS
  <2> HIDE DEF S
  <2> QED
    BY <2>1
<1>3. /\ last \in Seq(S) /\ Len(last) \in {1, 2}
      /\ e.counters = "handshake" => Len(last) = 2 /\ last[1] = 1
      /\ e.counters # "handshake" => Len(last) = 1 /\ last[1] = 0
  <2>1. <<0>> \in Seq(S) /\ <<1, "handshake">> \in Seq(S)
    OBVIOUS
  <2> HIDE DEF S
  <2> QED
    BY <2>1
<1> DEFINE three == <<1, "received", "sent">>
<1>4. three \in Seq(S) /\ Len(three) = 3 /\ three[1] = 1 /\ <<0>> \in Seq(S)
  OBVIOUS
<1>a. last \in Seq(S) /\ three \in Seq(S)
  BY <1>3, <1>4
<1> HIDE DEF last, three
<1>5. /\ three \o last \in Seq(S) /\ Len(three \o last) = 3 + Len(last)
      /\ (three \o last)[1] = 1 /\ (three \o last)[4] = last[1]
  <2> HIDE DEF S
  <2>1. /\ three \o last \in Seq(S) /\ Len(three \o last) = Len(three) + Len(last)
        /\ \A i \in 1 .. Len(three) : (three \o last)[i] = three[i]
        /\ \A i \in 1 .. Len(last) : (three \o last)[Len(three) + i] = last[i]
    BY <1>a, TwoParts
  <2>2. 1 \in 1 .. Len(three) /\ 1 \in 1 .. Len(last)
    BY <1>3, <1>4
  <2> QED
    BY <1>3, <1>4, <2>1, <2>2
<1>6. /\ counters \in Seq(S)
      /\ e.counters = None => Len(counters) = 1 /\ counters[1] = 0
      /\ e.counters # None =>
           Len(counters) = 3 + Len(last) /\ counters[1] = 1 /\ counters[4] = last[1]
  <2> HIDE DEF S
  <2>1. CASE e.counters = None
    BY <1>4, <2>1
  <2>2. CASE e.counters # None
    <3>1. counters = three \o last
      BY <2>2 DEF three, last
    <3> QED
      BY <1>5, <2>2, <3>1
  <2> QED
    BY <2>1, <2>2
<1> DEFINE b == head \o profile \o code \o counters
<1>7. /\ Response(e).magic = "KVPN" /\ Response(e).version = 4
      /\ Response(e).opcode = 129 /\ Response(e).reserved = 0
      /\ Response(e).body = b /\ Response(e).length = Len(b)
  <2>1. Response(e) = Frame(129, b)
    BY DEF Response, last
  <2> HIDE DEF b
  <2> QED
    BY <2>1 DEF Frame
<1>b. head \in Seq(S) /\ profile \in Seq(S) /\ code \in Seq(S) /\ counters \in Seq(S)
  BY <1>1, <1>2, <1>6
<1> HIDE DEF head, profile, code, counters, S
<1>8. /\ Len(b) = Len(head) + Len(profile) + Len(code) + Len(counters)
      /\ \A i \in 1 .. Len(head) : b[i] = head[i]
      /\ \A i \in 1 .. Len(profile) : b[Len(head) + i] = profile[i]
      /\ \A i \in 1 .. Len(code) : b[Len(head) + Len(profile) + i] = code[i]
      /\ \A i \in 1 .. Len(counters) :
           b[Len(head) + Len(profile) + Len(code) + i] = counters[i]
  <2>1. b = head \o profile \o code \o counters
    OBVIOUS
  <2> HIDE DEF b
  <2> QED
    BY <1>b, <2>1, FourParts, SMTT(30)
<1> HIDE DEF b
<1> DEFINE n == IF e.profile = NoHandle THEN 1 ELSE 2
<1>9. /\ n \in {1, 2} /\ Len(profile) = n /\ profile[1] = n - 1
      /\ n = 2 => profile[2] = e.profile
  BY <1>2
<1> HIDE DEF n
<1>10. b[1] = e.id /\ b[2] = PhaseByte(e.phase)
  BY <1>1, <1>8
<1>11. b[3] = n - 1 /\ (n = 2 => b[4] = e.profile)
  <2>1. 1 \in 1 .. Len(profile) /\ (n = 2 => 2 \in 1 .. Len(profile))
    BY <1>9
  <2>2. b[Len(head) + 1] = profile[1] /\ (n = 2 => b[Len(head) + 2] = profile[2])
    BY <1>8, <2>1
  <2> QED
    BY <1>1, <1>9, <2>2
<1>12. b[n + 4] = e.code
  <2>1. 2 \in 1 .. Len(code) /\ Len(head) + Len(profile) + 2 = n + 4
    BY <1>1, <1>9
  <2> QED
    BY <1>1, <1>8, <2>1
<1>13. b[n + 5] = counters[1] /\ (e.counters # None => b[n + 8] = counters[4])
  <2>1. /\ 1 \in 1 .. Len(counters) /\ (e.counters # None => 4 \in 1 .. Len(counters))
        /\ Len(head) + Len(profile) + Len(code) + 1 = n + 5
        /\ Len(head) + Len(profile) + Len(code) + 4 = n + 8
    BY <1>1, <1>3, <1>6, <1>9
  <2> QED
    BY <1>8, <2>1
<1>14. Len(b) = n + 4 + Len(counters)
  BY <1>1, <1>6, <1>8, <1>9
<1>15. /\ b[n + 5] = (IF e.counters = None THEN 0 ELSE 1)
       /\ e.counters # None => b[n + 8] = IF e.counters = "handshake" THEN 1 ELSE 0
       /\ Len(counters) = (IF e.counters = None THEN 1
                           ELSE IF e.counters = "handshake" THEN 5 ELSE 4)
  <2>1. "handshake" # None
    BY DEF None
  <2>2. CASE e.counters = None
    BY <1>6, <1>13, <2>1, <2>2
  <2>3. CASE e.counters = "handshake"
    <3>1. Len(last) = 2 /\ last[1] = 1 /\ e.counters # None
      BY <1>3, <2>1, <2>3
    <3> QED
      BY <1>6, <1>13, <2>3, <3>1
  <2>4. CASE e.counters \notin {None, "handshake"}
    <3>1. Len(last) = 1 /\ last[1] = 0 /\ e.counters # None /\ e.counters # "handshake"
      BY <1>3, <2>4
    <3> QED
      BY <1>6, <1>13, <3>1
  <2> QED
    BY <2>2, <2>3, <2>4
<1> QED
  BY <1>7, <1>10, <1>11, <1>12, <1>14, <1>15 DEF n

\* What Rust writes of a reply is what both languages read of it, unless they
\* expect another id.
LEMMA ReadBack ==
  ASSUME NEW e, e.phase \in Phases, e.counters \in {None, "counters", "handshake"},
         NEW ids
  PROVE  /\ e.id \in ids =>
              Read(Response(e), RustPhases, ids) =
                [id |-> e.id, phase |-> e.phase, profile |-> e.profile, code |-> e.code,
                 counters |-> e.counters]
         /\ e.id \notin ids => Read(Response(e), RustPhases, ids) = [id |-> None]
<1> DEFINE f == Response(e)
           b == f.body
           n == IF e.profile = NoHandle THEN 1 ELSE 2
<1>1. /\ f.magic = "KVPN" /\ f.version = 4 /\ f.opcode = 129 /\ f.reserved = 0
      /\ f.length = Len(b)
      /\ b[1] = e.id /\ b[2] = PhaseByte(e.phase)
      /\ b[3] = n - 1 /\ (n = 2 => b[4] = e.profile)
      /\ b[n + 4] = e.code
      /\ b[n + 5] = (IF e.counters = None THEN 0 ELSE 1)
      /\ e.counters # None => b[n + 8] = IF e.counters = "handshake" THEN 1 ELSE 0
      /\ Len(b) = n + 4 + (IF e.counters = None THEN 1
                           ELSE IF e.counters = "handshake" THEN 5 ELSE 4)
  BY ResponseFields
<1>2. n \in {1, 2} /\ (n = 1 <=> e.profile = NoHandle)
  OBVIOUS
<1>3. PhaseByte(e.phase) \in 0 .. 9 /\ RustPhases[PhaseByte(e.phase) + 1] = e.phase
  BY PhaseBytes
<1> HIDE DEF f, n
<1>4. HeaderAccepted(f)
  BY <1>1 DEF HeaderAccepted
<1>5. Len(RustPhases) = 10
  BY DEF RustPhases
<1>6. (HasProfile(b) <=> n = 2) /\ AfterProfile(b) = n + 2
  BY <1>1, <1>2 DEF HasProfile, AfterProfile
<1>7. /\ HasCounters(b) <=> e.counters # None
      /\ HasHandshake(b) <=> e.counters = "handshake"
  <2>1. AfterProfile(b) + 3 = n + 5 /\ AfterProfile(b) + 6 = n + 8
    BY <1>2, <1>6
  <2>2. /\ b[n + 5] = (IF e.counters = None THEN 0 ELSE 1)
        /\ e.counters # None => b[n + 8] = IF e.counters = "handshake" THEN 1 ELSE 0
    BY <1>1
  <2> HIDE DEF b
  <2>3. HasCounters(b) <=> e.counters # None
    BY <2>1, <2>2 DEF HasCounters
  <2>4. HasHandshake(b) <=> e.counters # None /\ b[n + 8] = 1
    BY <2>1, <2>3 DEF HasHandshake
  <2>5. CASE e.counters = None
    BY <2>3, <2>4, <2>5 DEF None
  <2>6. CASE e.counters # None
    BY <2>2, <2>3, <2>4, <2>6
  <2> QED
    BY <2>5, <2>6
<1>8. Fields(b) = Len(b)
  BY <1>1, <1>2, <1>6, <1>7 DEF Fields, None
<1>9. b[2] < Len(RustPhases) /\ RustPhases[b[2] + 1] = e.phase
  BY <1>1, <1>3, <1>5
<1>10. b[AfterProfile(b) + 2] = e.code /\ (IF HasProfile(b) THEN b[4] ELSE NoHandle) = e.profile
  <2>1. AfterProfile(b) + 2 = n + 4
    BY <1>2, <1>6
  <2>2. CASE n = 1
    BY <1>1, <1>2, <1>6, <2>1, <2>2
  <2>3. CASE n = 2
    BY <1>1, <1>6, <2>1, <2>3
  <2> QED
    BY <1>2, <2>2, <2>3
<1>11. (IF ~HasCounters(b) THEN None ELSE IF HasHandshake(b) THEN "handshake" ELSE "counters")
         = e.counters
  BY <1>7
<1>12. f.opcode = 129 /\ b[1] = e.id
  BY <1>1
<1> HIDE DEF b
<1> QED
  BY <1>4, <1>8, <1>9, <1>10, <1>11, <1>12 DEF Read, f, b

-----------------------------------------------------------------------------
(* Requests *)

\* The fields that both languages write behind the header.
LEMMA BodiesAre ==
  ASSUME NEW r \in Requests
  PROVE  LET body == CASE r.op \in {"status", "statistics"} -> <<r.id>>
                       [] r.op = "disconnect" -> <<r.id, "operation">>
                       [] r.op = "delete" -> <<r.id, "operation", r.handle>>
                       [] r.op = "connect" ->
                            <<r.id, "operation", r.handle, DartProtocol[r.protocol], 0>>
                       [] OTHER -> <<r.id, "operation", [valid |-> r.valid]>>
         IN  DartBody(r) = body /\ RustFrame(r) = Frame(DartOpcode(r), body)
<1> DEFINE number == DartProtocol[r.protocol]
           opcode == IF r.op = "import"
                     THEN [WireGuard |-> 5, AmneziaWg |-> 8, VlessReality |-> 9][r.protocol]
                     ELSE [status |-> 1, connect |-> 2, disconnect |-> 3, delete |-> 6,
                           statistics |-> 7][r.op]
<1>1. /\ r.op \in {"status", "connect", "disconnect", "statistics", "delete", "import"}
      /\ r.protocol \in {"WireGuard", "AmneziaWg", "VlessReality"}
  BY DEF Requests, Operations, Protocols
<1>2. opcode = DartOpcode(r)
  BY <1>1 DEF DartOpcode
<1>3. number = [WireGuard |-> 1, AmneziaWg |-> 2, VlessReality |-> 3][r.protocol]
  BY DEF DartProtocol
<1> HIDE DEF number, opcode
<1>4. CASE r.op \in {"status", "statistics"}
  <2>1. DartBody(r) = <<r.id>> \o <<>>
    BY <1>4 DEF DartBody
  <2>2. RustFrame(r) = Frame(opcode, <<r.id>> \o <<>> \o <<>> \o <<>>)
    BY <1>4 DEF RustFrame, opcode
  <2> QED
    BY <1>2, <1>4, <2>1, <2>2, Joined
<1>5. CASE r.op = "disconnect"
  <2>1. DartBody(r) = <<r.id>> \o <<"operation">>
    BY <1>5 DEF DartBody
  <2>2. RustFrame(r) = Frame(opcode, <<r.id>> \o <<"operation">> \o <<>> \o <<>>)
    BY <1>5 DEF RustFrame, opcode
  <2>3. /\ <<r.id>> \o <<"operation">> = <<r.id, "operation">>
        /\ <<r.id, "operation">> \o <<>> = <<r.id, "operation">>
    BY Joined
  <2> QED
    BY <1>2, <1>5, <2>1, <2>2, <2>3
<1>6. CASE r.op = "delete"
  <2>1. DartBody(r) = <<r.id>> \o <<"operation", r.handle>>
    BY <1>6 DEF DartBody
  <2>2. RustFrame(r) = Frame(opcode, <<r.id>> \o <<"operation">> \o <<r.handle>> \o <<>>)
    BY <1>6 DEF RustFrame, opcode
  <2>3. /\ <<r.id>> \o <<"operation">> = <<r.id, "operation">>
        /\ <<r.id, "operation">> \o <<r.handle>> = <<r.id, "operation", r.handle>>
        /\ <<r.id, "operation", r.handle>> \o <<>> = <<r.id, "operation", r.handle>>
        /\ <<r.id>> \o <<"operation", r.handle>> = <<r.id, "operation", r.handle>>
    BY Joined
  <2> QED
    BY <1>2, <1>6, <2>1, <2>2, <2>3
<1>7. CASE r.op = "connect"
  <2>1. DartBody(r) = <<r.id>> \o <<"operation", r.handle, number, 0>>
    BY <1>7 DEF DartBody, number
  <2>2. RustFrame(r) =
          Frame(opcode, <<r.id>> \o <<"operation">> \o <<r.handle>> \o <<number, 0>>)
    BY <1>3, <1>7 DEF RustFrame, opcode
  <2>3. /\ <<r.id>> \o <<"operation">> = <<r.id, "operation">>
        /\ <<r.id, "operation">> \o <<r.handle>> = <<r.id, "operation", r.handle>>
        /\ <<r.id, "operation", r.handle>> \o <<number, 0>>
             = <<r.id, "operation", r.handle, number, 0>>
        /\ <<r.id>> \o <<"operation", r.handle, number, 0>>
             = <<r.id, "operation", r.handle, number, 0>>
    BY Joined
  <2> QED
    BY <1>2, <1>7, <2>1, <2>2, <2>3 DEF number
<1>8. CASE r.op = "import"
  <2>1. DartBody(r) = <<r.id>> \o <<"operation", [valid |-> r.valid]>>
    BY <1>8 DEF DartBody
  <2>2. RustFrame(r) =
          Frame(opcode, <<r.id>> \o <<"operation">> \o <<>> \o <<[valid |-> r.valid]>>)
    BY <1>8 DEF RustFrame, opcode
  <2>3. /\ <<r.id>> \o <<"operation">> = <<r.id, "operation">>
        /\ <<r.id, "operation">> \o <<>> = <<r.id, "operation">>
        /\ <<r.id, "operation">> \o <<[valid |-> r.valid]>>
             = <<r.id, "operation", [valid |-> r.valid]>>
        /\ <<r.id>> \o <<"operation", [valid |-> r.valid]>>
             = <<r.id, "operation", [valid |-> r.valid]>>
    BY Joined
  <2> QED
    BY <1>2, <1>8, <2>1, <2>2, <2>3
<1> QED
  BY <1>1, <1>4, <1>5, <1>6, <1>7, <1>8

\* The command a request means.
Meant(r) ==
  CASE r.op = "connect" ->
         [op |-> "connect", id |-> r.id, handle |-> r.handle, protocol |-> r.protocol]
    [] r.op = "delete" -> [op |-> "delete", id |-> r.id, handle |-> r.handle]
    [] r.op = "import" -> [op |-> "import", id |-> r.id, protocol |-> r.protocol]
    [] OTHER -> [op |-> r.op, id |-> r.id]

\* The service decodes what the application has asked for, and refuses an import
\* whose profile is not valid.
LEMMA DecodedAsMeant ==
  ASSUME NEW r \in Requests
  PROVE  /\ r.op = "import" /\ ~r.valid =>
              Decoded(Frame(DartOpcode(r), DartBody(r))) = [op |-> None]
         /\ r.op # "import" \/ r.valid =>
              Decoded(Frame(DartOpcode(r), DartBody(r))) = Meant(r)
<1> DEFINE f == Frame(DartOpcode(r), DartBody(r))
           b == DartBody(r)
<1>1. /\ r.op \in {"status", "connect", "disconnect", "statistics", "delete", "import"}
      /\ r.protocol \in {"WireGuard", "AmneziaWg", "VlessReality"}
      /\ r.valid \in BOOLEAN
  BY DEF Requests, Operations, Protocols
<1>2. HeaderAccepted(f) /\ f.body = b /\ f.opcode = DartOpcode(r)
  BY DEF HeaderAccepted, Frame
<1> HIDE DEF f
<1>3. CASE r.op \in {"status", "statistics"}
  <2>1. b = <<r.id>>
    BY <1>3, BodiesAre
  <2>2. RustCommand(f.opcode) = [op |-> r.op, fields |-> 1]
    BY <1>2, <1>3 DEF DartOpcode, RustCommand
  <2>3. Decoded(f) = [op |-> r.op, id |-> r.id]
    BY <1>2, <1>3, <2>1, <2>2 DEF Decoded, None
  <2> QED
    BY <1>3, <2>3 DEF Meant, f
<1>4. CASE r.op = "disconnect"
  <2>1. b = <<r.id, "operation">>
    BY <1>4, BodiesAre
  <2>2. RustCommand(f.opcode) = [op |-> "disconnect", fields |-> 2]
    BY <1>2, <1>4 DEF DartOpcode, RustCommand
  <2>3. Decoded(f) = [op |-> "disconnect", id |-> r.id]
    BY <1>2, <2>1, <2>2 DEF Decoded, None
  <2> QED
    BY <1>4, <2>3 DEF Meant, f
<1>5. CASE r.op = "delete"
  <2>1. b = <<r.id, "operation", r.handle>>
    BY <1>5, BodiesAre
  <2>2. RustCommand(f.opcode) = [op |-> "delete", fields |-> 3]
    BY <1>2, <1>5 DEF DartOpcode, RustCommand
  <2>3. Decoded(f) = [op |-> "delete", id |-> r.id, handle |-> r.handle]
    BY <1>2, <2>1, <2>2 DEF Decoded, None
  <2> QED
    BY <1>5, <2>3 DEF Meant, f
<1>6. CASE r.op = "connect"
  <2>1. b = <<r.id, "operation", r.handle, DartProtocol[r.protocol], 0>>
    BY <1>6, BodiesAre
  <2>2. RustCommand(f.opcode) = [op |-> "connect", fields |-> 5]
    BY <1>2, <1>6 DEF DartOpcode, RustCommand
  <2>3. /\ DartProtocol[r.protocol] \in DOMAIN RustProtocol
        /\ RustProtocol[DartProtocol[r.protocol]] = r.protocol
    BY <1>1 DEF DartProtocol, RustProtocol
  <2>4. Len(b) = 5 /\ b[1] = r.id /\ b[3] = r.handle /\ b[4] = DartProtocol[r.protocol]
        /\ b[5] = 0
    BY <2>1
  <2> HIDE DEF b
  <2>5. Decoded(f) =
          [op |-> "connect", id |-> r.id, handle |-> r.handle, protocol |-> r.protocol]
    BY <1>2, <2>2, <2>3, <2>4 DEF Decoded, None
  <2> QED
    BY <1>6, <2>5 DEF Meant, f, b
<1>7. CASE r.op = "import"
  <2>1. b = <<r.id, "operation", [valid |-> r.valid]>>
    BY <1>7, BodiesAre
  <2>2. /\ RustCommand(f.opcode) = [op |-> "import", fields |-> 3]
        /\ ImportProtocol[f.opcode] = r.protocol
    BY <1>1, <1>2, <1>7 DEF DartOpcode, RustCommand, ImportProtocol
  <2>3. Len(b) = 3 /\ b[1] = r.id /\ b[3].valid = r.valid
    BY <2>1
  <2> HIDE DEF b
  <2>4. r.valid => Decoded(f) = [op |-> "import", id |-> r.id, protocol |-> r.protocol]
    BY <1>2, <2>2, <2>3 DEF Decoded, None
  <2>5. ~r.valid => Decoded(f) = [op |-> None]
    BY <1>2, <2>2, <2>3 DEF Decoded
  <2> QED
    BY <1>7, <2>4, <2>5 DEF Meant, f, b
<1> QED
  BY <1>1, <1>3, <1>4, <1>5, <1>6, <1>7

-----------------------------------------------------------------------------
(* What the service does for a request *)

\* d, which leaves the machine m and the vault v, is a result of request r.
Served(r, d, m, v) ==
  /\ d.machine = m /\ d.vault = v /\ d.ok \in BOOLEAN
  /\ r.op # "statistics" => d.counters = None
  /\ r.op # "import" => d.issued = NoHandle
  /\ r.op = "status" =>
       \/ ~d.ok
       \/ d.ok /\ d.code = "OK"
       \/ d.ok /\ d.code = "TUNNEL_STOPPED" /\ m = Idle
       \/ d.ok /\ d.code \in FailureCodes /\ IsFailure(m) /\ m.error = d.code
  /\ r.op = "connect" =>
       \/ ~d.ok
       \/ d.ok /\ d.code = "CONNECTED" /\ m.phase = "Connected"
       \/ d.ok /\ d.code \in FailureCodes /\ IsFailure(m) /\ m.error = d.code
  /\ r.op = "disconnect" => ~d.ok \/ (d.code = "DISCONNECTED" /\ m = Idle)
  /\ r.op = "statistics" =>
       \/ ~d.ok /\ d.code = "DUPLICATE_REQUEST" /\ d.counters = None
       \/ d.ok /\ d.code = "OK" /\ d.counters \in {"counters", "handshake"}
       \/ d.ok /\ d.code \in FailureCodes /\ d.counters = None
  /\ r.op = "import" =>
       \/ ~d.ok /\ d.code \in {"PROFILE_STORE_UNAVAILABLE", "INVALID_REQUEST",
                              "DUPLICATE_REQUEST"}
       \/ d.ok /\ d.code = "PROFILE_STORED" /\ d.issued \in v
  /\ r.op = "delete" =>
       \/ ~d.ok /\ d.code \in {"PROFILE_STORE_UNAVAILABLE", "DUPLICATE_REQUEST"}
       \/ ~d.ok /\ d.code = "PROFILE_NOT_FOUND" /\ r.handle \notin v
       \/ d.ok /\ d.code = "PROFILE_DELETED" /\ r.handle \notin v

\* No code of a success is one of a failure.
LEMMA CodesApart ==
  {"OK", "TUNNEL_STOPPED", "CONNECTED", "DISCONNECTED", "PROFILE_STORED",
   "PROFILE_DELETED", "PROFILE_NOT_FOUND"} \cap FailureCodes = {}
<1> SUFFICES ASSUME NEW f \in BackendFailures
             PROVE  FailureCode[f] \notin
                      {"OK", "TUNNEL_STOPPED", "CONNECTED", "DISCONNECTED", "PROFILE_STORED",
                       "PROFILE_DELETED", "PROFILE_NOT_FOUND"}
  BY DEF FailureCodes
<1> QED
  BY DEF BackendFailures, FailureCode

\* A failure leaves a machine that reports it.
LEMMA FailedMachine ==
  ASSUME NEW f \in BackendFailures
  PROVE  /\ FailureCode[f] \in FailureCodes
         /\ \A m \in Machines : /\ Fail(m, f) \in Machines /\ IsFailure(Fail(m, f))
                                /\ Fail(m, f).error = FailureCode[f]
<1>1. FailureCode[f] \in FailureCodes /\ FailurePhase(f) \in FailurePhases
  BY DEF BackendFailures, FailureCode, FailureCodes, FailurePhase, FailurePhases
<1>2. FailurePhases \subseteq Phases
  BY DEF Phases
<1> QED
  BY <1>1, <1>2 DEF Machines, Fail, IsFailure

\* The machines a connect goes through.
LEMMA ConnectedMachine ==
  ASSUME NEW h \in Handles
  PROVE  LET c == MarkValidated(BeginConnect(h))
         IN  /\ c \in Machines /\ MarkConnected(c) \in Machines
             /\ MarkConnected(c).phase = "Connected"
<1> DEFINE b == BeginConnect(h)
           c == MarkValidated(b)
<1>1. b \in Machines
  BY DEF BeginConnect, Idle, Machines, Phases, TransientPhases
<1>2. c \in Machines
  <2> HIDE DEF b
  <2> QED
    BY <1>1 DEF MarkValidated, Machines, Phases, TransientPhases
<1>3. MarkConnected(c) \in Machines /\ MarkConnected(c).phase = "Connected"
  <2> HIDE DEF c
  <2> QED
    BY <1>2 DEF MarkConnected, Machines, Phases
<1> QED
  BY <1>2, <1>3

\* Every result of a request serves it and leaves a machine and a vault.
LEMMA ExecutedServes ==
  ASSUME TypeOK, NEW r \in Requests, NEW d \in Executed(Meant(r))
  PROVE  /\ Served(r, d, d.machine, d.vault)
         /\ d.machine \in Machines /\ d.vault \subseteq Handles
<1>1. /\ r.op \in {"status", "connect", "disconnect", "statistics", "delete", "import"}
      /\ r.handle \in Handles /\ machine \in Machines /\ vault \subseteq Handles
  BY DEF Requests, Operations, TypeOK
<1>2. /\ Meant(r).op = r.op
      /\ r.op \in {"connect", "delete"} => Meant(r).handle = r.handle
  BY <1>1 DEF Meant
<1>3. Idle \in Machines
  BY DEF Idle, Machines, Phases
<1>4. \A f \in BackendFailures :
        /\ FailureCode[f] \in FailureCodes
        /\ \A m \in Machines : /\ Fail(m, f) \in Machines /\ IsFailure(Fail(m, f))
                               /\ Fail(m, f).error = FailureCode[f]
  BY FailedMachine
<1>5. CASE r.op = "status"
  <2>1. d \in StatusResults
    BY <1>2, <1>5 DEF Executed
  <2>2. CASE d = Keeps(TRUE, "OK")
    <3>1. /\ d.machine = machine /\ d.vault = vault /\ d.ok = TRUE
          /\ d.code = "OK" /\ d.issued = NoHandle /\ d.counters = None
      BY <2>2 DEF Keeps, Result
    <3> QED
      BY <1>1, <1>5, <3>1 DEF Served
  <2>3. CASE d = Result(Idle, vault, TRUE, "TUNNEL_STOPPED")
    <3>1. /\ d.machine = Idle /\ d.vault = vault /\ d.ok = TRUE
          /\ d.code = "TUNNEL_STOPPED" /\ d.issued = NoHandle /\ d.counters = None
      BY <2>3 DEF Result
    <3> QED
      BY <1>1, <1>3, <1>5, <3>1 DEF Served
  <2>4. ASSUME NEW f \in BackendFailures, d = Result(Fail(machine, f), vault, TRUE, FailureCode[f])
        PROVE  /\ Served(r, d, d.machine, d.vault)
               /\ d.machine \in Machines /\ d.vault \subseteq Handles
    <3>1. /\ d.machine = Fail(machine, f) /\ d.vault = vault /\ d.ok = TRUE
          /\ d.code = FailureCode[f] /\ d.issued = NoHandle /\ d.counters = None
      BY <2>4 DEF Result
    <3>2. /\ FailureCode[f] \in FailureCodes /\ Fail(machine, f) \in Machines
          /\ IsFailure(Fail(machine, f)) /\ Fail(machine, f).error = FailureCode[f]
      BY <1>1, <1>4
    <3> QED
      BY <1>1, <1>5, <3>1, <3>2 DEF Served
  <2> QED
    BY <2>1, <2>2, <2>3, <2>4 DEF StatusResults
<1>6. CASE r.op = "connect"
  <2> DEFINE c == MarkValidated(BeginConnect(r.handle))
  <2>1. d \in ConnectResults(r.handle)
    BY <1>2, <1>6 DEF Executed
  <2>2. \A f \in BackendFailures :
          /\ c \in Machines /\ MarkConnected(c) \in Machines
          /\ MarkConnected(c).phase = "Connected"
    BY <1>1, ConnectedMachine
  <2>3. "Internal" \in BackendFailures
    BY DEF BackendFailures
  <2> HIDE DEF c
  <2>4. ASSUME NEW code, d = Keeps(FALSE, code) \/ d = Result(c, vault, FALSE, code)
        PROVE  /\ Served(r, d, d.machine, d.vault)
               /\ d.machine \in Machines /\ d.vault \subseteq Handles
    <3>1. /\ d.machine \in {machine, c} /\ d.vault = vault /\ d.ok = FALSE
          /\ d.issued = NoHandle /\ d.counters = None
      BY <2>4 DEF Keeps, Result
    <3> QED
      BY <1>1, <1>6, <2>2, <2>3, <3>1 DEF Served
  <2>5. CASE d = Result(MarkConnected(c), vault, TRUE, "CONNECTED")
    <3>1. /\ d.machine = MarkConnected(c) /\ d.vault = vault /\ d.ok = TRUE
          /\ d.code = "CONNECTED" /\ d.issued = NoHandle /\ d.counters = None
      BY <2>5 DEF Result
    <3> QED
      BY <1>1, <1>6, <2>2, <2>3, <3>1 DEF Served
  <2>6. ASSUME NEW f \in BackendFailures, d = Result(Fail(c, f), vault, TRUE, FailureCode[f])
        PROVE  /\ Served(r, d, d.machine, d.vault)
               /\ d.machine \in Machines /\ d.vault \subseteq Handles
    <3>1. /\ d.machine = Fail(c, f) /\ d.vault = vault /\ d.ok = TRUE
          /\ d.code = FailureCode[f] /\ d.issued = NoHandle /\ d.counters = None
      BY <2>6 DEF Result
    <3>2. /\ FailureCode[f] \in FailureCodes /\ Fail(c, f) \in Machines
          /\ IsFailure(Fail(c, f)) /\ Fail(c, f).error = FailureCode[f]
      BY <1>4, <2>2
    <3> QED
      BY <1>1, <1>6, <3>1, <3>2 DEF Served
  <2> QED
    BY <2>1, <2>4, <2>5, <2>6 DEF ConnectResults, c
<1>7. CASE r.op = "disconnect"
  <2> DEFINE left == IF IsFailure(machine) THEN machine ELSE BeginDisconnect(machine)
  <2>1. d \in DisconnectResults
    BY <1>2, <1>7 DEF Executed
  <2>2. left \in Machines
    BY <1>1 DEF Machines, BeginDisconnect, Phases, TransientPhases
  <2> HIDE DEF left
  <2>3. CASE d = Keeps(FALSE, "BUSY") \/ d = Result(left, vault, FALSE, "PROFILE_STORE_UNAVAILABLE")
    <3>1. /\ d.machine \in {machine, left} /\ d.vault = vault /\ d.ok = FALSE
          /\ d.issued = NoHandle /\ d.counters = None
      BY <2>3 DEF Keeps, Result
    <3> QED
      BY <1>1, <1>7, <2>2, <3>1 DEF Served
  <2>4. CASE d = Result(Idle, vault, TRUE, "DISCONNECTED")
    <3>1. /\ d.machine = Idle /\ d.vault = vault /\ d.ok = TRUE
          /\ d.code = "DISCONNECTED" /\ d.issued = NoHandle /\ d.counters = None
      BY <2>4 DEF Result
    <3> QED
      BY <1>1, <1>3, <1>7, <3>1 DEF Served
  <2> QED
    BY <2>1, <2>3, <2>4 DEF DisconnectResults, left
<1>8. CASE r.op = "statistics"
  <2>1. d \in StatisticsResults
    BY <1>2, <1>8 DEF Executed
  <2>2. ASSUME NEW c \in {"counters", "handshake"}, d = [Keeps(TRUE, "OK") EXCEPT !.counters = c]
        PROVE  /\ Served(r, d, d.machine, d.vault)
               /\ d.machine \in Machines /\ d.vault \subseteq Handles
    <3>1. /\ d.machine = machine /\ d.vault = vault /\ d.ok = TRUE
          /\ d.code = "OK" /\ d.issued = NoHandle /\ d.counters = c
      BY <2>2 DEF Keeps, Result
    <3> QED
      BY <1>1, <1>8, <3>1 DEF Served
  <2>3. ASSUME NEW f \in BackendFailures, d = Keeps(TRUE, FailureCode[f])
        PROVE  /\ Served(r, d, d.machine, d.vault)
               /\ d.machine \in Machines /\ d.vault \subseteq Handles
    <3>1. /\ d.machine = machine /\ d.vault = vault /\ d.ok = TRUE
          /\ d.code = FailureCode[f] /\ d.issued = NoHandle /\ d.counters = None
      BY <2>3 DEF Keeps, Result
    <3> QED
      BY <1>1, <1>4, <1>8, <3>1 DEF Served
  <2> QED
    BY <2>1, <2>2, <2>3 DEF StatisticsResults
<1>9. CASE r.op = "delete"
  <2>1. d \in DeleteResults(r.handle)
    BY <1>2, <1>9 DEF Executed
  <2>2. CASE d = Keeps(FALSE, "PROFILE_STORE_UNAVAILABLE")
    <3>1. /\ d.machine = machine /\ d.vault = vault /\ d.ok = FALSE
          /\ d.code = "PROFILE_STORE_UNAVAILABLE" /\ d.issued = NoHandle /\ d.counters = None
      BY <2>2 DEF Keeps, Result
    <3> QED
      BY <1>1, <1>9, <3>1 DEF Served
  <2>4. CASE d = Keeps(FALSE, "PROFILE_NOT_FOUND") /\ r.handle \notin vault
    <3>1. /\ d.machine = machine /\ d.vault = vault /\ d.ok = FALSE
          /\ d.code = "PROFILE_NOT_FOUND" /\ d.issued = NoHandle /\ d.counters = None
      BY <2>4 DEF Keeps, Result
    <3> QED
      BY <1>1, <1>9, <2>4, <3>1 DEF Served
  <2>3. CASE d = Result(machine, vault \ {r.handle}, TRUE, "PROFILE_DELETED")
    <3>1. /\ d.machine = machine /\ d.vault = vault \ {r.handle} /\ d.ok = TRUE
          /\ d.code = "PROFILE_DELETED" /\ d.issued = NoHandle /\ d.counters = None
      BY <2>3 DEF Result
    <3> QED
      BY <1>1, <1>9, <3>1 DEF Served
  <2> QED
    BY <2>1, <2>2, <2>3, <2>4 DEF DeleteResults
<1>10. CASE r.op = "import"
  <2>1. d \in ImportResults
    BY <1>2, <1>10 DEF Executed
  <2>2. CASE d = Keeps(FALSE, "PROFILE_STORE_UNAVAILABLE")
    <3>1. /\ d.machine = machine /\ d.vault = vault /\ d.ok = FALSE
          /\ d.code = "PROFILE_STORE_UNAVAILABLE" /\ d.issued = NoHandle /\ d.counters = None
      BY <2>2 DEF Keeps, Result
    <3> QED
      BY <1>1, <1>10, <3>1 DEF Served
  <2>3. ASSUME NEW h \in Handles \ vault,
               d = [Result(machine, vault \cup {h}, TRUE, "PROFILE_STORED") EXCEPT !.issued = h]
        PROVE  /\ Served(r, d, d.machine, d.vault)
               /\ d.machine \in Machines /\ d.vault \subseteq Handles
    <3>1. /\ d.machine = machine /\ d.vault = vault \cup {h} /\ d.ok = TRUE
          /\ d.code = "PROFILE_STORED" /\ d.issued = h /\ d.counters = None
      BY <2>3 DEF Result
    <3> QED
      BY <1>1, <1>10, <3>1 DEF Served
  <2> QED
    BY <2>1, <2>2, <2>3 DEF ImportResults
<1> QED
  BY <1>1, <1>5, <1>6, <1>7, <1>8, <1>9, <1>10

\* One that is remembered changes nothing.
LEMMA ResultsServe ==
  ASSUME TypeOK, NEW r \in Requests, NEW d \in Results(Meant(r))
  PROVE  /\ Served(r, d, d.machine, d.vault)
         /\ d.machine \in Machines /\ d.vault \subseteq Handles
<1>1. CASE d = Keeps(FALSE, "DUPLICATE_REQUEST")
  <2>1. /\ d.machine = machine /\ d.vault = vault /\ d.ok = FALSE
        /\ d.code = "DUPLICATE_REQUEST" /\ d.issued = NoHandle /\ d.counters = None
    BY <1>1 DEF Keeps, Result
  <2> QED
    BY <2>1 DEF Served, TypeOK
<1>2. CASE d \in Executed(Meant(r))
  BY <1>2, ExecutedServes
<1> QED
  BY <1>1, <1>2 DEF Results

-----------------------------------------------------------------------------
(* The exchange *)

\* The service answers an import that it cannot decode with safe_command_error,
\* whose id is not the request's, so that the application reads no response.
Refused(r) == r.op = "import" /\ ~r.valid

Reply(r, d) == IF Refused(r) THEN SafeError ELSE Envelope(r.id, d)

Heard(r, d) == IF Refused(r) THEN [id |-> None] ELSE Envelope(r.id, d)

\* The inductive invariant: what travels is what was asked for or its reply, the
\* reply tells what was done, and the conclusion is drawn from that reply.
RequestInv == stage = "sent" => frame = Frame(DartOpcode(asked), DartBody(asked))

ReplyInv ==
  stage \in {"answered", "concluded"} =>
    /\ Served(asked, did, machine, vault)
    /\ Refused(asked) => did = Undecoded
    /\ frame = Response(Reply(asked, did))

ConcludedInv == stage = "concluded" => concluded = Conclude(asked, Heard(asked, did))

WireInv == TypeOK /\ RequestInv /\ ReplyInv /\ ConcludedInv

\* The fields of the response to a request that was served.
LEMMA EnvelopeFields ==
  ASSUME NEW r \in Requests, NEW d, NEW m \in Machines, NEW v, Served(r, d, m, v)
  PROVE  LET e == Envelope(r.id, d)
         IN  /\ e.id = r.id /\ e.code = d.code
             /\ e.phase = (IF d.ok THEN m.phase ELSE "Error")
             /\ e.counters = (IF d.ok THEN d.counters ELSE None)
             /\ d.ok /\ d.issued # NoHandle => e.profile = d.issued
             /\ e.phase \in Phases /\ e.counters \in {None, "counters", "handshake"}
             /\ [id |-> e.id, phase |-> e.phase, profile |-> e.profile, code |-> e.code,
                 counters |-> e.counters] = e
<1>1. d.machine = m /\ d.ok \in BOOLEAN /\ m.phase \in Phases /\ "Error" \in Phases
  BY DEF Served, Machines, Phases, FailurePhases
<1>2. d.counters \in {None, "counters", "handshake"}
  BY DEF Served
<1>3. CASE d.ok
  BY <1>1, <1>2, <1>3 DEF Envelope
<1>4. CASE ~d.ok
  BY <1>1, <1>4 DEF Envelope
<1> QED
  BY <1>1, <1>3, <1>4

\* The application hears the reply to its own request and none that is refused;
\* Rust reads the same.
LEMMA HeardByBoth ==
  ASSUME NEW r \in Requests, NEW d, NEW m \in Machines, NEW v, Served(r, d, m, v)
  PROVE  /\ DartReads(Response(Reply(r, d)), r.id) = Heard(r, d)
         /\ ~Refused(r) => RustReads(Response(Reply(r, d))) = Heard(r, d)
<1>1. DartPhases = RustPhases
  BY DEF DartPhases, RustPhases
<1>2. r.id \in RequestIds
  BY DEF Requests
<1>3. CASE Refused(r)
  <2>1. /\ SafeError.phase \in Phases /\ SafeError.counters \in {None, "counters", "handshake"}
        /\ SafeError.id \notin {r.id}
    BY <1>2, IdsAssumption DEF SafeError, Phases, FailurePhases
  <2>2. Read(Response(SafeError), RustPhases, {r.id}) = [id |-> None]
    BY <2>1, ReadBack
  <2> QED
    BY <1>1, <1>3, <2>2 DEF DartReads, Reply, Heard
<1>4. CASE ~Refused(r)
  <2> DEFINE e == Envelope(r.id, d)
  <2>1. /\ e.id = r.id /\ e.phase \in Phases /\ e.counters \in {None, "counters", "handshake"}
        /\ [id |-> e.id, phase |-> e.phase, profile |-> e.profile, code |-> e.code,
            counters |-> e.counters] = e
    BY EnvelopeFields
  <2> HIDE DEF e
  <2>2. ASSUME NEW ids, r.id \in ids
        PROVE  Read(Response(e), RustPhases, ids) = e
    BY <2>1, <2>2, ReadBack
  <2>3. Read(Response(e), RustPhases, {r.id}) = e
    BY <2>2
  <2>4. Read(Response(e), RustPhases, RequestIds \cup {InvalidId}) = e
    BY <1>2, <2>2
  <2> QED
    BY <1>1, <1>4, <2>3, <2>4 DEF DartReads, RustReads, Reply, Heard, e
<1> QED
  BY <1>3, <1>4

\* The first request has not been sent: it only fixes the types.
LEMMA InitWireInv == Init => WireInv
<1> SUFFICES ASSUME Init PROVE WireInv
  OBVIOUS
<1>1. TypeOK
  BY DEF Init, TypeOK, Idle, Machines, Phases
<1> QED
  BY <1>1 DEF Init, WireInv, RequestInv, ReplyInv, ConcludedInv

\* What the service does with the frame of a request is to serve it.
LEMMA ProcessServes ==
  ASSUME WireInv, Process
  PROVE  WireInv'
<1>1. /\ TypeOK /\ asked \in Requests /\ stage = "sent"
      /\ frame = Frame(DartOpcode(asked), DartBody(asked))
      /\ stage' = "answered" /\ asked' = asked
  BY DEF WireInv, TypeOK, RequestInv, Process
<1>2. CASE Refused(asked)
  <2>1. Decoded(frame) = [op |-> None]
    BY <1>1, <1>2, DecodedAsMeant DEF Refused
  <2>2. did' = Undecoded /\ frame' = Response(SafeError) /\ machine' = machine /\ vault' = vault
    BY <2>1 DEF Process, serviceVars
  <2>3. Served(asked, Undecoded, machine, vault)
    BY <1>2 DEF Served, Undecoded, Keeps, Result, Refused
  <2>4. Undecoded' = Undecoded
    BY <2>2 DEF Undecoded, Keeps, Result
  <2>5. TypeOK'
    BY <1>1, <2>2 DEF TypeOK
  <2>6. ReplyInv'
    BY <1>1, <1>2, <2>2, <2>3, <2>4 DEF ReplyInv, Reply, Refused
  <2> QED
    BY <1>1, <2>5, <2>6 DEF WireInv, RequestInv, ConcludedInv
<1>3. CASE ~Refused(asked)
  <2>1. Decoded(frame) = Meant(asked)
    BY <1>1, <1>3, DecodedAsMeant DEF Refused
  <2>2. Meant(asked).op # None /\ Meant(asked).id = asked.id
    BY <1>1 DEF Meant, Requests, Operations, None
  <2>3. /\ did' \in Results(Meant(asked))
        /\ machine' = did'.machine /\ vault' = did'.vault
        /\ frame' = Response(Envelope(asked.id, did'))
    BY <2>1, <2>2 DEF Process
  <2>4. /\ Served(asked, did', did'.machine, did'.vault)
        /\ did'.machine \in Machines /\ did'.vault \subseteq Handles
    BY <1>1, <2>3, ResultsServe
  <2>5. TypeOK'
    BY <1>1, <2>3, <2>4 DEF TypeOK
  <2>6. ReplyInv'
    BY <1>1, <1>3, <2>3, <2>4 DEF ReplyInv, Reply, Refused
  <2> QED
    BY <1>1, <2>5, <2>6 DEF WireInv, RequestInv, ConcludedInv
<1> QED
  BY <1>2, <1>3

\* Every step preserves the invariant.
LEMMA NextWireInv == WireInv /\ [Next]_vars => WireInv'
<1> SUFFICES ASSUME WireInv, [Next]_vars PROVE WireInv'
  OBVIOUS
<1>1. CASE Ask
  <2>1. TypeOK'
    BY <1>1 DEF Ask, serviceVars, WireInv, TypeOK
  <2> QED
    BY <1>1, <2>1 DEF Ask, WireInv, RequestInv, ReplyInv, ConcludedInv
<1>2. CASE Process
  BY <1>2, ProcessServes
<1>3. CASE Receive
  <2>1. /\ asked \in Requests /\ machine \in Machines
        /\ Served(asked, did, machine, vault) /\ frame = Response(Reply(asked, did))
    BY <1>3 DEF Receive, WireInv, TypeOK, ReplyInv
  <2>2. DartReads(frame, asked.id) = Heard(asked, did)
    BY <2>1, HeardByBoth
  <2>3. /\ concluded' = Conclude(asked, Heard(asked, did)) /\ stage' = "concluded"
        /\ UNCHANGED <<vault, machine, asked, frame, did>> /\ stage = "answered"
    BY <1>3, <2>2 DEF Receive
  <2>4. Undecoded' = Undecoded
    BY <2>3 DEF Undecoded, Keeps, Result
  <2>5. TypeOK'
    BY <2>3 DEF WireInv, TypeOK
  <2>6. ReplyInv'
    BY <2>3, <2>4 DEF WireInv, ReplyInv
  <2>7. ConcludedInv'
    BY <2>3 DEF ConcludedInv
  <2> QED
    BY <2>3, <2>5, <2>6, <2>7 DEF WireInv, RequestInv
<1>4. CASE Lose
  <2>1. TypeOK'
    BY <1>4 DEF Lose, WireInv, TypeOK
  <2> QED
    BY <1>4, <2>1 DEF Lose, WireInv, RequestInv, ReplyInv, ConcludedInv
<1>5. CASE Restart
  <2>1. Idle \in Machines
    BY DEF Idle, Machines, Phases
  <2>2. TypeOK'
    BY <1>5, <2>1 DEF Restart, WireInv, TypeOK
  <2> QED
    BY <1>5, <2>2 DEF Restart, WireInv, RequestInv, ReplyInv, ConcludedInv
<1>6. CASE UNCHANGED vars
  <2>1. Undecoded' = Undecoded
    BY <1>6 DEF vars, Undecoded, Keeps, Result
  <2> QED
    BY <1>6, <2>1 DEF vars, WireInv, TypeOK, RequestInv, ReplyInv, ConcludedInv
<1> QED
  BY <1>1, <1>2, <1>3, <1>4, <1>5, <1>6 DEF Next

\* The invariant holds throughout.
LEMMA WireInvAlways == Spec => []WireInv
<1> QED
  BY InitWireInv, NextWireInv, PTL DEF Spec

\* What Conclude makes of the reply, by the operation: the facts that the two
\* theorems about conclusions need.
LEMMA ConclusionsFollow ==
  ASSUME WireInv, stage = "concluded"
  PROVE  ConclusionIsTrue /\ SuccessIsRecognised
<1> DEFINE e == Envelope(asked.id, did)
<1>1. /\ asked \in Requests /\ machine \in Machines /\ vault \subseteq Handles
      /\ Served(asked, did, machine, vault) /\ (Refused(asked) => did = Undecoded)
      /\ concluded = Conclude(asked, Heard(asked, did))
  BY DEF WireInv, TypeOK, ReplyInv, ConcludedInv
<1>2. /\ asked.op \in {"status", "connect", "disconnect", "statistics", "delete", "import"}
      /\ asked.id \in RequestIds /\ asked.id # None /\ did.ok \in BOOLEAN
  BY <1>1, IdsAssumption DEF Requests, Operations, Served
<1>3. /\ e.id = asked.id /\ e.code = did.code
      /\ e.phase = (IF did.ok THEN machine.phase ELSE "Error")
      /\ e.counters = (IF did.ok THEN did.counters ELSE None)
      /\ did.ok /\ did.issued # NoHandle => e.profile = did.issued
  BY <1>1, EnvelopeFields
<1> HIDE DEF e
<1>4. Refused(asked) => concluded = Error("INVALID_RESPONSE")
  BY <1>1 DEF Heard, Conclude
<1>5. ~Refused(asked) => concluded = Conclude(asked, e)
  BY <1>1 DEF Heard, e
<1>6. "Error" \in FailurePhases /\ "Connected" \notin FailurePhases
      /\ "Disconnected" \notin FailurePhases
  BY DEF FailurePhases
<1>7. CASE Refused(asked)
  <2>1. ~did.ok /\ asked.op = "import" /\ concluded.what = "error"
    BY <1>1, <1>4, <1>7 DEF Undecoded, Keeps, Result, Refused, Error
  <2> QED
    BY <2>1 DEF ConclusionIsTrue, SuccessIsRecognised, Achieved
<1>8. CASE ~Refused(asked) /\ asked.op = "import"
  <2>1. \/ ~did.ok /\ did.code \in {"PROFILE_STORE_UNAVAILABLE", "INVALID_REQUEST",
                                   "DUPLICATE_REQUEST"}
        \/ did.ok /\ did.code = "PROFILE_STORED" /\ did.issued \in vault
    BY <1>1, <1>8 DEF Served
  <2>2. did.ok => did.issued # NoHandle /\ e.profile = did.issued
    BY <1>1, <1>3, <2>1, HandlesAssumption
  <2>3. did.ok => concluded = [what |-> "stored", handle |-> did.issued]
    BY <1>2, <1>3, <1>5, <1>8, <2>1, <2>2 DEF Conclude
  <2>4. ~did.ok => concluded = Error(did.code)
    BY <1>2, <1>3, <1>5, <1>8, <2>1 DEF Conclude
  <2>5. did.ok => Achieved
    BY <1>8, <2>1, CodesApart DEF Achieved
  <2> QED
    BY <1>2, <1>8, <2>1, <2>3, <2>4, <2>5
    DEF ConclusionIsTrue, SuccessIsRecognised, Achieved, Error
<1>9. CASE asked.op = "delete"
  <2>1. ~Refused(asked)
    BY <1>9 DEF Refused
  <2>2. \/ ~did.ok /\ did.code \in {"PROFILE_STORE_UNAVAILABLE", "DUPLICATE_REQUEST"}
        \/ ~did.ok /\ did.code = "PROFILE_NOT_FOUND" /\ asked.handle \notin vault
        \/ did.ok /\ did.code = "PROFILE_DELETED" /\ asked.handle \notin vault
    BY <1>1, <1>9 DEF Served
  <2>3. concluded = IF did.code \in {"PROFILE_DELETED", "PROFILE_NOT_FOUND"}
                    THEN [what |-> "gone"] ELSE Error(did.code)
    BY <1>2, <1>3, <1>5, <1>9, <2>1 DEF Conclude
  <2>4. did.ok => Achieved
    BY <1>9, <2>2, CodesApart DEF Achieved
  <2> QED
    BY <1>9, <2>2, <2>3, <2>4 DEF ConclusionIsTrue, SuccessIsRecognised, Achieved, Error
<1>10. CASE asked.op = "statistics"
  <2>1. ~Refused(asked)
    BY <1>10 DEF Refused
  <2>2. \/ ~did.ok /\ did.code = "DUPLICATE_REQUEST" /\ did.counters = None
        \/ did.ok /\ did.code = "OK" /\ did.counters \in {"counters", "handshake"}
        \/ did.ok /\ did.code \in FailureCodes /\ did.counters = None
    BY <1>1, <1>10 DEF Served
  <2>3. concluded = IF did.code = "OK" /\ did.counters # None
                    THEN [what |-> "counters"] ELSE [what |-> "noCounters"]
    BY <1>2, <1>3, <1>5, <1>10, <2>1, <2>2 DEF Conclude
  <2>4. Achieved <=> did.code = "OK"
    BY <1>10, <2>2, CodesApart DEF Achieved
  <2>5. did.code = "OK" => did.counters # None
    BY <2>2, CodesApart DEF None
  <2> QED
    BY <2>3, <2>4, <2>5 DEF ConclusionIsTrue, SuccessIsRecognised
<1>11. CASE asked.op = "disconnect"
  <2>1. ~Refused(asked)
    BY <1>11 DEF Refused
  <2>2. ~did.ok \/ (did.code = "DISCONNECTED" /\ machine = Idle)
    BY <1>1, <1>11 DEF Served
  <2>3. did.ok => /\ concluded = [what |-> "shows", phase |-> "Disconnected", code |-> NoError]
                  /\ machine.phase = "Disconnected"
    BY <1>2, <1>3, <1>5, <1>6, <1>11, <2>1, <2>2 DEF Conclude, Idle
  <2>4. ~did.ok => concluded = Error(did.code)
    BY <1>2, <1>3, <1>5, <1>11, <2>1 DEF Conclude
  <2>5. did.ok => Achieved
    BY <1>11, <2>2, CodesApart DEF Achieved
  <2> QED
    BY <1>2, <1>6, <1>11, <2>3, <2>4, <2>5
    DEF ConclusionIsTrue, SuccessIsRecognised, Achieved, Error
<1>12. CASE asked.op \in {"status", "connect"}
  <2>1. ~Refused(asked)
    BY <1>12 DEF Refused
  <2> DEFINE phase == IF did.ok THEN machine.phase ELSE "Error"
  <2>2. concluded = [what |-> "shows", phase |-> phase,
                     code |-> IF phase \in FailurePhases THEN did.code ELSE NoError]
    BY <1>2, <1>3, <1>5, <1>12, <2>1 DEF Conclude
  <2>3. Achieved <=> phase \notin FailurePhases
    <3>1. CASE asked.op = "status"
      <4>1. \/ ~did.ok
            \/ did.ok /\ did.code = "OK"
            \/ did.ok /\ did.code = "TUNNEL_STOPPED" /\ machine = Idle
            \/ did.ok /\ did.code \in FailureCodes /\ IsFailure(machine)
        BY <1>1, <3>1 DEF Served
      <4> QED
        BY <1>6, <3>1, <4>1, CodesApart DEF Achieved, IsFailure, Idle
    <3>2. CASE asked.op = "connect"
      <4>1. \/ ~did.ok
            \/ did.ok /\ did.code = "CONNECTED" /\ machine.phase = "Connected"
            \/ did.ok /\ did.code \in FailureCodes /\ IsFailure(machine)
        BY <1>1, <3>2 DEF Served
      <4> QED
        BY <1>2, <1>6, <3>2, <4>1, CodesApart DEF Achieved, IsFailure
    <3> QED
      BY <1>12, <3>1, <3>2
  <2>4. phase \in FailurePhases =>
          \/ did.code = IF did.ok THEN machine.error ELSE did.code
          \/ asked.op = "status" /\ did.code = "OK"
    BY <1>1, <1>6, <1>12 DEF Served, Idle
  <2> HIDE DEF phase
  <2>5. /\ concluded.what = "shows" /\ concluded.phase = phase
        /\ phase \in FailurePhases => concluded.code = did.code
    BY <2>2
  <2>6. ConclusionIsTrue
    BY <2>4, <2>5 DEF ConclusionIsTrue, phase
  <2>7. SuccessIsRecognised
    BY <2>3, <2>5 DEF SuccessIsRecognised
  <2> QED
    BY <2>6, <2>7
<1> QED
  BY <1>2, <1>7, <1>8, <1>9, <1>10, <1>11, <1>12

\* A caller in the application concludes nothing from the reply that is not so:
\* what it takes for stored, gone, counted or connected is that in the service,
\* whichever request it makes and for every set of request ids and handles.
THEOREM ConclusionsAreTrue == Spec => []ExchangeInv
<1>1. WireInv => ExchangeInv
  BY ConclusionsFollow DEF WireInv, ExchangeInv, ConclusionIsTrue
<1> QED
  BY <1>1, WireInvAlways, PTL

\* What the service achieved is concluded to be a success and nothing else is:
\* the tests of each operation's caller tell the two apart in every reply.
THEOREM SuccessAndFailureApart == Spec => []SuccessIsRecognised
<1>1. WireInv => SuccessIsRecognised
  BY ConclusionsFollow DEF SuccessIsRecognised
<1> QED
  BY <1>1, WireInvAlways, PTL

\* The codecs of the two languages write the same frame for each request and
\* read the same response in each frame that answers a request decoded.
THEOREM LanguagesAgree == Spec => []TwinsAgree
<1>1. WireInv => TwinsAgree
  <2> SUFFICES ASSUME WireInv PROVE TwinsAgree
    OBVIOUS
  <2>1. asked \in Requests /\ machine \in Machines
    BY DEF WireInv, TypeOK
  <2>2. RustFrame(asked) = Frame(DartOpcode(asked), DartBody(asked))
    BY <2>1, BodiesAre
  <2>3. ASSUME stage = "answered", Decoded(RustFrame(asked)).op # None
        PROVE  DartReads(frame, asked.id) = RustReads(frame)
    <3>1. ~Refused(asked)
      BY <2>1, <2>2, <2>3, DecodedAsMeant DEF Refused
    <3>2. Served(asked, did, machine, vault) /\ frame = Response(Reply(asked, did))
      BY <2>3 DEF WireInv, ReplyInv
    <3> QED
      BY <2>1, <3>1, <3>2, HeardByBoth
  <2> QED
    BY <2>2, <2>3 DEF WireInv, RequestInv, TwinsAgree
<1> QED
  BY <1>1, WireInvAlways, PTL
=============================================================================
