------------------------- MODULE ApplicationProofs --------------------------
(***************************************************************************)
(* Proofs about the two parts of the application that speak to the service *)
(* for the user: ProfileTransfer, which carries a configuration there, for *)
(* every set of configurations, and DesktopEngine, which shows what the    *)
(* service is in, for every set of handles.                                *)
(***************************************************************************)
EXTENDS ProfileTransfer, DesktopEngine, TLAPS

-----------------------------------------------------------------------------
(* ProfileTransfer: the sizes of what parses *)

\* A product grows with its factors.
LEMMA TimesBound ==
  ASSUME NEW n \in Nat, NEW x \in Nat, NEW N \in Nat, NEW X \in Nat, n <= N, x <= X
  PROVE  n * x \in Nat /\ n * x <= N * X
  <1>1. n * x <= n * X
    BY SMT
  <1>2. n * X <= N * X
    BY SMT
  <1> QED
    BY <1>1, <1>2, SMT

\* The size of the largest list of at most n texts of at most x bytes.
Room(n, x) == 1 + n * (1 + x)

\* A list within its bounds has at most the size of the largest one.
LEMMA ListBound ==
  ASSUME NEW l, l.count \in Nat, l.each \in Nat, NEW N \in Nat, NEW X \in Nat,
         l.count <= N, l.count > 0 => l.each <= X
  PROVE  ListSize(l) \in Nat /\ ListSize(l) <= Room(N, X)
  <1> DEFINE body == l.count * (1 + l.each)
             room == N * (1 + X)
  <1>1. room \in Nat
    BY SMT
  <1>2. body \in Nat /\ body <= room
    <2>1. CASE l.count = 0
      <3>1. body = 0
        BY <2>1, SMT
      <3> QED
        BY <1>1, <3>1, SMT
    <2>2. CASE l.count > 0
      <3>1. 1 + l.each \in Nat /\ 1 + X \in Nat /\ 1 + l.each <= 1 + X
        BY <2>2, SMT
      <3> QED
        BY <3>1, TimesBound
    <2> QED
      BY <2>1, <2>2, SMT
  <1>3. ListSize(l) = 1 + body /\ Room(N, X) = 1 + room
    BY DEF ListSize, Room
  <1> HIDE DEF body, room
  <1> QED
    BY <1>1, <1>2, <1>3, SMT

-----------------------------------------------------------------------------
(* ProfileTransfer: the sum of all bounds *)

\* The size of a WireGuard configuration that parses and encodes.
LEMMA WireGuardBound ==
  ASSUME NEW w \in WireGuards, WireGuardParses(w), WireGuardEncodes(w)
  PROVE  WireGuardSize(w) \in Nat /\ WireGuardSize(w) <= 10889
  <1>1. w.addresses \in Networks /\ w.dns \in Lists /\ w.allowed \in Networks /\ w.host \in Nat
    BY DEF WireGuards
  <1>2. /\ w.addresses.count \in Nat /\ w.addresses.each \in Nat
        /\ w.dns.count \in Nat /\ w.dns.each \in Nat
        /\ w.allowed.count \in Nat /\ w.allowed.each \in Nat
    BY <1>1 DEF Networks, Lists
  <1>3. /\ w.addresses.count <= 8 /\ w.dns.count <= 8 /\ w.allowed.count <= 32
        /\ w.dns.count > 0 => w.dns.each <= 45
    <2>1. /\ NetworksParse(w.addresses, 8) /\ NetworksParse(w.allowed, 32)
          /\ w.dns.count <= 8 /\ (w.dns.count > 0 => Within(w.dns.each, AddressText))
      BY DEF WireGuardParses
    <2> QED
      BY <1>2, <2>1 DEF NetworksParse, AddressText, Within
  <1>4. /\ w.addresses.count > 0 => w.addresses.each <= 253
        /\ w.allowed.count > 0 => w.allowed.each <= 253
        /\ w.host <= 253
    BY <1>1, <1>2 DEF WireGuardEncodes, BoundedList, Bounded, Within
  <1>5. ListSize(w.addresses) \in Nat /\ ListSize(w.addresses) <= Room(8, 253)
    BY <1>2, <1>3, <1>4, ListBound
  <1>6. ListSize(w.dns) \in Nat /\ ListSize(w.dns) <= Room(8, 45)
    BY <1>2, <1>3, ListBound
  <1>7. ListSize(w.allowed) \in Nat /\ ListSize(w.allowed) <= Room(32, 253)
    BY <1>2, <1>3, <1>4, ListBound
  <1>8. Room(8, 253) = 2033 /\ Room(8, 45) = 369 /\ Room(32, 253) = 8129
    BY SMT DEF Room
  <1> QED
    BY <1>1, <1>4, <1>5, <1>6, <1>7, <1>8 DEF WireGuardSize

\* The size of what AmneziaWG adds to it.
LEMMA AmneziaBound ==
  ASSUME NEW a \in AmneziaExtras, AmneziaParses(a), AmneziaEncodes(a)
  PROVE  AmneziaSize(a) \in Nat /\ AmneziaSize(a) <= 21521
  <1>1. a.junk.count \in Nat /\ a.junk.bytes \in Nat /\ a.junk.count <= 5
    BY DEF AmneziaExtras, Junk, AmneziaParses
  <1>2. a.junk.count * (2 + a.junk.bytes) \in Nat
        /\ a.junk.count * (2 + a.junk.bytes) <= 20490
    <2>1. CASE a.junk.count = 0
      BY <2>1, <1>1
    <2>2. CASE a.junk.count > 0
      <3>1. 2 + a.junk.bytes \in Nat /\ 2 + a.junk.bytes <= 4098
        BY <1>1, <2>2 DEF AmneziaEncodes, Within
      <3> DEFINE n == a.junk.count
                 x == 2 + a.junk.bytes
      <3>2. n \in Nat /\ x \in Nat /\ n <= 5 /\ x <= 4098
        BY <1>1, <3>1
      <3> HIDE DEF n, x
      <3>3. n * x \in Nat /\ n * x <= 5 * 4098
        BY <3>2, TimesBound
      <3> QED
        BY <3>3 DEF n, x
    <2> QED
      BY <1>1, <2>1, <2>2
  <1>3. a.digits \in Nat /\ a.digits <= 253
    BY DEF AmneziaExtras, AmneziaEncodes, Bounded, Within
  <1> QED
    BY <1>2, <1>3 DEF AmneziaSize

\* What a profile of each protocol consists of.
LEMMA Shape ==
  ASSUME NEW p \in Profiles
  PROVE  /\ p.protocol \in {"wireGuard", "amneziaWg", "vless"}
         /\ p.protocol # "vless" => p.wg \in WireGuards
         /\ p.protocol = "amneziaWg" => p.awg \in AmneziaExtras
         /\ p.protocol = "vless" => p.vless \in Vlesses
  BY DEF Profiles

\* Nothing that parses and encodes exceeds a frame.
LEMMA SumOfBounds ==
  ASSUME NEW p \in Profiles, Parses(p), Encodes(p)
  PROVE  ProfileSize(p) \in Nat /\ FrameSize(p) <= MaxFrameSize
  <1>1. CASE p.protocol = "vless"
    <2>1. p.vless \in Vlesses /\ VlessParses(p.vless)
      BY <1>1, Shape DEF Parses
    <2>2. /\ p.vless.uuid = 36 /\ Within(p.vless.host, 253) /\ Within(p.vless.sni, 253)
          /\ p.vless.pbk = 43 /\ p.vless.sid <= 16
      BY <2>1 DEF VlessParses, HostParses
    <2>3. p.vless.host \in Nat /\ p.vless.sni \in Nat /\ p.vless.sid \in Nat
      BY <2>1 DEF Vlesses
    <2>4. VlessSize(p.vless) \in Nat /\ VlessSize(p.vless) <= 1000
      BY <2>2, <2>3 DEF VlessSize, Within
    <2> QED
      BY <1>1, <2>4, MaxFrameSizeAssumption DEF FrameSize, ProfileSize
  <1>2. CASE p.protocol # "vless"
    <2>1. p.wg \in WireGuards /\ WireGuardParses(p.wg) /\ WireGuardEncodes(p.wg)
      BY <1>2, Shape DEF Parses, Encodes
    <2>2. WireGuardSize(p.wg) \in Nat /\ WireGuardSize(p.wg) <= 10889
      BY <2>1, WireGuardBound
    <2>3. CASE p.protocol = "amneziaWg"
      <3>1. p.awg \in AmneziaExtras /\ AmneziaParses(p.awg) /\ AmneziaEncodes(p.awg)
        BY <2>3, Shape DEF Parses, Encodes
      <3>2. AmneziaSize(p.awg) \in Nat /\ AmneziaSize(p.awg) <= 21521
        BY <3>1, AmneziaBound
      <3> QED
        BY <1>2, <2>2, <2>3, <3>2, MaxFrameSizeAssumption DEF FrameSize, ProfileSize
    <2> QED
      BY <1>2, <2>2, <2>3, MaxFrameSizeAssumption DEF FrameSize, ProfileSize
  <1> QED
    BY <1>1, <1>2

-----------------------------------------------------------------------------
(* ProfileTransfer: what the service makes of a profile that parses *)

\* A profile keeps what the parser found.
LEMMA ParsedParses ==
  ASSUME NEW c \in Profiles, Parses(c)
  PROVE  Parsed(c) \in Profiles /\ Parses(Parsed(c))
  <1>1. CASE c.protocol = "vless"
    BY <1>1 DEF Parsed
  <1>2. CASE c.protocol # "vless"
    <2> DEFINE w == WithoutZeroKeepalive(c.wg)
    <2>1. c.wg \in WireGuards /\ WireGuardParses(c.wg)
      BY <1>2, Shape DEF Parses
    <2>2. w \in WireGuards
      BY <2>1 DEF WireGuards, WithoutZeroKeepalive, Option
    <2>3. WireGuardParses(w)
      BY <2>1 DEF WireGuards, WithoutZeroKeepalive, WireGuardParses
    <2>4. Parsed(c) = [c EXCEPT !.wg = w]
      BY <1>2 DEF Parsed
    <2> HIDE DEF w
    <2> QED
      BY <1>2, <2>2, <2>3, <2>4 DEF Profiles, Parses
  <1> QED
    BY <1>1, <1>2

\* No value of a profile that parses is cut by the width of its field.
LEMMA FieldsSame ==
  ASSUME NEW p \in Profiles, Parses(p)
  PROVE  Fields(p) = p
  <1>1. \A n \in Nat : n <= 65535 => U16(n) = n
    BY SMT DEF U16
  <1>2. \A n \in Nat : n <= 32 => U8(n) = n
    BY SMT DEF U8
  <1>3. ASSUME NEW w \in WireGuards, WireGuardParses(w)
        PROVE  WireGuardFields(w) = w
    <2>1. U16(w.port) = w.port
      BY <1>1, <1>3 DEF WireGuards, WireGuardParses, Within
    <2>2. /\ U8(w.addresses.count) = w.addresses.count
          /\ U8(w.allowed.count) = w.allowed.count
          /\ U8(w.dns.count) = w.dns.count
      BY <1>2, <1>3 DEF WireGuards, Networks, Lists, WireGuardParses, NetworksParse, Within
    <2>3. \A v \in w.keepalive : U16(v) = v
      BY <1>1, <1>3 DEF WireGuards, Option, WireGuardParses
    <2>4. {U16(v) : v \in w.keepalive} = w.keepalive
      BY <2>3
    <2>5. /\ [w.addresses EXCEPT !.count = w.addresses.count] = w.addresses
          /\ [w.allowed EXCEPT !.count = w.allowed.count] = w.allowed
          /\ [w.dns EXCEPT !.count = w.dns.count] = w.dns
      BY <1>3 DEF WireGuards, Networks, Lists
    <2>6. WireGuardFields(w) =
            [w EXCEPT !.addresses = w.addresses, !.dns = w.dns, !.allowed = w.allowed,
                      !.port = w.port, !.keepalive = w.keepalive]
      BY <2>1, <2>2, <2>4, <2>5, <1>3 DEF WireGuardFields, WireGuards
    <2> QED
      BY <1>3, <2>6 DEF WireGuards
  <1>4. ASSUME NEW a \in AmneziaExtras, AmneziaParses(a)
        PROVE  AmneziaFields(a) = a
    <2>1. /\ U16(a.jc) = a.jc /\ U16(a.jmin) = a.jmin /\ U16(a.jmax) = a.jmax
          /\ U16(a.s) = a.s /\ U16(a.s4) = a.s4
      BY <1>1, <1>4 DEF AmneziaExtras, AmneziaParses
    <2>2. U8(a.junk.count) = a.junk.count
      BY <1>2, <1>4 DEF AmneziaExtras, Junk, AmneziaParses
    <2> QED
      BY <1>4, <2>1, <2>2 DEF AmneziaFields, AmneziaExtras, Junk
  <1>5. CASE p.protocol = "vless"
    <2>1. U16(p.vless.port) = p.vless.port
      BY <1>1, <1>5, Shape DEF Parses, VlessParses, Vlesses, Within
    <2> QED
      BY <1>5, <2>1 DEF Fields, Profiles, Vlesses
  <1>6. CASE p.protocol # "vless"
    <2>1. WireGuardFields(p.wg) = p.wg
      BY <1>3, <1>6, Shape DEF Parses
    <2>2. p.protocol = "amneziaWg" => AmneziaFields(p.awg) = p.awg
      BY <1>4, Shape DEF Parses
    <2> QED
      BY <1>6, <2>1, <2>2 DEF Fields, Profiles
  <1> QED
    BY <1>5, <1>6

\* The parsers let through what the service refuses.
LooselyWritten(p) ==
  \/ p.protocol = "amneziaWg" /\ p.awg.junk.c1
  \/ p.protocol # "vless" /\ (p.wg.addresses.loose \/ p.wg.allowed.loose)

\* There is no other difference between the validations of the two sides.
LEMMA ServiceAgrees ==
  ASSUME NEW c \in Profiles, Parses(c), Encodes(Parsed(c)), ~LooselyWritten(c)
  PROVE  CursorReads(Parsed(c)) /\ Valid(Parsed(c))
  <1> DEFINE p == Parsed(c)
  <1>1. p \in Profiles /\ Parses(p)
    BY ParsedParses
  <1>2. p.protocol # "vless" => 0 \notin p.wg.keepalive
    BY Shape DEF Parsed, WithoutZeroKeepalive, Profiles, WireGuards
  <1>3. ~LooselyWritten(p)
    BY Shape DEF Parsed, WithoutZeroKeepalive, Profiles, WireGuards, LooselyWritten
  <1>4. Encodes(p)
    OBVIOUS
  <1> HIDE DEF p
  <1>5. ASSUME p.protocol = "vless" PROVE CursorReads(p) /\ Valid(p)
    <2>1. p.vless \in Vlesses /\ VlessParses(p.vless)
      BY <1>1, <1>5, Shape DEF Parses
    <2>2. CursorReadsVless(p.vless) /\ VlessValid(p.vless)
      BY <2>1
      DEF Vlesses, VlessParses, HostParses, Within, CursorReadsVless, VlessValid, HostValid
    <2> QED
      BY <1>5, <2>2 DEF CursorReads, Valid
  <1>6. ASSUME p.protocol # "vless" PROVE CursorReads(p) /\ Valid(p)
    <2>1. p.wg \in WireGuards /\ WireGuardParses(p.wg)
      BY <1>1, <1>6, Shape DEF Parses
    <2>2. CursorReadsWireGuard(p.wg)
      BY <2>1
      DEF WireGuards, Networks, Lists, WireGuardParses, NetworksParse, HostParses, Within,
          CursorReadsWireGuard, CursorReadsList, AddressText
    <2>3. WireGuardValid(p.wg)
      <3>1. ~p.wg.addresses.loose /\ ~p.wg.allowed.loose
        BY <1>3, <1>6 DEF LooselyWritten
      <3>2. p.wg.psk # {"zero"} /\ p.wg.keepalive # {0}
        BY <1>2, <1>6, <2>1 DEF WireGuardParses
      <3> QED
        BY <2>1, <3>1, <3>2
        DEF WireGuards, Networks, Lists, WireGuardParses, NetworksParse, HostParses, Within,
            WireGuardValid, NetworksValid, HostValid
    <2>4. CASE p.protocol = "amneziaWg"
      <3>1. p.awg \in AmneziaExtras /\ AmneziaParses(p.awg) /\ AmneziaEncodes(p.awg)
        BY <1>1, <1>4, <2>4, Shape DEF Parses, Encodes
      <3>2. ~p.awg.junk.c1
        BY <1>3, <2>4 DEF LooselyWritten
      <3>3. CursorReadsAmnezia(p.awg) /\ AmneziaValid(p.awg)
        BY <3>1, <3>2
        DEF AmneziaExtras, Junk, AmneziaParses, AmneziaEncodes, Within, Bounded,
            CursorReadsAmnezia, AmneziaValid
      <3> QED
        BY <1>6, <2>2, <2>3, <2>4, <3>3 DEF CursorReads, Valid
    <2> QED
      BY <1>6, <2>2, <2>3, <2>4 DEF CursorReads, Valid
  <1> QED
    BY <1>5, <1>6 DEF p

\* What was accepted is written and read again.
LEMMA VaultAgrees ==
  ASSUME NEW p \in Profiles, Parses(p), Encodes(p), CursorReads(p), Valid(p)
  PROVE  Puts(p) /\ FileSize(p) <= MaxFrameSize
  <1>1. ASSUME p.protocol = "vless" PROVE Puts(p)
    <2>1. p.vless \in Vlesses /\ VlessParses(p.vless) /\ VlessEncodes(p.vless)
      BY <1>1, Shape DEF Parses, Encodes
    <2>2. VlessPuts(p.vless)
      BY <2>1 DEF VlessParses, VlessEncodes, VlessPuts, Vlesses, Within, Bounded
    <2> QED
      BY <1>1, <2>2 DEF Puts
  <1>2. ASSUME p.protocol # "vless" PROVE Puts(p)
    <2>1. p.wg \in WireGuards /\ WireGuardParses(p.wg) /\ WireGuardEncodes(p.wg)
      BY <1>2, Shape DEF Parses, Encodes
    <2>2. WireGuardPuts(p.wg)
      BY <2>1
      DEF WireGuardParses, NetworksParse, WireGuardEncodes, WireGuardPuts,
          WireGuards, Networks, Lists, Within
    <2>3. p.protocol = "amneziaWg" => AmneziaPuts(p.awg)
      BY Shape
      DEF Encodes, CursorReads, CursorReadsAmnezia, AmneziaEncodes, AmneziaPuts,
          AmneziaExtras, Junk
    <2> QED
      BY <1>2, <2>2, <2>3 DEF Puts
  <1>3. FileSize(p) <= MaxFrameSize
    BY SumOfBounds, MaxFrameSizeAssumption DEF FileSize, FrameSize
  <1> QED
    BY <1>1, <1>2, <1>3

\* Nothing of this depends on how a DNS server is printed.
LEMMA PrintingKeeps ==
  ASSUME NEW p \in Profiles, Parses(p), Encodes(p), CursorReads(p), Valid(p),
         NEW q \in Written(p)
  PROVE  q \in Profiles /\ Parses(q) /\ Encodes(q) /\ CursorReads(q) /\ Valid(q)
  <1>1. CASE p.protocol # "vless" /\ p.wg.dns.count > 0
    <2>1. PICK n \in 2 .. 39 : q = [p EXCEPT !.wg = [p.wg EXCEPT !.dns.each = n]]
      BY <1>1 DEF Written, Printed
    <2> DEFINE w == [p.wg EXCEPT !.dns.each = n]
    <2>2. p.wg \in WireGuards
      BY <1>1, Shape
    <2>3. w \in WireGuards /\ w.dns = [count |-> p.wg.dns.count, each |-> n]
      BY <2>2 DEF WireGuards, Lists
    <2>4. /\ w.privateKey = p.wg.privateKey /\ w.peerKey = p.wg.peerKey /\ w.psk = p.wg.psk
          /\ w.addresses = p.wg.addresses /\ w.host = p.wg.host /\ w.port = p.wg.port
          /\ w.allowed = p.wg.allowed /\ w.keepalive = p.wg.keepalive
      BY <2>2 DEF WireGuards
    <2> HIDE DEF w
    <2>5. /\ q \in Profiles /\ q.protocol = p.protocol /\ q.wg = w
          /\ p.protocol = "amneziaWg" => q.awg = p.awg
      BY <1>1, <2>1, <2>3 DEF Profiles, w
    <2>6. Parses(q)
      BY <1>1, <2>3, <2>4, <2>5 DEF Parses, WireGuardParses, Within, AddressText
    <2>7. Encodes(q)
      BY <1>1, <2>3, <2>4, <2>5
      DEF Encodes, WireGuardEncodes, BoundedList, Bounded, Within
    <2>8. CursorReads(q)
      BY <1>1, <2>3, <2>4, <2>5 DEF CursorReads, CursorReadsWireGuard, CursorReadsList
    <2>9. Valid(q)
      BY <1>1, <2>3, <2>4, <2>5 DEF Valid, WireGuardValid
    <2> QED
      BY <2>5, <2>6, <2>7, <2>8, <2>9
  <1>2. CASE ~(p.protocol # "vless" /\ p.wg.dns.count > 0)
    <2>1. q = p
      BY <1>2 DEF Written
    <2> QED
      BY <2>1
  <1> QED
    BY <1>1, <1>2

-----------------------------------------------------------------------------
(* ProfileTransfer: the way of a configuration *)

\* The profile that travels, and how far it is known to be good.
Good(q) == q \in Profiles /\ Parses(q) /\ Encodes(q) /\ CursorReads(q) /\ Valid(q)

TransferInv ==
  LET p == Parsed(config)
  IN /\ config \in Configs
     /\ stage = "parsed" => Parses(config)
     /\ stage = "sent" =>
          Parses(config) /\ Encodes(p) /\ frame = [size |-> FrameSize(p), fields |-> Fields(p)]
     /\ stage = "accepted" => held = p /\ Good(p)
     /\ stage = "stored" => file \in Written(p) /\ Good(file)
     /\ stage = "loaded" => held \in Written(p)
     /\ stage = "rejected" => LooselyWritten(config)
     /\ TransferTypeOK
     /\ stage \notin {"tooLarge", "unstorable", "unloadable"}

\* A configuration starts unread.
LEMMA TransferInvInit == TransferInit => TransferInv
  BY DEF TransferInit, TransferInv, TransferTypeOK, Stages

\* Every stage hands on what the next one takes.
LEMMA TransferInvNext == TransferInv /\ [TransferNext]_transferVars => TransferInv'
  <1> SUFFICES ASSUME TransferInv, [TransferNext]_transferVars
               PROVE  TransferInv'
    OBVIOUS
  <1>0. config \in Configs /\ config \in Profiles
    BY ConfigsAssumption DEF TransferInv
  <1>1. CASE Parse
    BY <1>1 DEF Parse, Step, TransferInv, TransferTypeOK, Stages, Refusals
  <1>2. CASE Encode
    <2>1. Parses(config)
      BY <1>2 DEF Encode, TransferInv
    <2>2. Parsed(config) \in Profiles /\ Parses(Parsed(config))
      BY <1>0, <2>1, ParsedParses
    <2>3. Encodes(Parsed(config)) =>
            ProfileSize(Parsed(config)) \in Nat /\ FrameSize(Parsed(config)) <= MaxFrameSize
      BY <2>2, SumOfBounds
    <2>4. Encodes(Parsed(config)) => ~(FrameSize(Parsed(config)) > MaxFrameSize)
      BY <2>3, MaxFrameSizeAssumption DEF FrameSize
    <2>5. config' = config
      BY <1>2 DEF Encode
    <2>8. TransferTypeOK'
      <3>1. FrameSize(Parsed(config)) \in Nat \/ ~Encodes(Parsed(config))
        BY <2>3 DEF FrameSize
      <3>2. Fields(Parsed(config)) \in Profiles
        BY <2>2, FieldsSame
      <3>3. TransferTypeOK
        BY DEF TransferInv
      <3> HIDE DEF Parsed
      <3> QED
        BY <1>2, <3>1, <3>2, <3>3 DEF Encode, TransferTypeOK, Stages, Refusals
    <2>6. CASE Encodes(Parsed(config))
      <3>1. /\ stage' = "sent"
            /\ frame' = [size |-> FrameSize(Parsed(config)), fields |-> Fields(Parsed(config))]
        BY <1>2, <2>4, <2>6 DEF Encode
      <3> QED
        BY <1>0, <2>1, <2>5, <2>6, <2>8, <3>1 DEF TransferInv
    <2>7. CASE ~Encodes(Parsed(config))
      <3>1. stage' = "unencodable"
        BY <1>2, <2>7 DEF Encode
      <3> QED
        BY <1>0, <2>5, <2>8, <3>1 DEF TransferInv
    <2> QED
      BY <2>6, <2>7
  <1>3. CASE Decode
    <2> DEFINE p == Parsed(config)
    <2>1. Parses(config) /\ Encodes(p) /\ frame = [size |-> FrameSize(p), fields |-> Fields(p)]
      BY <1>3 DEF Decode, Step, TransferInv
    <2>2. p \in Profiles /\ Parses(p)
      BY <1>0, <2>1, ParsedParses
    <2>3. frame.size <= MaxFrameSize /\ frame.fields = p /\ FrameSize(p) = frame.size
      BY <2>1, <2>2, FieldsSame, SumOfBounds
    <2>4. config' = config
      BY <1>3 DEF Decode
    <2>7. TransferTypeOK'
      BY <1>3, <2>2, <2>3 DEF Decode, Step, TransferInv, TransferTypeOK, Stages, Refusals
    <2>5. CASE CursorReads(p) /\ Valid(p)
      <3>1. stage' = "accepted" /\ held' = p
        BY <1>3, <2>3, <2>5 DEF Decode, Step
      <3> QED
        BY <1>0, <2>1, <2>2, <2>4, <2>5, <2>7, <3>1 DEF TransferInv, Good
    <2>6. CASE ~(CursorReads(p) /\ Valid(p))
      <3>1. stage' = "rejected"
        BY <1>3, <2>3, <2>6 DEF Decode, Step
      <3>2. LooselyWritten(config)
        BY <1>0, <2>1, <2>6, ServiceAgrees
      <3>3. LooselyWritten(config)'
        BY <2>4, <3>2 DEF LooselyWritten
      <3> QED
        BY <1>0, <2>4, <2>7, <3>1, <3>3 DEF TransferInv
    <2> QED
      BY <2>5, <2>6
  <1>4. CASE Store
    <2>1. held = Parsed(config) /\ Good(held)
      BY <1>4 DEF Store, TransferInv
    <2>2. PICK q \in Written(held) :
            /\ stage' = IF Valid(held) /\ Puts(q) /\ FileSize(q) <= MaxFrameSize
                        THEN "stored" ELSE "unstorable"
            /\ file' = IF stage' = "stored" THEN q ELSE Nothing
      BY <1>4 DEF Store
    <2>3. Good(q)
      BY <2>1, <2>2, PrintingKeeps DEF Good
    <2>4. Puts(q) /\ FileSize(q) <= MaxFrameSize
      BY <2>3, VaultAgrees DEF Good
    <2>5. stage' = "stored" /\ file' = q
      BY <2>1, <2>2, <2>4 DEF Good
    <2>6. config' = config
      BY <1>4 DEF Store
    <2> QED
      BY <1>0, <1>4, <2>1, <2>2, <2>3, <2>5, <2>6
      DEF TransferInv, TransferTypeOK, Store, Good, Stages
  <1>5. CASE Load
    <2>1. file \in Written(Parsed(config)) /\ Good(file)
      BY <1>5 DEF Load, Step, TransferInv
    <2>2. FileSize(file) <= MaxFrameSize
      BY <2>1, VaultAgrees DEF Good
    <2>3. stage' = "loaded" /\ held' = file
      BY <1>5, <2>1, <2>2 DEF Load, Step, Good
    <2>4. config' = config
      BY <1>5 DEF Load
    <2> QED
      BY <1>0, <1>5, <2>1, <2>3, <2>4 DEF TransferInv, TransferTypeOK, Load, Good, Stages
  <1>6. CASE UNCHANGED transferVars
    BY <1>6 DEF transferVars, TransferInv, LooselyWritten, Good, TransferTypeOK
  <1>7. CASE Ended
    BY <1>6, <1>7 DEF Ended
  <1> QED
    BY <1>1, <1>2, <1>3, <1>4, <1>5, <1>6, <1>7 DEF TransferNext

\* The invariant of every behaviour.
LEMMA TransferInvHolds == TransferSpec => []TransferInv
  BY TransferInvInit, TransferInvNext, PTL DEF TransferSpec

\* Every reachable state has its type: what travels is a profile at every stage.
THEOREM TypeCorrect == TransferSpec => []TransferTypeOK
  <1>1. TransferInv => TransferTypeOK
    BY DEF TransferInv
  <1> QED
    BY <1>1, TransferInvHolds, PTL

\* Whatever the parsers let through fits in a frame of 32 KiB, for every set of
\* configurations: PROFILE_TOO_LARGE is never thrown.
THEOREM EveryFrameFits == TransferSpec => []FrameFits
  <1>1. TransferInv => FrameFits
    BY DEF TransferInv, FrameFits
  <1> QED
    BY <1>1, TransferInvHolds, PTL

\* The service refuses nothing that the application let through but two ways of
\* writing, whatever the server sends.
THEOREM SidesAgree == TransferSpec => []RefusedOnlyForWriting
  <1>1. TransferInv => RefusedOnlyForWriting
    BY DEF TransferInv, RefusedOnlyForWriting, LooselyWritten
  <1> QED
    BY <1>1, TransferInvHolds, PTL

\* The vault keeps every profile of this application that the decoder accepts.
THEOREM VaultKeeps == TransferSpec => []AcceptedIsStorable
  <1>1. TransferInv => AcceptedIsStorable
    BY DEF TransferInv, AcceptedIsStorable
  <1> QED
    BY <1>1, TransferInvHolds, PTL

\* A stored profile is loaded as it was sent.
THEOREM VaultReturns == TransferSpec => []StoredIsLoadable
  <1>1. TransferInv => StoredIsLoadable
    BY DEF TransferInv, StoredIsLoadable
  <1> QED
    BY <1>1, TransferInvHolds, PTL

-----------------------------------------------------------------------------
(* DesktopEngine: its inductive invariant *)

\* Whose result shows the phase of the service.
Reporters == StatusCalls \cup {"operation"}

\* What phase p says of the service is so.
Told(p) ==
  /\ p = "Connected" => machine.phase = "Connected"
  /\ p = "Disconnected" => machine.phase = "Disconnected" /\ tunnel = NoTunnel
  /\ Busy(p) => machine.phase = p

\* One exchange at a time holds the pipe, from its command to its answer; one
\* whose answer has been read is handled before the next one ends.
PipeOrder ==
  /\ \A e \in Exchanges : step[e] \in {"asked", "answered"} <=> pipe = e
  /\ \A e \in Exchanges : step[e] = "asked" /\ up => pending = CommandOf(e)
  /\ pending # None =>
       up /\ (pipe = "abandoned" \/ (pipe \in Exchanges /\ step[pipe] = "asked"))
  /\ \A e, f \in Exchanges : step[e] = "closed" /\ step[f] = "closed" => e = f
  /\ pipe = "abandoned" => InOrder

\* An operation is in flight from its first await to the end of its exchange.
OperationInv ==
  /\ inFlight <=> op # None
  /\ step["operation"] # None => op # None
  /\ step["operation"] \notin {None, "access"} => op \in {"connect", "disconnect"}
  /\ step["delete"] # "access" /\ step["screenStatus"] # "access"
  /\ step["signOutStatus"] # "access"
  /\ step["signOutStatus"] # None => signOut = "status"
  /\ step["delete"] # None => signOut = "delete"
  /\ \A e \in Exchanges : step[e] \in {"answered", "closed"} /\ e # "delete" => reply[e] \in Phases

\* A disconnected service has no tunnel.
ServiceInv ==
  /\ tunnel \in {NoTunnel, Handle}
  /\ up /\ machine.phase = "Disconnected" => tunnel = NoTunnel

\* A reply holds until the next one is there, and what is shown does until then.
ToldInv ==
  /\ informed => up
  /\ \A e \in Exchanges : step[e] = "answered" /\ up => Told(reply[e])
  /\ \A e \in Exchanges :
       step[e] = "closed" /\ up =>
         Told(reply[e]) \/ \E f \in Reporters : step[f] = "answered"
  /\ informed => Told(phase) \/ \E f \in Reporters : step[f] \in {"answered", "closed"}

\* After a connect that ended connected the protocol is forgotten only when the
\* service is disconnected, and it stays so without another connect.
NamedInv ==
  settled =>
    /\ op \notin {"connect", "connectUnprovisioned"} /\ pending # "connect"
    /\ \A e \in Exchanges :
         up /\ step[e] = "closed" /\ reply[e] = "Disconnected" => machine.phase # "Connected"
    /\ named # Handle =>
         /\ up => machine.phase # "Connected"
         /\ informed => phase # "Connected"
         /\ \A e \in Exchanges :
              up /\ step[e] \in {"answered", "closed"} => reply[e] # "Connected"

EngineIInv ==
  TypeOK /\ PipeOrder /\ OperationInv /\ ServiceInv /\ ToldInv /\ NamedInv

-----------------------------------------------------------------------------
(* DesktopEngine: names, and the results of the machine *)

\* The exchanges by name, and the profile.
LEMMA ExchangeNames ==
  /\ Exchanges = {"screenStatus", "signOutStatus", "operation", "delete"}
  /\ Reporters = {"screenStatus", "signOutStatus", "operation"}
  /\ Nobody \notin Exchanges /\ "other" \notin Exchanges /\ "abandoned" \notin Exchanges
  /\ Handle \in Handles
BY HandlesAssumption DEF Exchanges, Reporters, StatusCalls, Nobody, Handle

\* The machines the service comes to.
LEMMA MachineAfter ==
  ASSUME machine \in Machines
  PROVE  LET connecting == MarkValidated(BeginConnect(Handle))
         IN  /\ Idle \in Machines /\ Idle.phase = "Disconnected"
             /\ Fail(machine, "Internal") \in Machines
             /\ Fail(machine, "Internal").phase = "Error"
             /\ BeginDisconnect(machine) \in Machines
             /\ BeginDisconnect(machine).phase = "Disconnecting"
             /\ connecting \in Machines /\ connecting.phase = "Connecting"
             /\ MarkConnected(connecting) \in Machines
             /\ MarkConnected(connecting).phase = "Connected"
             /\ Fail(connecting, "Internal") \in Machines
             /\ Fail(connecting, "Internal").phase = "Error"
<1> DEFINE begun == BeginConnect(Handle)
           connecting == MarkValidated(begun)
<1>1. /\ FailurePhase("Internal") = "Error" /\ FailureCode["Internal"] \in FailureCodes
      /\ {"Disconnected", "Connected", "Validating", "Connecting", "Disconnecting", "Error"}
           \subseteq Phases
  BY DEF FailurePhase, FailureCodes, BackendFailures, Phases, TransientPhases, FailurePhases
<1>2. \A m \in Machines :
        /\ Fail(m, "Internal") \in Machines /\ Fail(m, "Internal").phase = "Error"
        /\ BeginDisconnect(m) \in Machines /\ BeginDisconnect(m).phase = "Disconnecting"
        /\ MarkValidated(m) \in Machines /\ MarkValidated(m).phase = "Connecting"
        /\ MarkConnected(m) \in Machines /\ MarkConnected(m).phase = "Connected"
  BY <1>1 DEF Machines, Fail, BeginDisconnect, MarkValidated, MarkConnected
<1>3. Idle \in Machines /\ Idle.phase = "Disconnected"
  BY <1>1 DEF Machines, Idle
<1>4. begun \in Machines
  BY <1>1, ExchangeNames DEF Machines, BeginConnect
<1> HIDE DEF begun
<1>5. connecting \in Machines /\ connecting.phase = "Connecting"
  BY <1>2, <1>4
<1>6. /\ MarkConnected(connecting) \in Machines /\ MarkConnected(connecting).phase = "Connected"
      /\ Fail(connecting, "Internal") \in Machines /\ Fail(connecting, "Internal").phase = "Error"
  <2> HIDE DEF connecting
  <2> QED
    BY <1>2, <1>5
<1>7. /\ Fail(machine, "Internal") \in Machines /\ Fail(machine, "Internal").phase = "Error"
      /\ BeginDisconnect(machine) \in Machines
      /\ BeginDisconnect(machine).phase = "Disconnecting"
  BY <1>2
<1> QED
  BY <1>3, <1>5, <1>6, <1>7 DEF begun

-----------------------------------------------------------------------------
(* DesktopEngine: what happens before a command is asked *)

\* A handler that asks nothing yet can only make the application uninformed.
LEMMA AsksNothing ==
  ASSUME EngineIInv, TypeOK', OperationInv',
         UNCHANGED <<reply, pipe, pending, up, machine, tunnel>>,
         \A e \in Exchanges : \/ step'[e] = step[e]
                              \/ /\ step[e] \in {None, "access", "opening"}
                                 /\ step'[e] \in {None, "access", "opening"},
         step["operation"] = "asked" => op' = op,
         informed' => informed /\ phase' = phase,
         settled' => settled /\ named' = named /\ op' \notin {"connect", "connectUnprovisioned"}
  PROVE  EngineIInv'
<1>1. \A e \in Exchanges : /\ step'[e] = "asked" <=> step[e] = "asked"
                           /\ step'[e] = "answered" <=> step[e] = "answered"
                           /\ step'[e] = "closed" <=> step[e] = "closed"
  BY DEF None
<1>2. PipeOrder'
  <2>1. \A e \in Exchanges : step[e] = "asked" => CommandOf(e)' = CommandOf(e)
    BY DEF CommandOf
  <2>2. InOrder' = InOrder
    BY <1>1 DEF InOrder
  <2> QED
    BY <1>1, <2>1, <2>2 DEF EngineIInv, PipeOrder
<1>3. ServiceInv'
  BY DEF EngineIInv, ServiceInv
<1>4. ToldInv'
  <2>1. \A e \in Exchanges : Told(reply[e])' <=> Told(reply[e])
    BY DEF Told
  <2>2. informed' => (Told(phase)' <=> Told(phase))
    BY DEF Told
  <2>3. \A f \in Reporters : /\ f \in Exchanges
                             /\ step'[f] = "answered" <=> step[f] = "answered"
                             /\ step'[f] = "closed" <=> step[f] = "closed"
    BY <1>1, ExchangeNames
  <2> QED
    BY <1>1, <2>1, <2>2, <2>3 DEF EngineIInv, ToldInv
<1>5. NamedInv'
  BY <1>1 DEF EngineIInv, NamedInv
<1> QED
  BY <1>2, <1>3, <1>4, <1>5 DEF EngineIInv

\* The user presses connect.
LEMMA ConnectKeeps ==
  ASSUME EngineIInv, Connect
  PROVE  EngineIInv'
<1>1. /\ step' = [step EXCEPT !["operation"] = "access"] /\ step["operation"] = None
      /\ step \in [Exchanges -> {None, "access", "opening", "asked", "answered", "closed"}]
      /\ UNCHANGED <<signOut, reply, pipe, pending, up, machine, tunnel, stored, session>>
  BY DEF Connect, EngineIInv, OperationInv, TypeOK, serviceVars
<1>2. /\ phase' = "Validating" /\ informed' = FALSE /\ settled' = FALSE /\ inFlight' = TRUE
      /\ op' \in {"connect", "connectUnprovisioned"} /\ named' \in {Handle, Unprovisioned}
  BY DEF Connect
<1>3. step' \in [Exchanges -> {None, "access", "opening", "asked", "answered", "closed"}]
  BY <1>1
<1>4. \A e \in Exchanges : step'[e] = IF e = "operation" THEN "access" ELSE step[e]
  BY <1>1
<1>5. TypeOK'
  <2>1. phase' \in Phases
    BY <1>2 DEF Phases, TransientPhases
  <2> QED
    BY <1>1, <1>2, <1>3, <2>1 DEF EngineIInv, TypeOK
<1>6. OperationInv'
  BY <1>1, <1>2, <1>4, ExchangeNames DEF EngineIInv, OperationInv, None
<1> QED
  BY <1>1, <1>2, <1>4, <1>5, <1>6, AsksNothing, ExchangeNames DEF None

\* Without a session or a handle the operation ends before it asks.
LEMMA AccessKeeps ==
  ASSUME EngineIInv, Access
  PROVE  EngineIInv'
<1>1. /\ step["operation"] = "access"
      /\ step \in [Exchanges -> {None, "access", "opening", "asked", "answered", "closed"}]
      /\ UNCHANGED <<signOut, reply, pipe, pending, up, machine, tunnel, stored, session>>
      /\ informed' = FALSE /\ UNCHANGED <<named, settled>>
  BY DEF Access, EngineIInv, TypeOK, serviceVars, Emit
<1>2. PICK x \in {None, "opening"} :
        /\ step' = [step EXCEPT !["operation"] = x]
        /\ \/ x = "opening" /\ op = "connect" /\ op' = op /\ inFlight' = inFlight
           \/ x = None /\ op' = None /\ inFlight' = FALSE
  BY DEF Access, EndOperation
<1>3. \A e \in Exchanges : step'[e] = IF e = "operation" THEN x ELSE step[e]
  BY <1>1, <1>2
<1>4. TypeOK'
  <2>1. phase' \in Phases
    BY DEF Access, Emit, Phases, TransientPhases, FailurePhases
  <2>2. step' \in [Exchanges -> {None, "access", "opening", "asked", "answered", "closed"}]
    BY <1>1, <1>2
  <2> QED
    BY <1>1, <1>2, <2>1, <2>2 DEF EngineIInv, TypeOK
<1>5. OperationInv'
  BY <1>1, <1>2, <1>3, ExchangeNames DEF EngineIInv, OperationInv, None
<1>6. settled' => settled /\ named' = named /\ op' \notin {"connect", "connectUnprovisioned"}
  BY <1>1, <1>2 DEF EngineIInv, NamedInv, None
<1> QED
  BY <1>1, <1>3, <1>4, <1>5, <1>6, AsksNothing, ExchangeNames DEF None

\* The user presses disconnect.
LEMMA DisconnectKeeps ==
  ASSUME EngineIInv, Disconnect
  PROVE  EngineIInv'
<1>1. /\ step' = [step EXCEPT !["operation"] = "opening"] /\ step["operation"] = None
      /\ step \in [Exchanges -> {None, "access", "opening", "asked", "answered", "closed"}]
      /\ UNCHANGED <<signOut, reply, pipe, pending, up, machine, tunnel, stored, session>>
  BY DEF Disconnect, BeginDisconnectOp, EngineIInv, OperationInv, TypeOK, serviceVars
<1>2. /\ phase' = "Disconnecting" /\ informed' = FALSE /\ inFlight' = TRUE /\ op' = "disconnect"
      /\ UNCHANGED <<named, settled>>
  BY DEF Disconnect, BeginDisconnectOp, Emit
<1>3. \A e \in Exchanges : step'[e] = IF e = "operation" THEN "opening" ELSE step[e]
  BY <1>1
<1>4. TypeOK'
  <2>1. phase' \in Phases
    BY <1>2 DEF Phases, TransientPhases
  <2>2. step' \in [Exchanges -> {None, "access", "opening", "asked", "answered", "closed"}]
    BY <1>1
  <2> QED
    BY <1>1, <1>2, <2>1, <2>2 DEF EngineIInv, TypeOK
<1>5. OperationInv'
  BY <1>1, <1>2, <1>3, ExchangeNames DEF EngineIInv, OperationInv, None
<1> QED
  BY <1>1, <1>2, <1>3, <1>4, <1>5, AsksNothing, ExchangeNames DEF None

\* A handler that only prepares an exchange of its own, or a sign-out that goes on.
LEMMA OpensLater ==
  ASSUME EngineIInv, UNCHANGED <<guiVars, reply, pipe, pending, serviceVars>>,
         signOut' \in {None, "status", "disconnect", "delete", "clear"}, session' \in BOOLEAN,
         step'["signOutStatus"] # None => signOut' = "status",
         step'["delete"] # None => signOut' = "delete",
         \/ step' = step
         \/ \E e \in Exchanges \ {"operation"} :
              step[e] = None /\ step' = [step EXCEPT ![e] = "opening"]
  PROVE  EngineIInv'
<1>1. /\ UNCHANGED <<phase, informed, named, settled, inFlight, op, reply, pipe, pending, up,
                     machine, tunnel, stored>>
      /\ step \in [Exchanges -> {None, "access", "opening", "asked", "answered", "closed"}]
  BY DEF guiVars, serviceVars, EngineIInv, TypeOK
<1>2. CASE step' = step
  <2>1. TypeOK'
    BY <1>1, <1>2 DEF EngineIInv, TypeOK
  <2>2. OperationInv'
    BY <1>1, <1>2 DEF EngineIInv, OperationInv
  <2>3. settled' => settled /\ named' = named /\ op' \notin {"connect", "connectUnprovisioned"}
    BY <1>1 DEF EngineIInv, NamedInv
  <2> QED
    BY <1>1, <1>2, <2>1, <2>2, <2>3, AsksNothing
<1>3. ASSUME NEW e \in Exchanges \ {"operation"}, step[e] = None,
             step' = [step EXCEPT ![e] = "opening"]
      PROVE  EngineIInv'
  <2>1. \A f \in Exchanges : step'[f] = IF f = e THEN "opening" ELSE step[f]
    BY <1>1, <1>3
  <2>2. TypeOK'
    <3>1. step' \in [Exchanges -> {None, "access", "opening", "asked", "answered", "closed"}]
      BY <1>1, <1>3
    <3> QED
      BY <1>1, <3>1 DEF EngineIInv, TypeOK
  <2>3. OperationInv'
    BY <1>1, <2>1, <1>3, ExchangeNames DEF EngineIInv, OperationInv, None
  <2>4. settled' => settled /\ named' = named /\ op' \notin {"connect", "connectUnprovisioned"}
    BY <1>1 DEF EngineIInv, NamedInv
  <2>5. \A f \in Exchanges : \/ step'[f] = step[f]
                             \/ /\ step[f] \in {None, "access", "opening"}
                                /\ step'[f] \in {None, "access", "opening"}
    BY <1>3, <2>1
  <2> QED
    BY <1>1, <2>2, <2>3, <2>4, <2>5, AsksNothing
<1> QED
  BY <1>2, <1>3

\* The other handlers that start or go on without an exchange.
LEMMA PreparesKeeps ==
  ASSUME EngineIInv, ScreenStatus \/ SignOut \/ SignOutDeletes \/ SignOutClears
  PROVE  EngineIInv'
<1>1. /\ step \in [Exchanges -> {None, "access", "opening", "asked", "answered", "closed"}]
      /\ signOut \in {None, "status", "disconnect", "delete", "clear"} /\ session \in BOOLEAN
      /\ step["signOutStatus"] # None => signOut = "status"
      /\ step["delete"] # None => signOut = "delete"
  BY DEF EngineIInv, TypeOK, OperationInv
<1>2. CASE ScreenStatus
  <2>1. step' = [step EXCEPT !["screenStatus"] = "opening"] /\ step["screenStatus"] = None
        /\ UNCHANGED <<guiVars, signOut, reply, pipe, pending, serviceVars, session>>
    BY <1>2 DEF ScreenStatus
  <2>2. UNCHANGED <<step["signOutStatus"], step["delete"]>>
    BY <1>1, <2>1, ExchangeNames
  <2> QED
    BY <1>1, <2>1, <2>2, OpensLater, ExchangeNames
<1>3. CASE SignOut
  <2>1. /\ signOut = None /\ step["signOutStatus"] = None /\ step["delete"] = None
        /\ UNCHANGED <<session, guiVars, reply, pipe, pending, serviceVars>>
    BY <1>1, <1>3 DEF SignOut, None
  <2>2. CASE signOut' \in {"delete", None} /\ step' = step
    BY <1>1, <2>1, <2>2, OpensLater
  <2>3. CASE signOut' = "status" /\ step' = [step EXCEPT !["signOutStatus"] = "opening"]
    <3>1. step'["delete"] = None
      BY <1>1, <2>1, <2>3, ExchangeNames
    <3> QED
      BY <1>1, <2>1, <2>3, <3>1, OpensLater, ExchangeNames
  <2> QED
    BY <1>3, <2>2, <2>3 DEF SignOut
<1>4. CASE SignOutDeletes
  <2>1. /\ step' = [step EXCEPT !["delete"] = "opening"] /\ step["delete"] = None
        /\ signOut = "delete" /\ step["signOutStatus"] = None
        /\ UNCHANGED <<guiVars, signOut, reply, pipe, pending, serviceVars, session>>
    BY <1>1, <1>4 DEF SignOutDeletes
  <2>2. step'["signOutStatus"] = None
    BY <1>1, <2>1, ExchangeNames
  <2> QED
    BY <1>1, <2>1, <2>2, OpensLater, ExchangeNames
<1>5. CASE SignOutClears
  <2>1. /\ step["signOutStatus"] = None /\ step["delete"] = None /\ step' = step
        /\ signOut' = None /\ session' \in BOOLEAN
        /\ UNCHANGED <<guiVars, reply, pipe, pending, serviceVars>>
    BY <1>1, <1>5 DEF SignOutClears
  <2> QED
    BY <1>1, <2>1, OpensLater
<1> QED
  BY <1>2, <1>3, <1>4, <1>5

-----------------------------------------------------------------------------
(* DesktopEngine: an exchange, until its answer has been read *)

\* What an error leaves of the exchange and of what is shown.
LEMMA FailEffect ==
  ASSUME EngineIInv, NEW e \in Exchanges, ExchangeFails(e),
         step[e] \in {"opening", "asked", "answered"}
  PROVE  /\ step' \in [Exchanges -> {None, "access", "opening", "asked", "answered", "closed"}]
         /\ reply' \in [Exchanges -> Replies \cup {None}]
         /\ \A f \in Exchanges : /\ step'[f] = IF f = e THEN None ELSE step[f]
                                 /\ f # e => reply'[f] = reply[f]
         /\ phase' \in Phases /\ named' = named /\ settled' = settled
         /\ informed' \in BOOLEAN /\ (informed' => e = "delete" /\ informed /\ phase' = phase)
         /\ e = "operation" => op' = None /\ inFlight' = FALSE
         /\ e # "operation" => op' = op /\ inFlight' = inFlight
         /\ signOut' \in {signOut, None}
         /\ step'["signOutStatus"] # None => signOut' = "status"
         /\ step'["delete"] # None => signOut' = "delete"
<1>1. /\ step \in [Exchanges -> {None, "access", "opening", "asked", "answered", "closed"}]
      /\ reply \in [Exchanges -> Replies \cup {None}] /\ phase \in Phases /\ informed \in BOOLEAN
      /\ step["signOutStatus"] # None => signOut = "status"
      /\ step["delete"] # None => signOut = "delete"
      /\ step[e] # None
  BY DEF EngineIInv, TypeOK, OperationInv, None
<1>2. step' = [step EXCEPT ![e] = None] /\ reply' = [reply EXCEPT ![e] = None]
  BY DEF ExchangeFails
<1>3. /\ step' \in [Exchanges -> {None, "access", "opening", "asked", "answered", "closed"}]
      /\ reply' \in [Exchanges -> Replies \cup {None}]
      /\ \A f \in Exchanges : /\ step'[f] = IF f = e THEN None ELSE step[f]
                              /\ f # e => reply'[f] = reply[f]
  BY <1>1, <1>2
<1>4. "Error" \in Phases
  BY DEF Phases, FailurePhases
<1>5. CASE e = "operation"
  <2>1. /\ phase' = "Error" /\ informed' = FALSE /\ named' = named /\ settled' = settled
        /\ inFlight' = FALSE /\ op' = None
        /\ signOut' = IF signOut = "disconnect" THEN None ELSE signOut
    BY <1>5 DEF ExchangeFails, EmitFailure, Emit, EndOperation, SignOutFails
  <2> QED
    BY <1>1, <1>3, <1>4, <1>5, <2>1, ExchangeNames
<1>6. CASE e = "delete"
  <2>1. /\ UNCHANGED <<phase, informed, named, settled, inFlight, op>>
        /\ signOut' = IF signOut = "delete" THEN None ELSE signOut
    BY <1>6 DEF ExchangeFails, guiVars, SignOutFails
  <2> QED
    BY <1>1, <1>3, <1>6, <2>1, ExchangeNames
<1>7. CASE e = "screenStatus"
  <2>1. /\ phase' = "Error" /\ informed' = FALSE /\ named' = named /\ settled' = settled
        /\ UNCHANGED <<inFlight, op, signOut>>
    BY <1>7 DEF ExchangeFails, EmitFailure, Emit
  <2> QED
    BY <1>1, <1>3, <1>4, <1>7, <2>1, ExchangeNames
<1>8. CASE e = "signOutStatus"
  <2>1. /\ phase' = "Error" /\ informed' = FALSE /\ named' = named /\ settled' = settled
        /\ UNCHANGED <<inFlight, op>>
        /\ signOut' = IF signOut = "status" THEN None ELSE signOut
    BY <1>8 DEF ExchangeFails, EmitFailure, Emit, SignOutFails
  <2> QED
    BY <1>1, <1>3, <1>4, <1>8, <2>1, ExchangeNames
<1> QED
  BY <1>5, <1>6, <1>7, <1>8, ExchangeNames

\* An exchange that fails leaves the pipe to the service if that is at its command.
LEMMA FailKeeps ==
  ASSUME EngineIInv, NEW e \in Exchanges, ExchangeFails(e),
         step[e] \in {"opening", "asked", "answered"}, step[e] # "opening" => InOrder,
         pipe' = IF pipe # e THEN pipe ELSE IF pending = None THEN Nobody ELSE "abandoned",
         UNCHANGED <<pending, serviceVars, session>>
  PROVE  EngineIInv'
<1>1. /\ step' \in [Exchanges -> {None, "access", "opening", "asked", "answered", "closed"}]
      /\ reply' \in [Exchanges -> Replies \cup {None}]
      /\ \A f \in Exchanges : /\ step'[f] = IF f = e THEN None ELSE step[f]
                              /\ f # e => reply'[f] = reply[f]
      /\ phase' \in Phases /\ named' = named /\ settled' = settled
      /\ informed' \in BOOLEAN /\ (informed' => e = "delete" /\ informed /\ phase' = phase)
      /\ e = "operation" => op' = None /\ inFlight' = FALSE
      /\ e # "operation" => op' = op /\ inFlight' = inFlight
      /\ signOut' \in {signOut, None}
      /\ step'["signOutStatus"] # None => signOut' = "status"
      /\ step'["delete"] # None => signOut' = "delete"
  BY FailEffect
<1>2. UNCHANGED <<up, machine, tunnel, stored>>
  BY DEF serviceVars
<1>3. TypeOK'
  <2>1. pipe' \in Exchanges \cup {Nobody, "abandoned", "other"}
    BY DEF EngineIInv, TypeOK
  <2>2. inFlight' \in BOOLEAN /\ op' \in {None, "connect", "connectUnprovisioned", "disconnect"}
        /\ signOut' \in {None, "status", "disconnect", "delete", "clear"}
    BY <1>1 DEF EngineIInv, TypeOK
  <2> QED
    BY <1>1, <1>2, <2>1, <2>2 DEF EngineIInv, TypeOK
<1>4. \A f \in Exchanges : (step'[f] = "closed" => step[f] = "closed" /\ f # e)
                           /\ (step[e] = "answered" => step[f] # "closed")
  BY <1>1 DEF InOrder, None
<1>5. PipeOrder'
  <2>1. \A f \in Exchanges : step'[f] \in {"asked", "answered"} <=> pipe' = f
    BY <1>1, ExchangeNames DEF EngineIInv, PipeOrder, None
  <2>2. \A f \in Exchanges : step'[f] = "asked" /\ up' => pending' = CommandOf(f)'
    <3>1. \A f \in Exchanges : f # e => CommandOf(f)' = CommandOf(f)
      BY <1>1, ExchangeNames DEF CommandOf
    <3> QED
      BY <1>1, <1>2, <3>1 DEF EngineIInv, PipeOrder, None
  <2>3. pending' # None =>
          up' /\ (pipe' = "abandoned" \/ (pipe' \in Exchanges /\ step'[pipe'] = "asked"))
    BY <1>1, <1>2 DEF EngineIInv, PipeOrder
  <2>4. \A f, g \in Exchanges : step'[f] = "closed" /\ step'[g] = "closed" => f = g
    BY <1>4 DEF EngineIInv, PipeOrder
  <2>5. pipe' = "abandoned" => InOrder'
    <3>1. ASSUME pipe' = "abandoned"
          PROVE  InOrder
      BY <3>1 DEF EngineIInv, PipeOrder
    <3> QED
      BY <1>4, <3>1 DEF InOrder
  <2> QED
    BY <2>1, <2>2, <2>3, <2>4, <2>5 DEF PipeOrder
<1>6. OperationInv'
  BY <1>1, ExchangeNames DEF EngineIInv, OperationInv, None
<1>7. ServiceInv'
  BY <1>2 DEF EngineIInv, ServiceInv
<1>8. ToldInv'
  <2>1. \A f \in Exchanges : f # e => (Told(reply[f])' <=> Told(reply[f]))
    BY <1>1, <1>2 DEF Told
  <2>2. informed' => (Told(phase)' <=> Told(phase))
    BY <1>1, <1>2 DEF Told
  <2>3. \A f \in Exchanges : step'[f] = "answered" /\ up' => Told(reply[f])'
    BY <1>1, <1>2, <2>1 DEF EngineIInv, ToldInv, None
  <2>4. \A f \in Exchanges :
          step'[f] = "closed" /\ up' =>
            Told(reply[f])' \/ \E g \in Reporters : step'[g] = "answered"
    <3> SUFFICES ASSUME NEW f \in Exchanges, step'[f] = "closed", up'
                 PROVE  Told(reply[f])' \/ \E g \in Reporters : step'[g] = "answered"
      OBVIOUS
    <3>1. step[f] = "closed" /\ f # e /\ step[e] # "answered"
      BY <1>4
    <3>2. Told(reply[f]) \/ \E g \in Reporters : step[g] = "answered"
      BY <1>2, <3>1 DEF EngineIInv, ToldInv
    <3>3. \A g \in Reporters : step[g] = "answered" => step'[g] = "answered"
      BY <1>1, <3>1, ExchangeNames
    <3> QED
      BY <2>1, <3>1, <3>2, <3>3
  <2>5. informed' =>
          Told(phase)' \/ \E g \in Reporters : step'[g] \in {"answered", "closed"}
    <3>1. e = "delete" => \A g \in Reporters : step'[g] = step[g]
      BY <1>1, ExchangeNames
    <3> QED
      BY <1>1, <2>2, <3>1 DEF EngineIInv, ToldInv
  <2>6. informed' => up'
    BY <1>1, <1>2 DEF EngineIInv, ToldInv
  <2> QED
    BY <2>3, <2>4, <2>5, <2>6 DEF ToldInv
<1>9. NamedInv'
  <2>1. op' \in {op, None}
    BY <1>1
  <2> QED
    BY <1>1, <1>2, <1>4, <2>1 DEF EngineIInv, NamedInv, None
<1> QED
  BY <1>3, <1>5, <1>6, <1>7, <1>8, <1>9 DEF EngineIInv

\* Refused, timed out or cut.
LEMMA ErrorsKeep ==
  ASSUME EngineIInv, NEW e \in Exchanges, OpenFails(e) \/ TimeOut(e) \/ Cut(e)
  PROVE  EngineIInv'
<1>1. CASE OpenFails(e)
  <2>1. pipe # e /\ step[e] = "opening"
    BY <1>1 DEF OpenFails, EngineIInv, PipeOrder
  <2> QED
    BY <1>1, <2>1, FailKeeps DEF OpenFails
<1>2. CASE TimeOut(e)
  BY <1>2, FailKeeps DEF TimeOut
<1>3. CASE Cut(e)
  <2>1. pending = None /\ pipe = e
    BY <1>3 DEF Cut, EngineIInv, PipeOrder
  <2> QED
    BY <1>3, <2>1, FailKeeps DEF Cut
<1> QED
  BY <1>1, <1>2, <1>3

\* The pipe is free: the command is on its way.
LEMMA OpenKeeps ==
  ASSUME EngineIInv, NEW e \in Exchanges, Open(e)
  PROVE  EngineIInv'
<1>1. /\ step[e] = "opening" /\ up /\ pipe = Nobody /\ pipe' = e /\ pending' = CommandOf(e)
      /\ step' = [step EXCEPT ![e] = "asked"]
      /\ UNCHANGED <<phase, informed, named, settled, inFlight, op, signOut, reply, up, machine,
                     tunnel, stored, session>>
      /\ step \in [Exchanges -> {None, "access", "opening", "asked", "answered", "closed"}]
  BY DEF Open, guiVars, serviceVars, EngineIInv, TypeOK
<1>2. /\ step' \in [Exchanges -> {None, "access", "opening", "asked", "answered", "closed"}]
      /\ \A f \in Exchanges : step'[f] = IF f = e THEN "asked" ELSE step[f]
  BY <1>1
<1>3. \A f \in Exchanges : step[f] \notin {"asked", "answered"}
  BY <1>1, ExchangeNames DEF EngineIInv, PipeOrder
<1>4. /\ CommandOf(e) \in {"status", "connect", "disconnect", "delete"}
      /\ CommandOf(e) = "connect" => op = "connect"
      /\ \A f \in Exchanges : CommandOf(f)' = CommandOf(f)
  BY <1>1, ExchangeNames DEF CommandOf, EngineIInv, OperationInv, None
<1>5. TypeOK'
  BY <1>1, <1>2, <1>4 DEF EngineIInv, TypeOK
<1>6. PipeOrder'
  <2>1. \A f \in Exchanges : step'[f] \in {"asked", "answered"} <=> pipe' = f
    BY <1>1, <1>2, <1>3
  <2>2. \A f \in Exchanges : step'[f] = "asked" /\ up' => pending' = CommandOf(f)'
    BY <1>1, <1>2, <1>3, <1>4
  <2>3. up' /\ pipe' \in Exchanges /\ step'[pipe'] = "asked"
    BY <1>1, <1>2
  <2>4. \A f, g \in Exchanges : step'[f] = "closed" /\ step'[g] = "closed" => f = g
    BY <1>2 DEF EngineIInv, PipeOrder
  <2>5. pipe' # "abandoned"
    BY <1>1, ExchangeNames
  <2> QED
    BY <2>1, <2>2, <2>3, <2>4, <2>5 DEF PipeOrder
<1>7. OperationInv'
  BY <1>1, <1>2, ExchangeNames DEF EngineIInv, OperationInv, None
<1>8. ServiceInv'
  BY <1>1 DEF EngineIInv, ServiceInv
<1>9. ToldInv'
  <2>1. /\ \A f \in Exchanges : Told(reply[f])' <=> Told(reply[f])
        /\ Told(phase)' <=> Told(phase)
    BY <1>1 DEF Told
  <2>2. \A f \in Reporters : f \in Exchanges
    BY ExchangeNames
  <2> QED
    BY <1>1, <1>2, <1>3, <2>1, <2>2 DEF EngineIInv, ToldInv
<1>10. NamedInv'
  BY <1>1, <1>2, <1>4 DEF EngineIInv, NamedInv
<1> QED
  BY <1>5, <1>6, <1>7, <1>8, <1>9, <1>10 DEF EngineIInv

\* The response is read: the pipe is free before what it says is applied.
LEMMA CloseKeeps ==
  ASSUME EngineIInv, NEW e \in Exchanges, Close(e)
  PROVE  EngineIInv'
<1>1. /\ step[e] = "answered" /\ pipe' = Nobody
      /\ \A f \in Exchanges : step[f] # "closed"
      /\ step' = [step EXCEPT ![e] = "closed"]
      /\ UNCHANGED <<phase, informed, named, settled, inFlight, op, signOut, reply, pending, up,
                     machine, tunnel, stored, session>>
      /\ step \in [Exchanges -> {None, "access", "opening", "asked", "answered", "closed"}]
  BY DEF Close, InOrder, guiVars, serviceVars, EngineIInv, TypeOK
<1>2. /\ step' \in [Exchanges -> {None, "access", "opening", "asked", "answered", "closed"}]
      /\ \A f \in Exchanges : step'[f] = IF f = e THEN "closed" ELSE step[f]
  BY <1>1
<1>3. /\ pipe = e /\ pending = None
      /\ \A f \in Exchanges : step[f] \in {"asked", "answered"} => f = e
  BY <1>1, ExchangeNames DEF EngineIInv, PipeOrder
<1>4. TypeOK'
  BY <1>1, <1>2 DEF EngineIInv, TypeOK
<1>5. PipeOrder'
  <2>1. \A f \in Exchanges : step'[f] \notin {"asked", "answered"}
    BY <1>2, <1>3
  <2>2. pipe' \notin Exchanges /\ pipe' # "abandoned" /\ pending' = None
    BY <1>1, <1>3, ExchangeNames DEF Nobody
  <2>3. \A f, g \in Exchanges : step'[f] = "closed" /\ step'[g] = "closed" => f = g
    BY <1>1, <1>2
  <2> QED
    BY <2>1, <2>2, <2>3 DEF PipeOrder
<1>6. OperationInv'
  BY <1>1, <1>2, ExchangeNames DEF EngineIInv, OperationInv, None
<1>7. ServiceInv'
  BY <1>1 DEF EngineIInv, ServiceInv
<1>8. ToldInv'
  <2>1. /\ \A f \in Exchanges : Told(reply[f])' <=> Told(reply[f])
        /\ Told(phase)' <=> Told(phase)
    BY <1>1 DEF Told
  <2>2. up => Told(reply[e])
    BY <1>1 DEF EngineIInv, ToldInv
  <2>3. \A f \in Exchanges : /\ step'[f] # "answered"
                             /\ step'[f] = "closed" => f = e
    BY <1>1, <1>2, <1>3
  <2>4. \A f \in Reporters : step[f] \in {"answered", "closed"} => step'[f] = "closed"
    BY <1>1, <1>2, <1>3, ExchangeNames
  <2>5. informed => up /\ (Told(phase) \/ \E f \in Reporters : step[f] \in {"answered", "closed"})
    BY DEF EngineIInv, ToldInv
  <2>6. informed' => Told(phase)' \/ \E f \in Reporters : step'[f] \in {"answered", "closed"}
    BY <1>1, <2>1, <2>4, <2>5
  <2> QED
    BY <1>1, <2>1, <2>2, <2>3, <2>5, <2>6 DEF ToldInv
<1>9. NamedInv'
  <2>1. up => Told(reply[e])
    BY <1>1 DEF EngineIInv, ToldInv
  <2>2. up /\ reply[e] = "Disconnected" => machine.phase # "Connected"
    BY <2>1 DEF Told
  <2>3. \A f \in Exchanges : /\ step'[f] = "closed" => f = e
                             /\ step'[f] \in {"answered", "closed"} =>
                                  step[f] \in {"answered", "closed"}
    BY <1>1, <1>2
  <2> QED
    BY <1>1, <2>2, <2>3 DEF EngineIInv, NamedInv
<1> QED
  BY <1>4, <1>5, <1>6, <1>7, <1>8, <1>9 DEF EngineIInv

-----------------------------------------------------------------------------
(* DesktopEngine: what is applied *)

\* A response that is applied: only the one that is waiting is, whatever else
\* is shown and started by it.
LEMMA HandledKeeps ==
  ASSUME EngineIInv, NEW e \in Exchanges, step[e] = "closed", step'[e] = None,
         \A f \in Exchanges \ {e} : /\ reply'[f] = reply[f]
                                    /\ \/ step'[f] = step[f]
                                       \/ step[f] = None /\ step'[f] = "opening",
         UNCHANGED <<pipe, pending, up, machine, tunnel>>, TypeOK', OperationInv',
         step["operation"] = "asked" => op' = op,
         \/ informed' = FALSE /\ named' = named
         \/ Reported(reply[e])
         \/ e = "delete" /\ UNCHANGED <<phase, informed, named>>,
         settled' => /\ op' \notin {"connect", "connectUnprovisioned"} /\ pending # "connect"
                     /\ settled \/ named' = Handle
  PROVE  EngineIInv'
<1>1. \A f \in Exchanges : /\ step'[f] # "closed"
                           /\ step[f] = "closed" <=> f = e
                           /\ step'[f] = "asked" <=> step[f] = "asked"
                           /\ step'[f] = "answered" <=> step[f] = "answered"
  BY DEF EngineIInv, PipeOrder, None
<1>2. \A f \in Exchanges : f # e => (Told(reply[f])' <=> Told(reply[f]))
  BY DEF Told
<1>3. PipeOrder'
  <2>1. \A f \in Exchanges : step[f] = "asked" => CommandOf(f)' = CommandOf(f)
    BY DEF CommandOf
  <2>2. pipe # "abandoned"
    BY DEF EngineIInv, PipeOrder, InOrder
  <2> QED
    BY <1>1, <2>1, <2>2 DEF EngineIInv, PipeOrder
<1>4. ServiceInv'
  BY DEF EngineIInv, ServiceInv
<1>5. ToldInv'
  <2>1. informed' => up'
    BY DEF EngineIInv, ToldInv, Reported
  <2>2. \A f \in Exchanges : step'[f] = "answered" /\ up' => Told(reply[f])'
    BY <1>1, <1>2 DEF EngineIInv, ToldInv
  <2>3. informed' => Told(phase)' \/ \E f \in Reporters : step'[f] \in {"answered", "closed"}
    <3>1. \A f \in Reporters : /\ f \in Exchanges
                               /\ step[f] = "answered" => step'[f] = "answered"
      BY <1>1, ExchangeNames
    <3>2. CASE Reported(reply[e])
      <4>1. phase' = reply[e] /\ informed' = up
        BY <3>2 DEF Reported
      <4>2. Told(phase)' <=> Told(reply[e])
        BY <4>1 DEF Told
      <4>3. up => Told(reply[e]) \/ \E f \in Reporters : step[f] = "answered"
        BY DEF EngineIInv, ToldInv
      <4> QED
        BY <3>1, <4>1, <4>2, <4>3
    <3>3. CASE e = "delete" /\ UNCHANGED <<phase, informed, named>>
      <4>1. Told(phase)' <=> Told(phase)
        BY <3>3 DEF Told
      <4>2. \A f \in Reporters : step[f] # "closed"
        BY <1>1, <3>3, ExchangeNames
      <4>3. informed => Told(phase) \/ \E f \in Reporters : step[f] \in {"answered", "closed"}
        BY DEF EngineIInv, ToldInv
      <4> QED
        BY <3>1, <3>3, <4>1, <4>2, <4>3
    <3> QED
      BY <3>2, <3>3
  <2> QED
    BY <1>1, <2>1, <2>2, <2>3 DEF ToldInv
<1>6. NamedInv'
  <2> SUFFICES ASSUME settled', named' # Handle
               PROVE  /\ up => machine.phase # "Connected"
                      /\ informed' => phase' # "Connected"
                      /\ \A f \in Exchanges :
                           up /\ step'[f] \in {"answered", "closed"} => reply'[f] # "Connected"
    BY <1>1 DEF NamedInv
  <2>1. settled
    OBVIOUS
  <2>2. CASE named # Handle /\ named' = named
    <3>1. /\ up => machine.phase # "Connected"
          /\ informed => phase # "Connected"
          /\ \A f \in Exchanges :
               up /\ step[f] \in {"answered", "closed"} => reply[f] # "Connected"
      BY <2>1, <2>2 DEF EngineIInv, NamedInv
    <3>2. informed' => phase' # "Connected"
      BY <3>1 DEF Reported
    <3>3. \A f \in Exchanges : step'[f] \in {"answered", "closed"} => f # e /\ step[f] = "answered"
      BY <1>1 DEF None
    <3> QED
      BY <3>1, <3>2, <3>3
  <2>3. CASE Reported(reply[e]) /\ reply[e] = "Disconnected"
    <3>1. phase' # "Connected"
      BY <2>3 DEF Reported
    <3>2. up => machine.phase # "Connected"
      BY <2>1, <2>3 DEF EngineIInv, NamedInv
    <3>3. \A f \in Exchanges : step'[f] \in {"answered", "closed"} => f # e /\ step[f] = "answered"
      BY <1>1 DEF None
    <3>4. \A f \in Exchanges : step[f] = "answered" /\ up /\ reply[f] = "Connected" =>
            machine.phase = "Connected"
      BY DEF EngineIInv, ToldInv, Told
    <3> QED
      BY <3>1, <3>2, <3>3, <3>4
  <2>4. \/ named' = named
        \/ Reported(reply[e]) /\ reply[e] = "Disconnected"
    BY DEF Reported
  <2> QED
    BY <2>2, <2>3, <2>4
<1> QED
  BY <1>3, <1>4, <1>5, <1>6 DEF EngineIInv

\* What a handled exchange leaves of the others.
LEMMA HandledEffect ==
  ASSUME EngineIInv, NEW e \in Exchanges, Handled(e)
  PROVE  /\ step[e] = "closed" /\ (e # "delete" => reply[e] \in Phases)
         /\ step' \in [Exchanges -> {None, "access", "opening", "asked", "answered", "closed"}]
         /\ reply' \in [Exchanges -> Replies \cup {None}]
         /\ \A f \in Exchanges : /\ step'[f] = IF f = e THEN None ELSE step[f]
                                 /\ f # e => reply'[f] = reply[f]
         /\ UNCHANGED <<pipe, pending, up, machine, tunnel, stored, session>>
<1>1. /\ step[e] = "closed" /\ step' = [step EXCEPT ![e] = None]
      /\ reply' = [reply EXCEPT ![e] = None]
      /\ UNCHANGED <<pipe, pending, up, machine, tunnel, stored, session>>
  BY DEF Handled, serviceVars
<1>2. /\ step \in [Exchanges -> {None, "access", "opening", "asked", "answered", "closed"}]
      /\ reply \in [Exchanges -> Replies \cup {None}] /\ (e # "delete" => reply[e] \in Phases)
  BY <1>1 DEF EngineIInv, TypeOK, OperationInv
<1> QED
  BY <1>1, <1>2

\* No connect is under way when the answer to the operation is applied.
LEMMA NoConnectPends ==
  ASSUME EngineIInv, step["operation"] = "closed"
  PROVE  pending # "connect"
<1> SUFFICES ASSUME pending = "connect"
             PROVE  FALSE
  OBVIOUS
<1>1. up /\ pipe # "abandoned"
  BY ExchangeNames DEF EngineIInv, PipeOrder, InOrder, None
<1>2. pipe \in Exchanges /\ step[pipe] = "asked" /\ CommandOf(pipe) = "connect"
  BY <1>1, ExchangeNames DEF EngineIInv, PipeOrder, None
<1> QED
  BY <1>2, ExchangeNames DEF CommandOf

\* connect() has ended: it is settled only with its own protocol still shown.
LEMMA ApplyConnectKeeps ==
  ASSUME EngineIInv, ApplyConnect
  PROVE  EngineIInv'
<1> DEFINE e == "operation"
<1>1. /\ op = "connect" /\ Handled(e) /\ Reported(reply[e]) /\ op' = None /\ inFlight' = FALSE
      /\ settled' = (phase' = "Connected" /\ named = Handle) /\ signOut' = signOut
  BY DEF ApplyConnect, EndOperation
<1>2. /\ e \in Exchanges /\ step[e] = "closed" /\ reply[e] \in Phases
      /\ step' \in [Exchanges -> {None, "access", "opening", "asked", "answered", "closed"}]
      /\ reply' \in [Exchanges -> Replies \cup {None}]
      /\ \A f \in Exchanges : /\ step'[f] = IF f = e THEN None ELSE step[f]
                              /\ f # e => reply'[f] = reply[f]
      /\ UNCHANGED <<pipe, pending, up, machine, tunnel, stored, session>>
  BY <1>1, HandledEffect, ExchangeNames
<1>3. TypeOK'
  <2>1. phase' \in Phases /\ informed' \in BOOLEAN /\ named' \in {Handle, Unprovisioned, NoHandle}
        /\ settled' \in BOOLEAN
    BY <1>1, <1>2 DEF Reported, EngineIInv, TypeOK
  <2> QED
    BY <1>1, <1>2, <2>1 DEF EngineIInv, TypeOK
<1>4. OperationInv'
  BY <1>1, <1>2, ExchangeNames DEF EngineIInv, OperationInv, None
<1>5. settled' => /\ op' \notin {"connect", "connectUnprovisioned"} /\ pending # "connect"
                  /\ named' = Handle
  BY <1>1, <1>2, NoConnectPends DEF Reported, None
<1> QED
  BY <1>1, <1>2, <1>3, <1>4, <1>5, HandledKeeps

\* disconnect() has ended.
LEMMA ApplyDisconnectKeeps ==
  ASSUME EngineIInv, ApplyDisconnect
  PROVE  EngineIInv'
<1> DEFINE e == "operation"
<1>1. /\ op = "disconnect" /\ Handled(e) /\ op' = None /\ inFlight' = FALSE /\ settled' = settled
      /\ signOut' \in {signOut, None} \cup IF signOut = "disconnect" THEN {"delete"} ELSE {}
      /\ signOut # "disconnect" => signOut' = signOut
  BY DEF ApplyDisconnect, EndOperation, EmitFailure, Emit, SignOutFails
<1>2. /\ e \in Exchanges /\ step[e] = "closed" /\ reply[e] \in Phases
      /\ step' \in [Exchanges -> {None, "access", "opening", "asked", "answered", "closed"}]
      /\ reply' \in [Exchanges -> Replies \cup {None}]
      /\ \A f \in Exchanges : /\ step'[f] = IF f = e THEN None ELSE step[f]
                              /\ f # e => reply'[f] = reply[f]
      /\ UNCHANGED <<pipe, pending, up, machine, tunnel, stored, session>>
  BY <1>1, HandledEffect, ExchangeNames
<1>3. \/ Reported(reply[e])
      \/ phase' = "Error" /\ informed' = FALSE /\ named' = named
  BY DEF ApplyDisconnect, EmitFailure, Emit
<1>4. TypeOK'
  <2>1. phase' \in Phases /\ informed' \in BOOLEAN /\ named' \in {Handle, Unprovisioned, NoHandle}
    BY <1>2, <1>3 DEF Reported, EngineIInv, TypeOK, Phases, FailurePhases
  <2>2. signOut' \in {None, "status", "disconnect", "delete", "clear"}
    BY <1>1 DEF EngineIInv, TypeOK
  <2> QED
    BY <1>1, <1>2, <2>1, <2>2 DEF EngineIInv, TypeOK
<1>5. OperationInv'
  BY <1>1, <1>2, ExchangeNames DEF EngineIInv, OperationInv, None
<1>6. settled' => /\ op' \notin {"connect", "connectUnprovisioned"} /\ pending # "connect"
                  /\ settled
  BY <1>1, <1>2, NoConnectPends DEF None
<1> QED
  BY <1>1, <1>2, <1>3, <1>4, <1>5, <1>6, HandledKeeps

\* A status reply.
LEMMA ApplyStatusKeeps ==
  ASSUME EngineIInv, NEW e \in StatusCalls, Handled(e), Reported(reply[e]),
         UNCHANGED <<settled, inFlight, op>>,
         signOut' \in {None, "status", "disconnect", "delete", "clear"},
         e = "signOutStatus" \/ signOut' = signOut
  PROVE  EngineIInv'
<1>1. /\ e \in Exchanges /\ e # "operation" /\ step[e] = "closed" /\ reply[e] \in Phases
      /\ step' \in [Exchanges -> {None, "access", "opening", "asked", "answered", "closed"}]
      /\ reply' \in [Exchanges -> Replies \cup {None}]
      /\ \A f \in Exchanges : /\ step'[f] = IF f = e THEN None ELSE step[f]
                              /\ f # e => reply'[f] = reply[f]
      /\ UNCHANGED <<pipe, pending, up, machine, tunnel, stored, session>>
  BY HandledEffect, ExchangeNames DEF StatusCalls
<1>2. TypeOK'
  <2>1. phase' \in Phases /\ informed' \in BOOLEAN /\ named' \in {Handle, Unprovisioned, NoHandle}
    BY <1>1 DEF Reported, EngineIInv, TypeOK
  <2> QED
    BY <1>1, <2>1 DEF EngineIInv, TypeOK
<1>3. OperationInv'
  <2>1. e = "signOutStatus" => signOut = "status" /\ step["delete"] = None
    BY <1>1 DEF EngineIInv, OperationInv, None
  <2> QED
    BY <1>1, <2>1, ExchangeNames DEF EngineIInv, OperationInv, None
<1>4. settled' => /\ op' \notin {"connect", "connectUnprovisioned"} /\ pending # "connect"
                  /\ settled
  BY DEF EngineIInv, NamedInv
<1> QED
  BY <1>1, <1>2, <1>3, <1>4, HandledKeeps

\* A sign-out that finds the tunnel connected begins a disconnect.
LEMMA SignOutDisconnects ==
  ASSUME EngineIInv, step["signOutStatus"] = "closed", BeginDisconnectOp, signOut' = "disconnect",
         step' = [step EXCEPT !["signOutStatus"] = None, !["operation"] = "opening"],
         reply' = [reply EXCEPT !["signOutStatus"] = None],
         UNCHANGED <<pipe, pending, serviceVars, session>>
  PROVE  EngineIInv'
<1> DEFINE e == "signOutStatus"
<1>1. /\ ~inFlight /\ inFlight' = TRUE /\ op' = "disconnect" /\ phase' = "Disconnecting"
      /\ informed' = FALSE /\ UNCHANGED <<named, settled, pipe, pending, up, machine, tunnel,
                                          stored, session>>
  BY DEF BeginDisconnectOp, Emit, serviceVars
<1>2. /\ step \in [Exchanges -> {None, "access", "opening", "asked", "answered", "closed"}]
      /\ reply \in [Exchanges -> Replies \cup {None}]
      /\ step["operation"] = None /\ step["delete"] = None
      /\ e \in Exchanges /\ "operation" \in Exchanges
  BY <1>1, ExchangeNames DEF EngineIInv, TypeOK, OperationInv, None
<1>3. /\ step' \in [Exchanges -> {None, "access", "opening", "asked", "answered", "closed"}]
      /\ reply' \in [Exchanges -> Replies \cup {None}]
      /\ \A f \in Exchanges : /\ step'[f] = IF f = e THEN None
                                            ELSE IF f = "operation" THEN "opening" ELSE step[f]
                              /\ f # e => reply'[f] = reply[f]
  BY <1>2
<1>4. TypeOK'
  <2>1. phase' \in Phases
    BY <1>1 DEF Phases, TransientPhases
  <2> QED
    BY <1>1, <1>3, <2>1 DEF EngineIInv, TypeOK
<1>5. OperationInv'
  BY <1>1, <1>2, <1>3, ExchangeNames DEF EngineIInv, OperationInv, None
<1>6. settled' => /\ op' \notin {"connect", "connectUnprovisioned"} /\ pending # "connect"
                  /\ settled
  BY <1>1 DEF EngineIInv, NamedInv
<1>7. \A f \in Exchanges \ {e} : /\ reply'[f] = reply[f]
                                 /\ \/ step'[f] = step[f]
                                    \/ step[f] = None /\ step'[f] = "opening"
  BY <1>2, <1>3
<1>8. step'[e] = None /\ step["operation"] # "asked"
  BY <1>2, <1>3 DEF None
<1> QED
  BY <1>1, <1>2, <1>4, <1>5, <1>6, <1>7, <1>8, HandledKeeps

\* A deleted profile shows nothing.
LEMMA ApplyDeleteKeeps ==
  ASSUME EngineIInv, ApplyDelete
  PROVE  EngineIInv'
<1> DEFINE e == "delete"
<1>1. /\ Handled(e) /\ UNCHANGED <<phase, informed, named, settled, inFlight, op>>
      /\ signOut' \in {None, "clear"}
  BY DEF ApplyDelete, guiVars
<1>2. /\ e \in Exchanges /\ step[e] = "closed"
      /\ step' \in [Exchanges -> {None, "access", "opening", "asked", "answered", "closed"}]
      /\ reply' \in [Exchanges -> Replies \cup {None}]
      /\ \A f \in Exchanges : /\ step'[f] = IF f = e THEN None ELSE step[f]
                              /\ f # e => reply'[f] = reply[f]
      /\ UNCHANGED <<pipe, pending, up, machine, tunnel, stored, session>>
  BY <1>1, HandledEffect, ExchangeNames
<1>3. TypeOK'
  BY <1>1, <1>2 DEF EngineIInv, TypeOK
<1>4. OperationInv'
  <2>1. step["signOutStatus"] = None
    BY <1>2 DEF EngineIInv, OperationInv, None
  <2> QED
    BY <1>1, <1>2, <2>1, ExchangeNames DEF EngineIInv, OperationInv, None
<1>5. settled' => /\ op' \notin {"connect", "connectUnprovisioned"} /\ pending # "connect"
                  /\ settled
  BY <1>1 DEF EngineIInv, NamedInv
<1> QED
  BY <1>1, <1>2, <1>3, <1>4, <1>5, HandledKeeps

\* Every handler of a response.
LEMMA ApplyKeeps ==
  ASSUME EngineIInv, Apply
  PROVE  EngineIInv'
<1>1. signOut \in {None, "status", "disconnect", "delete", "clear"}
  BY DEF EngineIInv, TypeOK
<1>2. CASE ApplyScreenStatus
  BY <1>1, <1>2, ApplyStatusKeeps DEF ApplyScreenStatus, StatusCalls
<1>3. CASE ApplySignOutStatus
  <2>1. CASE /\ step["signOutStatus"] = "closed" /\ BeginDisconnectOp /\ signOut' = "disconnect"
             /\ step' = [step EXCEPT !["signOutStatus"] = None, !["operation"] = "opening"]
             /\ reply' = [reply EXCEPT !["signOutStatus"] = None]
             /\ UNCHANGED <<pipe, pending, serviceVars, session>>
    BY <2>1, SignOutDisconnects
  <2>2. CASE /\ Handled("signOutStatus") /\ Reported(reply["signOutStatus"])
             /\ signOut' \in {"delete", None} /\ UNCHANGED <<settled, inFlight, op>>
    BY <2>2, ApplyStatusKeeps DEF StatusCalls
  <2> QED
    BY <1>3, <2>1, <2>2 DEF ApplySignOutStatus
<1> QED
  BY <1>2, <1>3, ApplyConnectKeeps, ApplyDisconnectKeeps, ApplyDeleteKeeps DEF Apply

-----------------------------------------------------------------------------
(* DesktopEngine: the service *)

\* The service answers what holds when it does, unless nobody reads it: then
\* it stops.
LEMMA AnswerKeeps ==
  ASSUME EngineIInv, NEW p \in Replies, Answer(p), pending # None,
         pending # "delete" => p \in Phases,
         p \in {"Error", Deleted} \/ p = machine'.phase,
         machine' \in Machines, tunnel' \in {NoTunnel, Handle}, stored' \in BOOLEAN,
         machine'.phase = "Disconnected" => tunnel' = NoTunnel,
         settled /\ machine'.phase = "Connected" => machine.phase = "Connected",
         pending = "delete" => UNCHANGED <<machine, tunnel>>
  PROVE  EngineIInv'
<1>1. /\ up /\ pending' = None
      /\ UNCHANGED <<phase, named, settled, inFlight, op, signOut, session>>
      /\ step \in [Exchanges -> {None, "access", "opening", "asked", "answered", "closed"}]
      /\ reply \in [Exchanges -> Replies \cup {None}]
  BY DEF Answer, EngineIInv, TypeOK
<1>2. tunnel' \in Handles \cup {NoTunnel}
  BY ExchangeNames
<1>3. CASE pipe = "abandoned"
  <2>1. /\ pipe' = Nobody /\ up' = FALSE /\ informed' = FALSE /\ UNCHANGED <<step, reply>>
    BY <1>3 DEF Answer
  <2>2. TypeOK'
    BY <1>1, <1>2, <2>1 DEF EngineIInv, TypeOK
  <2>3. PipeOrder'
    BY <1>1, <1>3, <2>1, ExchangeNames DEF EngineIInv, PipeOrder, Nobody
  <2>4. OperationInv'
    BY <1>1, <2>1 DEF EngineIInv, OperationInv
  <2>5. ServiceInv' /\ ToldInv'
    BY <2>1 DEF ServiceInv, ToldInv
  <2>6. NamedInv'
    BY <1>1, <2>1 DEF EngineIInv, NamedInv, None
  <2> QED
    BY <2>2, <2>3, <2>4, <2>5, <2>6 DEF EngineIInv
<1>4. CASE pipe # "abandoned"
  <2>1. /\ pipe \in Exchanges /\ step[pipe] = "asked" /\ pending = CommandOf(pipe)
        /\ \A f \in Exchanges : step[f] \in {"asked", "answered"} => f = pipe
    BY <1>1, <1>4 DEF EngineIInv, PipeOrder
  <2>2. /\ step' = [step EXCEPT ![pipe] = "answered"] /\ reply' = [reply EXCEPT ![pipe] = p]
        /\ UNCHANGED <<pipe, up, informed>>
    BY <1>4 DEF Answer
  <2>3. /\ step' \in [Exchanges -> {None, "access", "opening", "asked", "answered", "closed"}]
        /\ reply' \in [Exchanges -> Replies \cup {None}]
        /\ \A f \in Exchanges : /\ step'[f] = IF f = pipe THEN "answered" ELSE step[f]
                                /\ reply'[f] = IF f = pipe THEN p ELSE reply[f]
    BY <1>1, <2>1, <2>2
  <2>4. TypeOK'
    BY <1>1, <1>2, <2>2, <2>3 DEF EngineIInv, TypeOK
  <2>5. PipeOrder'
    <3>1. \A f \in Exchanges : step'[f] # "asked"
      BY <2>1, <2>3
    <3>2. \A f \in Exchanges : step'[f] \in {"asked", "answered"} <=> pipe' = f
      BY <2>1, <2>2, <2>3 DEF EngineIInv, PipeOrder
    <3>3. \A f, g \in Exchanges : step'[f] = "closed" /\ step'[g] = "closed" => f = g
      BY <2>3 DEF EngineIInv, PipeOrder
    <3> QED
      BY <1>1, <1>4, <2>2, <3>1, <3>2, <3>3 DEF PipeOrder
  <2>6. OperationInv'
    <3>1. pipe # "delete" => p \in Phases
      BY <2>1, ExchangeNames DEF CommandOf, EngineIInv, OperationInv, None
    <3> QED
      BY <1>1, <2>1, <2>3, <3>1, ExchangeNames DEF EngineIInv, OperationInv, None
  <2>7. ServiceInv'
    BY DEF ServiceInv
  <2>8. Told(p)'
    BY DEF Told, Busy, Deleted
  <2>9. ToldInv'
    <3>1. informed' => up'
      BY <1>1, <2>2
    <3>2. \A f \in Exchanges : step'[f] = "answered" => Told(reply[f])'
      <4> SUFFICES ASSUME NEW f \in Exchanges, step'[f] = "answered"
                   PROVE  Told(reply[f])'
        OBVIOUS
      <4>1. f = pipe /\ reply'[f] = p
        BY <2>1, <2>3
      <4> QED
        BY <2>8, <4>1 DEF Told
    <3>3. CASE pipe \in Reporters
      <4>1. step'[pipe] = "answered"
        BY <2>1, <2>3
      <4> QED
        BY <3>1, <3>2, <3>3, <4>1 DEF ToldInv
    <3>4. CASE pipe \notin Reporters
      <4>1. pipe = "delete" /\ pending = "delete" /\ UNCHANGED <<machine, tunnel>>
        BY <2>1, <3>4, ExchangeNames DEF CommandOf
      <4>2. \A f \in Reporters : f \in Exchanges /\ f # pipe /\ step[f] # "answered"
        BY <2>1, <3>4, ExchangeNames
      <4>3. Told(phase)' <=> Told(phase)
        BY <1>1, <4>1 DEF Told
      <4>4. \A f \in Exchanges : f # pipe => (Told(reply[f])' <=> Told(reply[f]))
        BY <2>3, <4>1 DEF Told
      <4>5. \A f \in Exchanges : step'[f] = "closed" => Told(reply[f])'
        BY <1>1, <2>3, <4>2, <4>4 DEF EngineIInv, ToldInv
      <4>6. informed' =>
              Told(phase)' \/ \E f \in Reporters : step'[f] \in {"answered", "closed"}
        BY <2>2, <2>3, <4>2, <4>3 DEF EngineIInv, ToldInv
      <4> QED
        BY <3>1, <3>2, <4>5, <4>6 DEF ToldInv
    <3> QED
      BY <3>3, <3>4
  <2>10. NamedInv'
    <3> SUFFICES ASSUME settled
                 PROVE  NamedInv'
      BY <1>1 DEF NamedInv
    <3>1. p = "Connected" => machine.phase = "Connected"
      BY DEF Deleted
    <3>2. \A f \in Exchanges : /\ step'[f] = "closed" => step[f] = "closed" /\ reply'[f] = reply[f]
                               /\ step'[f] \in {"answered", "closed"} =>
                                    \/ f = pipe /\ reply'[f] = p
                                    \/ step[f] = "closed" /\ reply'[f] = reply[f]
      BY <2>1, <2>3
    <3> QED
      BY <1>1, <2>2, <3>1, <3>2 DEF EngineIInv, NamedInv, None
  <2> QED
    BY <2>4, <2>5, <2>6, <2>7, <2>9, <2>10 DEF EngineIInv
<1> QED
  BY <1>3, <1>4

\* A command but delete ends with the phase it left the service in, or refused.
LEMMA ReplyKeeps ==
  ASSUME EngineIInv, Report \/ Refuse, pending \notin {None, "delete"},
         machine' \in Machines, tunnel' \in {NoTunnel, Handle}, stored' \in BOOLEAN,
         machine'.phase = "Disconnected" => tunnel' = NoTunnel,
         settled /\ machine'.phase = "Connected" => machine.phase = "Connected"
  PROVE  EngineIInv'
<1>1. /\ machine'.phase \in Phases /\ "Error" \in Phases
      /\ Phases \subseteq Replies
  BY DEF Machines, Phases, FailurePhases, Replies
<1>2. CASE Refuse
  BY <1>1, <1>2, AnswerKeeps DEF Refuse
<1>3. CASE Report
  BY <1>1, <1>3, AnswerKeeps DEF Report
<1> QED
  BY <1>2, <1>3

\* A status call can find the tunnel gone, or the backend broken.
LEMMA ServeStatusKeeps ==
  ASSUME EngineIInv, ServeStatus
  PROVE  EngineIInv'
<1>1. /\ machine \in Machines /\ stored \in BOOLEAN /\ up
      /\ tunnel \in {NoTunnel, Handle}
      /\ machine.phase = "Disconnected" => tunnel = NoTunnel
  BY DEF EngineIInv, TypeOK, ServiceInv, ServeStatus, Report, Answer
<1>2. Report /\ pending = "status" /\ UNCHANGED <<tunnel, stored>>
  BY DEF ServeStatus
<1>3. \/ machine' = machine
      \/ machine' = Idle /\ tunnel = NoTunnel
      \/ machine' = Fail(machine, "Internal")
  BY DEF ServeStatus
<1>4. /\ machine' \in Machines
      /\ machine'.phase = "Disconnected" => tunnel' = NoTunnel
      /\ machine'.phase = "Connected" => machine.phase = "Connected"
  BY <1>1, <1>2, <1>3, MachineAfter
<1> QED
  BY <1>1, <1>2, <1>4, ReplyKeeps DEF None

\* A connect ends in the machine, or the tunnel, it got to.
LEMMA ServeConnectKeeps ==
  ASSUME EngineIInv, ServeConnect
  PROVE  EngineIInv'
<1> DEFINE connecting == MarkValidated(BeginConnect(Handle))
<1>1. /\ machine \in Machines /\ stored \in BOOLEAN /\ up
      /\ tunnel \in {NoTunnel, Handle}
      /\ machine.phase = "Disconnected" => tunnel = NoTunnel
  BY DEF EngineIInv, TypeOK, ServiceInv, ServeConnect, Report, Refuse, Answer
<1>2. pending = "connect" /\ ~settled /\ UNCHANGED stored
  BY DEF ServeConnect, EngineIInv, NamedInv
<1>3. \/ UNCHANGED <<machine, tunnel>> /\ Refuse
      \/ machine' = connecting /\ UNCHANGED tunnel /\ Refuse
      \/ machine' = MarkConnected(connecting) /\ tunnel' = Handle /\ Report
      \/ /\ machine' = Fail(connecting, "Internal") /\ tunnel' \in {tunnel, Handle, NoTunnel}
         /\ Report
  BY DEF ServeConnect
<1>4. /\ machine' \in Machines /\ tunnel' \in {NoTunnel, Handle}
      /\ machine'.phase = "Disconnected" => tunnel' = NoTunnel
  <2> HIDE DEF connecting
  <2>1. /\ connecting \in Machines /\ connecting.phase = "Connecting"
        /\ MarkConnected(connecting) \in Machines
        /\ MarkConnected(connecting).phase = "Connected"
        /\ Fail(connecting, "Internal") \in Machines
        /\ Fail(connecting, "Internal").phase = "Error"
    BY <1>1, MachineAfter DEF connecting
  <2> QED
    BY <1>1, <1>3, <2>1
<1>5. Report \/ Refuse
  BY <1>3
<1> QED
  BY <1>1, <1>2, <1>4, <1>5, ReplyKeeps DEF None

\* A disconnect stops the tunnel, or may have.
LEMMA ServeDisconnectKeeps ==
  ASSUME EngineIInv, ServeDisconnect
  PROVE  EngineIInv'
<1>1. /\ machine \in Machines /\ stored \in BOOLEAN /\ up
      /\ tunnel \in {NoTunnel, Handle}
      /\ machine.phase = "Disconnected" => tunnel = NoTunnel
  BY DEF EngineIInv, TypeOK, ServiceInv, ServeDisconnect, Report, Refuse, Answer
<1>2. pending = "disconnect" /\ UNCHANGED stored
  BY DEF ServeDisconnect
<1>3. \/ UNCHANGED <<machine, tunnel>> /\ Refuse
      \/ machine' = Idle /\ tunnel' = NoTunnel /\ Report
      \/ /\ machine' \in {machine, BeginDisconnect(machine)} /\ tunnel' \in {tunnel, NoTunnel}
         /\ Refuse
  BY DEF ServeDisconnect
<1>4. /\ machine' \in Machines /\ tunnel' \in {NoTunnel, Handle}
      /\ machine'.phase = "Disconnected" => tunnel' = NoTunnel
      /\ machine'.phase = "Connected" => machine.phase = "Connected"
  BY <1>1, <1>3, MachineAfter
<1>5. Report \/ Refuse
  BY <1>3
<1> QED
  BY <1>1, <1>2, <1>4, <1>5, ReplyKeeps DEF None

\* Every command.
LEMMA ServeKeeps ==
  ASSUME EngineIInv, Serve
  PROVE  EngineIInv'
<1>1. CASE ServeDelete
  <2>1. /\ machine \in Machines /\ stored \in BOOLEAN /\ up
        /\ tunnel \in {NoTunnel, Handle}
        /\ machine.phase = "Disconnected" => tunnel = NoTunnel
    BY <1>1 DEF EngineIInv, TypeOK, ServiceInv, ServeDelete, Report, Refuse, Answer
  <2>2. /\ pending = "delete" /\ UNCHANGED <<machine, tunnel>> /\ stored' \in BOOLEAN
        /\ Answer(Deleted) \/ Answer("Error")
    BY <1>1, <2>1 DEF ServeDelete, Refuse
  <2>3. Deleted \in Replies /\ "Error" \in Replies
    BY DEF Replies, Phases, FailurePhases
  <2>4. CASE Answer(Deleted)
    BY <2>1, <2>2, <2>3, <2>4, AnswerKeeps DEF None
  <2>5. CASE Answer("Error")
    BY <2>1, <2>2, <2>3, <2>5, AnswerKeeps DEF None
  <2> QED
    BY <2>2, <2>4, <2>5
<1> QED
  BY <1>1, ServeStatusKeeps, ServeConnectKeeps, ServeDisconnectKeeps DEF Serve

-----------------------------------------------------------------------------
(* DesktopEngine: the environment *)

\* The pipe changes hands without the application, or the tunnel stops by itself.
LEMMA OthersKeep ==
  ASSUME EngineIInv, DropAbandoned \/ OtherExchange \/ TunnelStops
  PROVE  EngineIInv'
<1>1. /\ UNCHANGED <<phase, informed, named, settled, inFlight, op, signOut, step, reply, up,
                     machine, stored, session>>
      /\ tunnel' \in {tunnel, NoTunnel}
  BY DEF DropAbandoned, OtherExchange, TunnelStops, guiVars, serviceVars
<1>2. \/ UNCHANGED <<pipe, pending>>
      \/ /\ pipe \notin Exchanges /\ pipe' \in {Nobody, "other"} /\ pending' = None
         /\ pipe = "abandoned" => InOrder
  <2>1. CASE DropAbandoned
    BY <2>1, ExchangeNames DEF DropAbandoned, EngineIInv, PipeOrder
  <2>2. CASE OtherExchange
    BY <2>2, ExchangeNames DEF OtherExchange, EngineIInv, PipeOrder, Nobody
  <2>3. CASE TunnelStops
    BY <2>3 DEF TunnelStops
  <2> QED
    BY <2>1, <2>2, <2>3
<1>3. TypeOK'
  <2>1. tunnel' \in Handles \cup {NoTunnel}
    BY <1>1 DEF EngineIInv, TypeOK
  <2> QED
    BY <1>1, <1>2, <2>1 DEF EngineIInv, TypeOK
<1>4. PipeOrder'
  <2>1. \A e \in Exchanges : CommandOf(e)' = CommandOf(e)
    BY <1>1 DEF CommandOf
  <2>2. InOrder' = InOrder
    BY <1>1 DEF InOrder
  <2>3. CASE UNCHANGED <<pipe, pending>>
    BY <1>1, <2>1, <2>2, <2>3 DEF EngineIInv, PipeOrder
  <2>4. CASE pipe \notin Exchanges /\ pipe' \in {Nobody, "other"} /\ pending' = None
    <3>1. \A e \in Exchanges : step[e] \notin {"asked", "answered"} /\ pipe' # e
      BY <2>4, ExchangeNames DEF EngineIInv, PipeOrder
    <3>2. pipe' # "abandoned"
      BY <2>4 DEF Nobody
    <3>3. /\ \A e \in Exchanges : step'[e] = step[e]
          /\ \A e, f \in Exchanges : step[e] = "closed" /\ step[f] = "closed" => e = f
      BY <1>1 DEF EngineIInv, PipeOrder
    <3> QED
      BY <2>4, <3>1, <3>2, <3>3 DEF PipeOrder
  <2> QED
    BY <1>2, <2>3, <2>4
<1>5. OperationInv'
  BY <1>1 DEF EngineIInv, OperationInv
<1>6. ServiceInv'
  BY <1>1 DEF EngineIInv, ServiceInv
<1>7. ToldInv'
  <2>1. \A e \in Exchanges : Told(reply[e]) => Told(reply[e])'
    BY <1>1 DEF Told
  <2>2. Told(phase) => Told(phase)'
    BY <1>1 DEF Told
  <2> QED
    BY <1>1, <2>1, <2>2 DEF EngineIInv, ToldInv
<1>8. NamedInv'
  <2>1. pending' = "connect" => pending = "connect"
    BY <1>2 DEF None
  <2> QED
    BY <1>1, <2>1 DEF EngineIInv, NamedInv
<1> QED
  BY <1>3, <1>4, <1>5, <1>6, <1>7, <1>8 DEF EngineIInv

\* What the dead service last said is nothing the application goes by.
LEMMA ServiceDiesKeeps ==
  ASSUME EngineIInv, ServiceDies
  PROVE  EngineIInv'
<1>1. /\ up' = FALSE /\ informed' = FALSE /\ pending' = None
      /\ pipe' = IF pipe \in Exchanges THEN pipe ELSE Nobody
      /\ UNCHANGED <<phase, named, settled, inFlight, op, signOut, step, reply, machine, stored,
                     session>>
      /\ tunnel' \in {tunnel, NoTunnel, Handle}
  BY DEF ServiceDies
<1>2. TypeOK'
  <2>1. tunnel' \in Handles \cup {NoTunnel}
    BY <1>1, ExchangeNames DEF EngineIInv, TypeOK
  <2> QED
    BY <1>1, <2>1 DEF EngineIInv, TypeOK
<1>3. PipeOrder'
  BY <1>1, ExchangeNames DEF EngineIInv, PipeOrder, Nobody
<1>4. OperationInv'
  BY <1>1 DEF EngineIInv, OperationInv
<1>5. ServiceInv' /\ ToldInv'
  BY <1>1 DEF EngineIInv, ServiceInv, ToldInv
<1>6. NamedInv'
  BY <1>1 DEF EngineIInv, NamedInv, None
<1> QED
  BY <1>2, <1>3, <1>4, <1>5, <1>6 DEF EngineIInv

\* A service that starts is disconnected, and nothing it has not said is under way.
LEMMA ServiceStartsKeeps ==
  ASSUME EngineIInv, ServiceStarts
  PROVE  EngineIInv'
<1>1. /\ ~up /\ up' = TRUE /\ pipe = Nobody /\ machine' = Idle /\ tunnel' = NoTunnel
      /\ \A e \in Exchanges : step[e] \notin {"answered", "closed"}
      /\ UNCHANGED <<phase, informed, named, settled, inFlight, op, signOut, step, reply, pipe,
                     pending, stored, session>>
  BY DEF ServiceStarts, guiVars
<1>2. Idle \in Machines /\ Idle.phase = "Disconnected"
  BY MachineAfter DEF EngineIInv, TypeOK
<1>3. /\ ~informed /\ pending = None
      /\ \A e \in Exchanges : step[e] # "asked"
  BY <1>1, ExchangeNames DEF EngineIInv, ToldInv, PipeOrder
<1>4. TypeOK'
  BY <1>1, <1>2 DEF EngineIInv, TypeOK
<1>5. PipeOrder'
  BY <1>1, <1>3, ExchangeNames DEF PipeOrder, Nobody
<1>6. OperationInv'
  BY <1>1 DEF EngineIInv, OperationInv
<1>7. ServiceInv' /\ ToldInv'
  BY <1>1, <1>3 DEF ServiceInv, ToldInv
<1>8. NamedInv'
  BY <1>1, <1>2, <1>3 DEF EngineIInv, NamedInv, None
<1> QED
  BY <1>4, <1>5, <1>6, <1>7, <1>8 DEF EngineIInv

\* The next application shows nothing of the last one; its command may go on.
LEMMA AppRestartsKeeps ==
  ASSUME EngineIInv, AppRestarts
  PROVE  EngineIInv'
<1>1. /\ phase' = "Disconnected" /\ informed' = FALSE /\ named' = NoHandle /\ settled' = FALSE
      /\ inFlight' = FALSE /\ op' = None /\ signOut' = None
      /\ step' = [e \in Exchanges |-> None] /\ reply' = [e \in Exchanges |-> None]
      /\ pipe' = IF pipe \notin Exchanges THEN pipe
                 ELSE IF pending = None THEN Nobody ELSE "abandoned"
      /\ UNCHANGED <<pending, up, machine, tunnel, stored, session>>
  BY DEF AppRestarts, EndOperation, serviceVars
<1>2. \A e \in Exchanges : step'[e] = None /\ reply'[e] = None
  BY <1>1
<1>3. TypeOK'
  <2>1. phase' \in Phases
    BY <1>1 DEF Phases
  <2>2. pipe' \in Exchanges \cup {Nobody, "abandoned", "other"}
    BY <1>1 DEF EngineIInv, TypeOK
  <2> QED
    BY <1>1, <2>1, <2>2 DEF EngineIInv, TypeOK
<1>4. PipeOrder'
  <2>1. \A e \in Exchanges : pipe' # e
    BY <1>1, ExchangeNames
  <2>2. pending' # None => up' /\ pipe' = "abandoned"
    BY <1>1 DEF EngineIInv, PipeOrder
  <2>3. InOrder'
    BY <1>2 DEF InOrder, None
  <2> QED
    BY <1>2, <2>1, <2>2, <2>3 DEF PipeOrder, None
<1>5. OperationInv'
  BY <1>1, <1>2, ExchangeNames DEF OperationInv, None
<1>6. ServiceInv'
  BY <1>1 DEF EngineIInv, ServiceInv
<1>7. ToldInv' /\ NamedInv'
  BY <1>1, <1>2 DEF ToldInv, NamedInv, None
<1> QED
  BY <1>3, <1>4, <1>5, <1>6, <1>7 DEF EngineIInv

-----------------------------------------------------------------------------
(* DesktopEngine: the theorems *)

\* The application starts with nothing under way, told nothing.
LEMMA EngineStarts == Init => EngineIInv
<1> SUFFICES ASSUME Init
             PROVE  EngineIInv
  OBVIOUS
<1>1. /\ phase = "Disconnected" /\ ~informed /\ ~inFlight /\ named = NoHandle /\ ~settled
      /\ op = None /\ signOut = None /\ pipe = Nobody /\ pending = None
      /\ informed \in BOOLEAN /\ inFlight \in BOOLEAN /\ settled \in BOOLEAN
      /\ up = TRUE /\ stored = TRUE /\ session = TRUE
      /\ step = [e \in Exchanges |-> None] /\ reply = [e \in Exchanges |-> None]
  BY DEF Init
<1>2. \A e \in Exchanges : step[e] = None /\ reply[e] = None
  BY <1>1
<1>3. /\ machine \in Machines /\ tunnel \in {NoTunnel, Handle}
      /\ machine.phase = "Disconnected" => tunnel = NoTunnel
  <2>1. CASE machine = Idle /\ tunnel = NoTunnel
    BY <2>1 DEF Idle, Machines, Phases
  <2>2. CASE machine = MarkConnected(BeginConnect(Handle)) /\ tunnel = Handle
    <3>1. BeginConnect(Handle) \in Machines
      BY ExchangeNames DEF BeginConnect, Machines, Phases, TransientPhases
    <3>2. machine \in Machines /\ machine.phase = "Connected"
      BY <2>2, <3>1 DEF MarkConnected, Machines, Phases
    <3> QED
      BY <2>2, <3>2
  <2> QED
    BY <2>1, <2>2 DEF Init
<1>4. TypeOK
  <2>1. tunnel \in Handles \cup {NoTunnel}
    BY <1>3, ExchangeNames
  <2> QED
    BY <1>1, <1>3, <2>1 DEF TypeOK, Phases
<1>5. PipeOrder
  BY <1>1, <1>2, ExchangeNames DEF PipeOrder, None, Nobody
<1>6. OperationInv
  BY <1>1, <1>2, ExchangeNames DEF OperationInv, None
<1>7. ServiceInv /\ ToldInv /\ NamedInv
  BY <1>1, <1>2, <1>3 DEF ServiceInv, ToldInv, NamedInv, None
<1> QED
  BY <1>4, <1>5, <1>6, <1>7 DEF EngineIInv

\* Every handler, command and event of the environment keeps it.
LEMMA EngineStep == EngineIInv /\ [Next]_vars => EngineIInv'
<1> SUFFICES ASSUME EngineIInv, [Next]_vars
             PROVE  EngineIInv'
  OBVIOUS
<1>1. CASE User
  BY <1>1, ConnectKeeps, DisconnectKeeps, PreparesKeeps DEF User
<1>2. CASE Access
  BY <1>2, AccessKeeps
<1>3. CASE SignOutDeletes \/ SignOutClears
  BY <1>3, PreparesKeeps
<1>4. CASE \E e \in Exchanges : Exchange(e)
  <2>1. PICK e \in Exchanges : Exchange(e)
    BY <1>4
  <2> QED
    BY <2>1, OpenKeeps, ErrorsKeep, CloseKeeps DEF Exchange
<1>5. CASE Apply
  BY <1>5, ApplyKeeps
<1>6. CASE Serve
  BY <1>6, ServeKeeps
<1>7. CASE DropAbandoned \/ OtherExchange \/ TunnelStops
  BY <1>7, OthersKeep
<1>8. CASE ServiceDies
  BY <1>8, ServiceDiesKeeps
<1>9. CASE ServiceStarts
  BY <1>9, ServiceStartsKeeps
<1>10. CASE AppRestarts
  BY <1>10, AppRestartsKeeps
<1>11. CASE UNCHANGED vars
  <2>1. /\ UNCHANGED <<phase, informed, named, settled, inFlight, op, signOut, step, reply, pipe,
                       pending, up, machine, tunnel, stored, session>>
    BY <1>11 DEF vars
  <2>2. TypeOK' /\ OperationInv'
    BY <2>1 DEF EngineIInv, TypeOK, OperationInv
  <2>3. settled' => settled /\ named' = named /\ op' \notin {"connect", "connectUnprovisioned"}
    BY <2>1 DEF EngineIInv, NamedInv
  <2> QED
    BY <2>1, <2>2, <2>3, AsksNothing
<1> QED
  BY <1>1, <1>2, <1>3, <1>4, <1>5, <1>6, <1>7, <1>8, <1>9, <1>10, <1>11 DEF Next

\* A response is applied before the application is at rest.
LEMMA ShownIsTold ==
  ASSUME EngineIInv, Quiescent, informed
  PROVE  Told(phase)
<1>1. \A e \in Reporters : step[e] \notin {"answered", "closed"}
  BY ExchangeNames DEF Quiescent, None
<1> QED
  BY <1>1 DEF EngineIInv, ToldInv

\* The invariant of the run of this name: once nothing is in progress, the state
\* on the screen is the one the service is in, and "disconnected" means that no
\* tunnel runs.
THEOREM ShownIsTheServices == Spec => []EngineInv
<1>1. EngineIInv => EngineInv
  <2> SUFFICES ASSUME EngineIInv, Quiescent, informed
               PROVE  /\ phase = "Connected" => machine.phase = "Connected"
                      /\ phase = "Disconnected" =>
                           machine.phase = "Disconnected" /\ tunnel = NoTunnel
                      /\ Busy(phase) => machine.phase = phase
    BY DEF EngineInv, ShownStateIsTheServices, EngineIInv
  <2> QED
    BY ShownIsTold DEF Told
<1> QED
  BY <1>1, EngineStarts, EngineStep, PTL DEF Spec

\* The invariant of the run of this name: after a connect that ended connected,
\* what is shown of a running tunnel is the protocol that was connected.
THEOREM NameIsTheTunnels == Spec => []ConnectedNamesItsTunnel
<1>1. EngineIInv => ConnectedNamesItsTunnel
  <2> SUFFICES ASSUME EngineIInv, informed, settled, phase = "Connected", tunnel # NoTunnel
               PROVE  named = tunnel
    BY DEF ConnectedNamesItsTunnel
  <2>1. tunnel = Handle
    BY DEF EngineIInv, ServiceInv
  <2>2. named = Handle
    BY DEF EngineIInv, NamedInv
  <2> QED
    BY <2>1, <2>2
<1> QED
  BY <1>1, EngineStarts, EngineStep, PTL DEF Spec
=============================================================================
