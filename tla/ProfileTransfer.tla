-------------------------- MODULE ProfileTransfer --------------------------
(***************************************************************************)
(* The way of one configuration: parsed and encoded by the application     *)
(* (wireguard_config_parser.dart, amneziawg_config_parser.dart, vless_     *)
(* reality_uri_parser.dart, windows_profile_provisioner.dart), decoded,    *)
(* revalidated, stored and loaded by the service (vpn_contracts, profile_  *)
(* vault.rs).  Four pieces of code bound the same fields: two validations, *)
(* two encoders and one decoder, in two languages.                         *)
(*                                                                         *)
(* A text is its length in bytes, a list of texts the number of its        *)
(* elements and the length of each; an option is a set of at most one      *)
(* value.  The order of the fields in a frame is not modelled, nor a zone  *)
(* ("%eth0") behind an address.                                            *)
(***************************************************************************)
EXTENDS Integers

CONSTANTS
  Configs,       \* what the server may send
  MaxFrameSize   \* MAX_FRAME_SIZE, _maximumFrameSize

Keys   == {"key", "zero"}
Option(S) == SUBSET S
Lists  == [count : Nat, each : Nat]
\* Networks; loose if a prefix among them is a number to int.tryParse and none to
\* u8::from_str ("0x18", "/ 24", "-0").
Networks == [count : Nat, each : Nat, loose : BOOLEAN]
\* An H1..H4 value is one number or two with a dash: in order, the wrong way
\* round, or beyond 32 bits.
Ranges == {"ordered", "reversed", "overflowing"}
\* The packets I1..I5: UTF-16 code units and UTF-8 bytes of each, and whether a
\* control character of U+0080..U+009F is among them.
Junk   == [count : Nat, units : Nat, bytes : Nat, c1 : BOOLEAN]

WireGuards ==
  [privateKey : Keys, peerKey : Keys, psk : Option(Keys), addresses : Networks,
   dns : Lists, host : Nat, port : Nat, allowed : Networks, keepalive : Option(Nat)]
AmneziaExtras ==
  [jc : Nat, jmin : Nat, jmax : Nat, s : Nat, s4 : Nat,
   range : Ranges, digits : Nat, junk : Junk]
Vlesses ==
  [uuid : Nat, host : Nat, port : Nat, sni : Nat, pbk : Nat, sid : Nat]

Profiles ==
  [protocol : {"wireGuard"}, wg : WireGuards] \cup
  [protocol : {"amneziaWg"}, wg : WireGuards, awg : AmneziaExtras] \cup
  [protocol : {"vless"}, vless : Vlesses]

\* Texts have the UTF-8 length they can have; a control character of the upper
\* block takes two bytes.
JunkAgrees(c) ==
  c.protocol = "amneziaWg" =>
    /\ c.awg.junk.bytes \in c.awg.junk.units .. 3 * c.awg.junk.units
    /\ c.awg.junk.c1 => c.awg.junk.bytes > c.awg.junk.units

ASSUME ConfigsAssumption ==
  Configs \subseteq Profiles /\ \A c \in Configs : JunkAgrees(c)
ASSUME MaxFrameSizeAssumption == MaxFrameSize = 32 * 1024

VARIABLES
  config,   \* the configuration
  stage,    \* how far it came, or where it was refused
  frame,    \* the import request: its size and the fields it carries
  held,     \* the profile the service has decoded or loaded
  file      \* what the vault keeps of it, before encryption

transferVars == <<config, stage, frame, held, file>>

Nothing == [protocol |-> "none"]
Refusals ==
  {"unparsable", "unencodable", "tooLarge", "rejected", "unstorable", "unloadable"}
Stages == {"configured", "parsed", "sent", "accepted", "stored", "loaded"} \cup Refusals

-----------------------------------------------------------------------------
(* The parsers of the application *)

\* Not nothing and not too much: of a length, a count or a port.
Within(n, maximum) == 0 < n /\ n <= maximum

NetworksParse(l, maximum) == Within(l.count, maximum) /\ l.each > 0
HostParses(length) == Within(length, 253)

\* The longest text of an address that parses (IPv6 with an IPv4 tail).
AddressText == 45

WireGuardParses(w) ==
  /\ w.privateKey = "key" /\ w.peerKey = "key" /\ "zero" \notin w.psk
  /\ NetworksParse(w.addresses, 8)
  /\ w.dns.count <= 8
  /\ w.dns.count > 0 => Within(w.dns.each, AddressText)
  /\ NetworksParse(w.allowed, 32)
  /\ HostParses(w.host)
  /\ Within(w.port, 65535)
  /\ \A v \in w.keepalive : v <= 65535

\* Mutant: one special junk packet more than there are.
AmneziaParsesSix(a) ==
  /\ a.jc <= 10
  /\ a.jmin >= 64 /\ a.jmax <= 1024 /\ a.jmin <= a.jmax
  /\ a.s <= 64 /\ a.s4 <= 32
  /\ a.range = "ordered" /\ Within(a.digits, 4096)
  /\ a.junk.count <= 6
  /\ a.junk.count > 0 => Within(a.junk.units, 4096)

AmneziaParses(a) ==
  /\ a.jc <= 10
  /\ a.jmin >= 64 /\ a.jmax <= 1024 /\ a.jmin <= a.jmax
  /\ a.s <= 64 /\ a.s4 <= 32
  /\ a.range = "ordered" /\ Within(a.digits, 4096)
  /\ a.junk.count <= 5
  /\ a.junk.count > 0 => Within(a.junk.units, 4096)

VlessParses(v) ==
  /\ v.uuid = 36 /\ HostParses(v.host) /\ Within(v.port, 65535)
  /\ HostParses(v.sni) /\ v.pbk = 43 /\ v.sid <= 16 /\ v.sid % 2 = 0

Parses(c) ==
  /\ c.protocol = "vless" => VlessParses(c.vless)
  /\ c.protocol # "vless" => WireGuardParses(c.wg)
  /\ c.protocol = "amneziaWg" => AmneziaParses(c.awg)

\* Mutant: a keepalive of zero stays one.
KeepZeroKeepalive(w) == w

\* A keepalive of zero is none.
WithoutZeroKeepalive(w) == [w EXCEPT !.keepalive = @ \ {0}]
Parsed(c) ==
  IF c.protocol = "vless" THEN c ELSE [c EXCEPT !.wg = WithoutZeroKeepalive(@)]

-----------------------------------------------------------------------------
(* The size of a profile on the wire and in the vault *)

ListSize(l) == 1 + l.count * (1 + l.each)

WireGuardSize(w) ==
  32 + ListSize(w.addresses) + ListSize(w.dns) + 32
     + (IF w.psk = {} THEN 1 ELSE 33) + (1 + w.host) + 2
     + ListSize(w.allowed) + (IF w.keepalive = {} THEN 1 ELSE 3)

AmneziaSize(a) == 14 + 4 * (1 + a.digits) + 1 + a.junk.count * (2 + a.junk.bytes)

\* fingerprint "chrome" and spiderX "/" are constants.
VlessSize(v) ==
  (1 + v.uuid) + (1 + v.host) + 2 + (1 + v.sni) + 7 + (1 + v.pbk) + (1 + v.sid) + 3

ProfileSize(p) ==
  IF p.protocol = "vless"
  THEN VlessSize(p.vless)
  ELSE WireGuardSize(p.wg) + (IF p.protocol = "amneziaWg" THEN AmneziaSize(p.awg) ELSE 0)

\* Header, "request-" and "provision-" with 32 digits each, and the profile.
FrameSize(p) == 12 + 41 + 43 + ProfileSize(p)

-----------------------------------------------------------------------------
(* The encoder of the application *)

Bounded(length) == Within(length, 253)
BoundedList(l) == l.count > 0 => Bounded(l.each)

\* Mutant: a text may be as long as its length byte allows.
WireGuardEncodesByte(w) ==
  \A l \in {w.addresses, w.dns, w.allowed} : l.count > 0 => Within(l.each, 255)

WireGuardEncodes(w) ==
  BoundedList(w.addresses) /\ BoundedList(w.dns) /\ Bounded(w.host) /\ BoundedList(w.allowed)

AmneziaEncodes(a) ==
  /\ Bounded(a.digits)
  /\ a.junk.count > 0 => Within(a.junk.bytes, 4096)

VlessEncodes(v) ==
  Bounded(v.uuid) /\ Bounded(v.host) /\ Bounded(v.sni) /\ Bounded(v.pbk) /\ v.sid <= 253

Encodes(p) ==
  /\ p.protocol = "vless" => VlessEncodes(p.vless)
  /\ p.protocol # "vless" => WireGuardEncodes(p.wg)
  /\ p.protocol = "amneziaWg" => AmneziaEncodes(p.awg)

\* Counts are one byte wide, ports and the like two.
U8(n)  == n % 256
\* Mutant: the upper bit is lost as with a signed number.
I16(n) == n % 32768
U16(n) == n % 65536

WireGuardFields(w) ==
  [w EXCEPT !.addresses.count = U8(@), !.dns.count = U8(@), !.allowed.count = U8(@),
            !.port = U16(@), !.keepalive = {U16(v) : v \in @}]

AmneziaFields(a) ==
  [a EXCEPT !.jc = U16(@), !.jmin = U16(@), !.jmax = U16(@), !.s = U16(@),
            !.s4 = U16(@), !.junk.count = U8(@)]

Fields(p) ==
  IF p.protocol = "vless"
  THEN [p EXCEPT !.vless.port = U16(@)]
  ELSE IF p.protocol = "amneziaWg"
  THEN [p EXCEPT !.wg = WireGuardFields(@), !.awg = AmneziaFields(@)]
  ELSE [p EXCEPT !.wg = WireGuardFields(@)]

-----------------------------------------------------------------------------
(* The decoder and the validation of the service *)

CursorReadsList(l, maximum) == l.count <= maximum /\ (l.count > 0 => l.each > 0)

CursorReadsWireGuard(w) ==
  /\ CursorReadsList(w.addresses, 8) /\ CursorReadsList(w.dns, 8)
  /\ w.host > 0 /\ CursorReadsList(w.allowed, 32)

CursorReadsAmnezia(a) ==
  /\ a.digits > 0 /\ a.junk.count <= 5
  /\ a.junk.count > 0 => Within(a.junk.bytes, 4096) /\ ~a.junk.c1

CursorReadsVless(v) == v.uuid > 0 /\ v.host > 0 /\ v.sni > 0 /\ v.pbk > 0

CursorReads(p) ==
  /\ p.protocol = "vless" => CursorReadsVless(p.vless)
  /\ p.protocol # "vless" => CursorReadsWireGuard(p.wg)
  /\ p.protocol = "amneziaWg" => CursorReadsAmnezia(p.awg)

NetworksValid(l, maximum) == Within(l.count, maximum) /\ ~l.loose
HostValid(length) == length # 0 /\ length <= 253

WireGuardValid(w) ==
  /\ w.privateKey # "zero" /\ w.peerKey # "zero" /\ w.psk # {"zero"}
  /\ NetworksValid(w.addresses, 8) /\ w.dns.count <= 8
  /\ HostValid(w.host) /\ w.port # 0
  /\ NetworksValid(w.allowed, 32) /\ w.keepalive # {0}

AmneziaValid(a) ==
  /\ a.jc <= 10
  /\ a.jmin >= 64 /\ a.jmax <= 1024 /\ a.jmin <= a.jmax
  /\ a.s <= 64 /\ a.s4 <= 32
  /\ a.range = "ordered"
  /\ a.junk.count <= 5
  /\ a.junk.count > 0 => Within(a.junk.bytes, 4096) /\ ~a.junk.c1

VlessValid(v) ==
  /\ v.uuid = 36 /\ HostValid(v.host) /\ v.port # 0 /\ HostValid(v.sni)
  /\ v.pbk = 43 /\ v.sid <= 16 /\ v.sid % 2 = 0

Valid(p) ==
  /\ p.protocol = "vless" => VlessValid(p.vless)
  /\ p.protocol # "vless" => WireGuardValid(p.wg)
  /\ p.protocol = "amneziaWg" => AmneziaValid(p.awg)

-----------------------------------------------------------------------------
(* The vault *)

\* A DNS server was decoded to an address, and is written in the one form that
\* Rust prints.
Printed(w) == {[w EXCEPT !.dns.each = n] : n \in 2 .. 39}

Written(p) ==
  IF p.protocol # "vless" /\ p.wg.dns.count > 0
  THEN {[p EXCEPT !.wg = w] : w \in Printed(p.wg)}
  ELSE {p}

WireGuardPuts(w) ==
  /\ BoundedList(w.addresses) /\ BoundedList(w.dns) /\ Bounded(w.host)
  /\ BoundedList(w.allowed)
  /\ w.addresses.count <= 255 /\ w.dns.count <= 255 /\ w.allowed.count <= 255

AmneziaPuts(a) ==
  /\ Bounded(a.digits) /\ a.junk.count <= 255
  /\ a.junk.count > 0 => Within(a.junk.bytes, 4096) /\ ~a.junk.c1

VlessPuts(v) ==
  /\ Within(v.uuid, 36) /\ Bounded(v.host) /\ Bounded(v.sni)
  /\ Within(v.pbk, 128) /\ v.sid <= 16

Puts(p) ==
  /\ p.protocol = "vless" => VlessPuts(p.vless)
  /\ p.protocol # "vless" => WireGuardPuts(p.wg)
  /\ p.protocol = "amneziaWg" => AmneziaPuts(p.awg)

\* "KWP1", "KAP1" or "KXP1", and the profile.
FileSize(p) == 4 + ProfileSize(p)

-----------------------------------------------------------------------------

TransferInit ==
  /\ config \in Configs
  /\ stage = "configured"
  /\ frame = [size |-> 0, fields |-> Nothing]
  /\ held = Nothing
  /\ file = Nothing

\* The next stage if all goes well, and where it is refused otherwise.
Step(from, ok, to, refusal) ==
  /\ stage = from
  /\ stage' = IF ok THEN to ELSE refusal

Parse ==
  /\ Step("configured", Parses(config), "parsed", "unparsable")
  /\ UNCHANGED <<config, frame, held, file>>

Encode ==
  LET p == Parsed(config)
      size == FrameSize(p)
  IN /\ stage = "parsed"
     /\ stage' = IF ~Encodes(p) THEN "unencodable"
                 ELSE IF size > MaxFrameSize THEN "tooLarge" ELSE "sent"
     /\ frame' = IF stage' = "sent" THEN [size |-> size, fields |-> Fields(p)] ELSE frame
     /\ UNCHANGED <<config, held, file>>

\* Mutant: the service keeps the frame it read in place of the profile in it.
DecodeWhole ==
  /\ Step("sent", Valid(frame.fields), "accepted", "rejected")
  /\ held' = frame
  /\ UNCHANGED <<config, frame, file>>

\* declared_frame_size, decode_request.
Decode ==
  LET p == frame.fields
  IN /\ Step("sent",
             /\ frame.size <= MaxFrameSize
             /\ CursorReads(p) /\ FrameSize(p) = frame.size
             /\ Valid(p),
             "accepted", "rejected")
     /\ held' = IF stage' = "accepted" THEN p ELSE Nothing
     /\ UNCHANGED <<config, frame, file>>

\* encode_*_profile of the vault's store.
Store ==
  /\ stage = "accepted"
  /\ \E p \in Written(held) :
       /\ stage' = IF Valid(held) /\ Puts(p) /\ FileSize(p) <= MaxFrameSize
                   THEN "stored" ELSE "unstorable"
       /\ file' = IF stage' = "stored" THEN p ELSE Nothing
  /\ held' = Nothing
  /\ UNCHANGED <<config, frame>>

\* decode_*_profile of the vault's load, for a connect.
Load ==
  /\ Step("stored", FileSize(file) <= MaxFrameSize /\ CursorReads(file) /\ Valid(file),
          "loaded", "unloadable")
  /\ held' = IF stage' = "loaded" THEN file ELSE Nothing
  /\ UNCHANGED <<config, frame, file>>

\* The profile is loaded, or was refused.
Ended == stage \in {"loaded"} \cup Refusals /\ UNCHANGED transferVars

TransferNext == Parse \/ Encode \/ Decode \/ Store \/ Load \/ Ended

TransferSpec == TransferInit /\ [][TransferNext]_transferVars

-----------------------------------------------------------------------------
(* Properties *)

\* The types; what travels is a profile, or nothing, at every stage.
TransferTypeOK ==
  /\ config \in Configs
  /\ stage \in Stages
  /\ frame.size \in Nat
  /\ {frame.fields, held, file} \subseteq Profiles \cup {Nothing}

\* Whatever passes the parser and the bounds of the single fields fits in a
\* frame: the sum of all bounds stays below 32 KiB, and PROFILE_TOO_LARGE is
\* never thrown.
FrameFits == stage # "tooLarge"

\* What the application accepts, the privileged boundary accepts as well: its
\* second validation, in another language, agrees with the first on every bound.
\* It is stricter in two points only, which the parsers let through: the control
\* characters U+0080..U+009F of a special junk packet, and a prefix length that is
\* not written in plain decimal.
RefusedOnlyForWriting ==
  stage = "rejected" =>
    \/ config.protocol = "amneziaWg" /\ config.awg.junk.c1
    \/ config.protocol # "vless" /\ (config.wg.addresses.loose \/ config.wg.allowed.loose)

\* What this application sends and the service has decoded, the vault can keep. It
\* rests on the application's encoders, which stop at 253 bytes: bounded_string of
\* the decoder alone takes 255, put_bounded_string of the vault 253.
AcceptedIsStorable == stage # "unstorable"

\* What is stored can be connected to, however long ago it was stored: it is the
\* profile that the server sent, but for the way a DNS server is written and a
\* keepalive of zero, which is none.
StoredIsLoadable ==
  /\ stage # "unloadable"
  /\ stage = "loaded" => held \in Written(Parsed(config))
=============================================================================
