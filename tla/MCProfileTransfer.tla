------------------------- MODULE MCProfileTransfer -------------------------
(* Configurations at and around every bound of ProfileTransfer. *)
EXTENDS ProfileTransfer

SomeLists(counts, lengths) == [count : counts, each : lengths]
SomeNetworks(counts, lengths) == [count : counts, each : lengths, loose : BOOLEAN]

Plain ==
  [privateKey |-> "key", peerKey |-> "key", psk |-> {},
   addresses |-> [count |-> 1, each |-> 18, loose |-> FALSE], dns |-> [count |-> 0, each |-> 0],
   host |-> 20, port |-> 51820, allowed |-> [count |-> 1, each |-> 9, loose |-> FALSE],
   keepalive |-> {25}]

\* Everything as large as it parses.
Largest ==
  [Plain EXCEPT !.psk = {"key"}, !.addresses = [count |-> 8, each |-> 253, loose |-> FALSE],
                !.dns = [count |-> 8, each |-> 45], !.host = 253,
                !.allowed = [count |-> 32, each |-> 253, loose |-> FALSE]]

SomeWireGuards ==
  {[w EXCEPT !.privateKey = k, !.psk = psk, !.port = port, !.keepalive = keepalive] :
     w \in {Plain, Largest}, k \in Keys, psk \in {{}, {"key"}, {"zero"}},
     port \in {0, 1, 65535, 65536}, keepalive \in {{}, {0}, {1}, {65535}, {65536}}}
  \cup
  {[w EXCEPT !.addresses = addresses, !.dns = dns, !.host = host, !.allowed = allowed] :
     w \in {Plain}, host \in {0, 1, 253, 254},
     addresses \in SomeNetworks({0, 1, 8, 9}, {1, 253, 254}),
     dns \in SomeLists({0, 8, 9}, {1, 45}),
     allowed \in SomeNetworks({0, 1, 32, 33}, {1, 253, 254})}

Extras ==
  [jc |-> 4, jmin |-> 64, jmax |-> 1024, s |-> 64, s4 |-> 32, range |-> "ordered",
   digits |-> 253, junk |-> [count |-> 5, units |-> 4096, bytes |-> 4096, c1 |-> FALSE]]

SomeJunk ==
  {j \in [count : {0, 1, 5, 6}, units : {0, 1, 4096, 4097}, bytes : {0, 1, 2, 4096, 4097},
          c1 : BOOLEAN] :
     /\ j.bytes \in j.units .. 3 * j.units
     /\ j.c1 => j.bytes > j.units}

SomeExtras ==
  {[Extras EXCEPT !.jc = jc, !.jmin = jmin, !.jmax = jmax, !.s = s, !.s4 = s4] :
     jc \in {0, 10, 11}, jmin \in {63, 64, 1024}, jmax \in {64, 1024, 1025},
     s \in {0, 64, 65}, s4 \in {32, 33}}
  \cup
  {[Extras EXCEPT !.range = r, !.digits = d, !.junk = j] :
     r \in Ranges, d \in {1, 253, 254, 4097}, j \in SomeJunk}

SomeVlesses ==
  [uuid : {35, 36, 37}, host : {0, 1, 253, 254}, port : {0, 1, 65535, 65536},
   sni : {0, 253, 254}, pbk : {42, 43, 44}, sid : {0, 1, 2, 16, 17, 18}]

SomeConfigs ==
  [protocol : {"wireGuard"}, wg : SomeWireGuards] \cup
  [protocol : {"amneziaWg"}, wg : {Plain, Largest}, awg : SomeExtras] \cup
  [protocol : {"vless"}, vless : SomeVlesses]
=============================================================================
