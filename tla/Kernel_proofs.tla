----------------------------- MODULE Kernel_proofs -----------------------------
(***************************************************************************)
(* Kernel modules and XDP programs for every value of their constants:      *)
(* deferred work, pseudo files, the secret devices, the wireless driver, the*)
(* list kept with RCU, and the XDP programs with their loader.  Their       *)
(* variables are their own, and so are the arguments below.                 *)
(***************************************************************************)
EXTENDS DeferredWork, PseudoFiles, SecretDevices, WlanDriver, RcuBooks, XdpPrograms,
        FiniteSetTheorems, TLAPS

-----------------------------------------------------------------------------
(* XdpPrograms: what becomes of a packet *)

(* what bpf_fib_lookup() says of each address *)
XdRoutes == [XdAddresses -> {"success", "noneigh", "fail"}]

(* A verdict of a routing program: the packet as it was received, or, where its route
   was found, on its way to the neighbour *)
Unchanged(pkt, out) == out \in {Verdict("pass", pkt), Verdict("drop", pkt)}
Echoed(pkt, out) == 
  /\ xdFib[pkt.saddr] = "success" /\ out.pkt = ToHop(Reflected(pkt), pkt.saddr)
  /\ out.action = "redirect" \/ (out.action = "pass" /\ xdProg # "dev" /\ ~xdBound)
Forwarded(pkt, out) ==
  /\ xdFib[pkt.daddr] = "success" /\ out.pkt = ToHop(pkt, pkt.daddr)
  /\ out.action = "redirect" \/ (out.action = "pass" /\ xdProg # "dev" /\ ~xdBound)
Handed(pkt, out) ==
  xdProg = "xsk" /\ pkt.protocol = "other" /\ out.pkt = pkt

(* bpf_fib_lookup() has three outcomes, and only the one that found a neighbour lets a
   program change or redirect the packet (xdp_redirect_dev.c:85-92). *)
LEMMA RoutedIs ==
  ASSUME xdFib \in XdRoutes, NEW dst \in XdAddresses, NEW pkt, NEW verdict
  PROVE  \/ Unchanged(pkt, Routed(pkt, dst, verdict))
         \/ (xdFib[dst] = "success" /\ Routed(pkt, dst, verdict) = verdict)
<1>1. xdFib[dst] = "success" \/ xdFib[dst] = "noneigh" \/ xdFib[dst] = "fail"
  BY DEF XdRoutes
<1>2. CASE xdFib[dst] = "success"
  BY <1>2 DEF Routed
<1>3. CASE xdFib[dst] = "noneigh"
  BY <1>3 DEF Routed, Unchanged
<1>4. CASE xdFib[dst] = "fail"
  BY <1>4 DEF Routed, Unchanged
<1> QED BY <1>1, <1>2, <1>3, <1>4

(* bpf_redirect_map gives the packet to a bound socket, or to the kernel if there is none
   (xdp_redirect_xsk.c:272), and does not change it. *)
LEMMA ToSocketIs ==
  ASSUME xdBound \in BOOLEAN, NEW pkt
  PROVE  /\ ToSocket(pkt).pkt = pkt
         /\ ToSocket(pkt).action = "redirect" \/ (ToSocket(pkt).action = "pass" /\ ~xdBound)
BY DEF ToSocket, Verdict

(* xdp_sock2_prog passes or drops a packet as it is, reflects an echo request, or forwards
   a TCP or UDP packet (xdp_redirect_dev.c:40-308). *)
LEMMA DevVerdict ==
  ASSUME xdFib \in XdRoutes, xdProg = "dev", NEW pkt \in Packets
  PROVE  \/ Unchanged(pkt, xdp_sock2_prog(pkt))
         \/ (pkt.protocol = "icmp" /\ Echoed(pkt, xdp_sock2_prog(pkt)))
         \/ (pkt.protocol # "icmp" /\ Forwarded(pkt, xdp_sock2_prog(pkt)))
<1>0. pkt.saddr \in XdAddresses /\ pkt.daddr \in XdAddresses
  BY DEF Packets
<1>1. CASE xdp_sock2_prog(pkt) = Verdict("pass", pkt)
  BY <1>1 DEF Unchanged
<1>2. CASE pkt.protocol = "icmp" /\ xdp_sock2_prog(pkt) = dev_icmp(pkt)
  <2>1. PICK v : v = Verdict("redirect", ToHop(Reflected(pkt), pkt.saddr))
    BY Zenon
  <2>2. v.action = "redirect" /\ v.pkt = ToHop(Reflected(pkt), pkt.saddr)
    BY <2>1 DEF Verdict
  <2>3. Unchanged(pkt, xdp_sock2_prog(pkt)) \/ (xdFib[pkt.saddr] = "success" /\ xdp_sock2_prog(pkt) = v)
    <3>1. \/ Unchanged(pkt, Routed(pkt, pkt.saddr, v))
          \/ (xdFib[pkt.saddr] = "success" /\ Routed(pkt, pkt.saddr, v) = v)
      BY <1>0, RoutedIs
    <3> QED BY <1>2, <2>1, <3>1, Zenon DEF dev_icmp
  <2> QED BY <1>2, <2>2, <2>3, Zenon DEF Echoed
<1>3. CASE pkt.protocol # "icmp" /\ xdp_sock2_prog(pkt) = Routed(pkt, pkt.daddr, Verdict("redirect", ToHop(pkt, pkt.daddr)))
  <2>1. PICK v : v = Verdict("redirect", ToHop(pkt, pkt.daddr))
    BY Zenon
  <2>2. v.action = "redirect" /\ v.pkt = ToHop(pkt, pkt.daddr)
    BY <2>1 DEF Verdict
  <2>3. Unchanged(pkt, xdp_sock2_prog(pkt)) \/ (xdFib[pkt.daddr] = "success" /\ xdp_sock2_prog(pkt) = v)
    <3>1. \/ Unchanged(pkt, Routed(pkt, pkt.daddr, v))
          \/ (xdFib[pkt.daddr] = "success" /\ Routed(pkt, pkt.daddr, v) = v)
      BY <1>0, RoutedIs
    <3> QED BY <1>3, <2>1, <3>1, Zenon
  <2> QED BY <1>3, <2>2, <2>3, Zenon DEF Forwarded
<1> QED BY <1>1, <1>2, <1>3, Zenon DEF xdp_sock2_prog, dev_tcp, dev_udp

(* What the programs for sockets do with a packet they route (xdp_redirect_xsk.c:102-220):
   it is reflected or forwarded, and goes to the kernel only if no socket is bound. *)
LEMMA SocketVerdict ==
  ASSUME xdFib \in XdRoutes, xdBound \in BOOLEAN, xdProg # "dev", NEW pkt \in Packets
  PROVE  /\ \/ Unchanged(pkt, Routed(pkt, pkt.daddr, ToSocket(ToHop(pkt, pkt.daddr))))
            \/ Forwarded(pkt, Routed(pkt, pkt.daddr, ToSocket(ToHop(pkt, pkt.daddr))))
         /\ Unchanged(pkt, xsk_icmp(pkt)) \/ Echoed(pkt, xsk_icmp(pkt))
<1>0. pkt.saddr \in XdAddresses /\ pkt.daddr \in XdAddresses
  BY DEF Packets
<1>1. PICK v, o : v = ToSocket(ToHop(pkt, pkt.daddr)) /\ o = Routed(pkt, pkt.daddr, v)
  BY Zenon
<1>2. v.pkt = ToHop(pkt, pkt.daddr) /\ (v.action = "redirect" \/ (v.action = "pass" /\ ~xdBound))
  BY <1>1, ToSocketIs, Zenon
<1>3. Unchanged(pkt, o) \/ (xdFib[pkt.daddr] = "success" /\ o = v)
  <2>1. \/ Unchanged(pkt, Routed(pkt, pkt.daddr, v))
        \/ (xdFib[pkt.daddr] = "success" /\ Routed(pkt, pkt.daddr, v) = v)
    BY <1>0, RoutedIs
  <2> QED BY <1>1, <2>1, Zenon
<1>4. Unchanged(pkt, o) \/ Forwarded(pkt, o)
  BY <1>2, <1>3, Zenon DEF Forwarded
<1>5. PICK w, e : w = ToSocket(ToHop(Reflected(pkt), pkt.saddr)) /\ e = Routed(pkt, pkt.saddr, w)
  BY Zenon
<1>6. w.pkt = ToHop(Reflected(pkt), pkt.saddr) /\ (w.action = "redirect" \/ (w.action = "pass" /\ ~xdBound))
  BY <1>5, ToSocketIs, Zenon
<1>7. Unchanged(pkt, e) \/ (xdFib[pkt.saddr] = "success" /\ e = w)
  <2>1. \/ Unchanged(pkt, Routed(pkt, pkt.saddr, w))
        \/ (xdFib[pkt.saddr] = "success" /\ Routed(pkt, pkt.saddr, w) = w)
    BY <1>0, RoutedIs
  <2> QED BY <1>5, <2>1, Zenon
<1>8. Unchanged(pkt, e) \/ Echoed(pkt, e)
  BY <1>6, <1>7, Zenon DEF Echoed
<1> QED BY <1>1, <1>4, <1>5, <1>8, Zenon DEF xsk_icmp

(* xdp_def_prog does the same, and hands a packet of another protocol to the socket as it
   is (xdp_redirect_xsk.c:46-99). *)
LEMMA XskVerdict ==
  ASSUME xdFib \in XdRoutes, xdBound \in BOOLEAN, xdProg = "xsk", NEW pkt \in Packets
  PROVE  \/ Unchanged(pkt, xdp_def_prog(pkt))
         \/ (pkt.protocol = "icmp" /\ Echoed(pkt, xdp_def_prog(pkt)))
         \/ (pkt.protocol # "icmp" /\ Forwarded(pkt, xdp_def_prog(pkt)))
         \/ Handed(pkt, xdp_def_prog(pkt))
<1>0. pkt.protocol \in {"icmp", "tcp", "udp", "other"} /\ xdProg # "dev"
  BY DEF Packets
<1>1. CASE xdp_def_prog(pkt) = Verdict("pass", pkt)
  BY <1>1 DEF Unchanged
<1>2. CASE pkt.protocol = "icmp" /\ xdp_def_prog(pkt) = xsk_icmp(pkt)
  BY <1>0, <1>2, SocketVerdict, Zenon
<1>3. CASE pkt.protocol # "icmp" /\ xdp_def_prog(pkt) = Routed(pkt, pkt.daddr, ToSocket(ToHop(pkt, pkt.daddr)))
  BY <1>0, <1>3, SocketVerdict, Zenon
<1>4. CASE pkt.protocol = "other" /\ xdp_def_prog(pkt) = ToSocket(pkt)
  BY <1>4, ToSocketIs, Zenon DEF Handed
<1> QED BY <1>0, <1>1, <1>2, <1>3, <1>4, Zenon DEF xdp_def_prog, xsk_tcp, xsk_udp

(* xsk_def_prog forwards every IPv4 packet by its destination, echo requests too
   (_xsk_def_xdp_prog.c:28-110). *)
LEMMA DefVerdict ==
  ASSUME xdFib \in XdRoutes, xdBound \in BOOLEAN, xdProg = "def", NEW pkt \in Packets
  PROVE  Unchanged(pkt, xsk_def_prog(pkt)) \/ Forwarded(pkt, xsk_def_prog(pkt))
<1>0. xdProg # "dev"
  OBVIOUS
<1>1. CASE xsk_def_prog(pkt) = Verdict("pass", pkt)
  BY <1>1 DEF Unchanged
<1>2. CASE xsk_def_prog(pkt) = Routed(pkt, pkt.daddr, ToSocket(ToHop(pkt, pkt.daddr)))
  BY <1>0, <1>2, SocketVerdict, Zenon
<1> QED BY <1>1, <1>2, Zenon DEF xsk_def_prog

(* The memcpy of the link addresses leaves the IP addresses as they are
   (xdp_redirect_dev.c:99-112). *)
LEMMA HopFields ==
  ASSUME NEW pkt \in Packets
  PROVE  /\ ToHop(pkt, pkt.daddr).daddr = pkt.daddr
         /\ ToHop(pkt, pkt.daddr).h_dest = NextHop(pkt.daddr)
         /\ ToHop(Reflected(pkt), pkt.saddr).daddr = pkt.saddr
         /\ ToHop(Reflected(pkt), pkt.saddr).h_dest = NextHop(pkt.saddr)
BY DEF ToHop, Reflected, Packets

(* "check += bpf_htons(1)" adds one to the checksum on a little-endian machine, unless its
   low byte is 0xFF: the carry is lost (xdp_packet_block.c:79-82). *)
LEMMA CheckPlusOneIs ==
  ASSUME NEW c \in Nat, c < 65536
  PROVE  /\ c % 256 # 255 => CheckPlusOne(c) = c + 1
         /\ c % 256 = 255 => CheckPlusOne(c) = IF c = 255 THEN 1 ELSE c - 255
<1> DEFINE add(x) == Swap((Swap(x) + Swap(1)) % 65536)
<1>1. ASSUME NEW l \in Nat, l < 256, NEW h \in Nat, h < 256 PROVE Swap(256 * h + l) = 256 * l + h
  <2>1. (256 * h + l) % 256 = l /\ (256 * h + l) \div 256 = h
    BY <1>1
  <2> QED BY <2>1 DEF Swap
<1>2. Swap(1) = 256
  BY DEF Swap
<1>3. ASSUME NEW l \in Nat, l < 256, NEW h \in Nat, h < 256
      PROVE  add(256 * h + l) = IF l = 255 THEN 256 * h ELSE 256 * h + l + 1
  <2>1. add(256 * h + l) = Swap((256 * l + h + 256) % 65536)
    BY <1>1, <1>2, <1>3
  <2>2. CASE l = 255
    <3>1. (256 * l + h + 256) % 65536 = 256 * 0 + h
      BY <1>3, <2>2
    <3>2. Swap(256 * 0 + h) = 256 * h + 0
      BY <1>1, <1>3
    <3> QED BY <2>1, <2>2, <3>1, <3>2
  <2>3. CASE l # 255
    <3>1. (256 * l + h + 256) % 65536 = 256 * (l + 1) + h /\ l + 1 \in Nat /\ l + 1 < 256
      BY <1>3, <2>3
    <3>2. Swap(256 * (l + 1) + h) = 256 * h + (l + 1)
      BY <1>1, <1>3, <3>1
    <3> QED BY <2>1, <2>3, <3>1, <3>2
  <2> QED BY <2>2, <2>3
<1>4. PICK l \in Nat, h \in Nat : c = 256 * h + l /\ l = c % 256 /\ l < 256 /\ h < 256
  <2>1. c % 256 \in Nat /\ c % 256 < 256
    OBVIOUS
  <2>2. c \div 256 \in Nat
    OBVIOUS
  <2>3. c = 256 * (c \div 256) + (c % 256)
    OBVIOUS
  <2>4. c \div 256 < 256
    BY <2>1, <2>2, <2>3
  <2> QED BY <2>1, <2>2, <2>3, <2>4
<1>5. add(0) = 1
  <2>1. add(256 * 0 + 0) = 256 * 0 + 0 + 1
    BY <1>3
  <2> QED BY <2>1
<1>6. CheckPlusOne(c) = IF add(c) = 0 THEN add(0) ELSE add(c)
  BY DEF CheckPlusOne
<1>7. add(c) = IF l = 255 THEN 256 * h ELSE 256 * h + l + 1
  BY <1>3, <1>4
<1> HIDE DEF add
<1> QED BY <1>4, <1>5, <1>6, <1>7

(* The loader and the maps: an id for every map, and a port for every id *)
XdPcs == {"start", "refused", "scan", "update", "left", "sleep", "done"}
XdTypes ==
  /\ xdProg \in XdPrograms /\ xdFib \in XdRoutes /\ xdBound \in BOOLEAN
  /\ xdMaps \in Seq({"ours", "same", "other"}) /\ xdStored \in Seq({0, ALLOWED_PORT})
  /\ Len(xdStored) = Len(xdMaps)
  /\ xdLoader \in [pc : XdPcs, sid : Nat, fd : Nat, cut : BOOLEAN]
  /\ xdLoader.fd <= xdLoader.sid /\ xdLoader.sid <= Len(xdMaps)

XdIds == 1 .. Len(xdMaps)

(* The scan has the last map of the name among those it has seen; the loader's own map
   is there from the attachment on, once, and a scan that is not cut has seen it *)
XdScan ==
  /\ xdLoader.pc \in {"start", "refused"} => \A id \in XdIds : xdMaps[id] # "ours"
  /\ xdLoader.pc = "start" => xdLoader.sid = 0
  /\ xdLoader.pc \notin {"start", "refused"} => \E id \in XdIds : xdMaps[id] = "ours"
  /\ \A i, j \in XdIds : xdMaps[i] = "ours" /\ xdMaps[j] = "ours" => i = j
  /\ xdLoader.fd # 0 => xdMaps[xdLoader.fd] \in {"ours", "same"}
  /\ \A id \in XdIds : xdMaps[id] \in {"ours", "same"} /\ id <= xdLoader.sid => id <= xdLoader.fd
  /\ xdLoader.pc \in {"update", "left", "sleep", "done"} /\ ~xdLoader.cut =>
       \A id \in XdIds : xdMaps[id] = "ours" => id <= xdLoader.sid
  /\ xdLoader.pc = "sleep" => xdLoader.fd # 0 /\ xdStored[xdLoader.fd] = ALLOWED_PORT
  /\ xdLoader.pc \notin {"sleep", "done"} => \A id \in XdIds : xdStored[id] = 0

XdPacketInv == XdSentToNextHop /\ XdPassedAsReceived /\ XdChecksumFollowsPort /\ XdOnlyAllowedPort
XdIInv == XdTypes /\ XdScan /\ XdPacketInv

(* The filter finds in its map no port or the allowed one, and a port only after a map has
   got one (xdp_map_allow.c:68-92). *)
LEMMA StoredIs ==
  ASSUME XdTypes
  PROVE  /\ StoredPort \in {0, ALLOWED_PORT}
         /\ StoredPort # 0 => \E id \in XdIds : xdStored[id] # 0
<1>1. DOMAIN xdMaps = XdIds /\ \A id \in XdIds : xdStored[id] \in {0, ALLOWED_PORT}
  BY DEF XdTypes, XdIds
<1>2. CASE \E id \in Ours : xdStored[id] # 0
  <2>1. PICK o : o = (CHOOSE id \in Ours : TRUE)
    BY Zenon
  <2>2. o \in Ours
    BY <1>2, <2>1
  <2>3. o \in XdIds /\ StoredPort = xdStored[o]
    BY <1>1, <1>2, <2>1, <2>2 DEF Ours, StoredPort
  <2> QED BY <1>1, <2>3
<1>3. CASE ~ \E id \in Ours : xdStored[id] # 0
  BY <1>3 DEF StoredPort
<1> QED BY <1>2, <1>3

(* What the filter lets through is a whole UDP packet to the allowed port, after the loader
   has stored it (xdp_map_allow.c:39-123). *)
LEMMA AllowVerdict ==
  ASSUME XdTypes, XdScan, NEW pkt \in Packets, pkt.h_proto = "ip", pkt.hdrs > 0,
         allowed_addr_prog(pkt).action = "pass"
  PROVE  /\ pkt.hdrs = 3 /\ pkt.protocol = "udp" /\ pkt.dest = ALLOWED_PORT
         /\ xdLoader.pc \in {"sleep", "done"}
<1>1. pkt.hdrs \in 0 .. 3
  BY DEF Packets
<1>2. pkt.hdrs = 3 /\ StoredPort # 0 /\ pkt.protocol = "udp" /\ pkt.dest = StoredPort
  BY <1>1 DEF allowed_addr_prog, Verdict
<1>3. StoredPort = ALLOWED_PORT /\ \E id \in XdIds : xdStored[id] # 0
  BY <1>2, StoredIs
<1>4. xdLoader.pc \in {"sleep", "done"}
  BY <1>3 DEF XdScan
<1> QED BY <1>2, <1>3, <1>4

(* The words of a UDP packet whose port was lowered have the same ones' complement sum as
   before, unless the carry was lost (xdp_packet_block.c:56-82). *)
LEMMA BlockVerdict ==
  ASSUME NEW pkt \in Packets, pkt.hdrs = 3, pkt.h_proto # "other", pkt.protocol = "udp", pkt.dest > 0, NEW out,
         out = xdp_block_port_func(pkt).pkt
  PROVE  (out.dest + out.check - pkt.dest - pkt.check) % 65535 = 0 <=> pkt.check % 256 # 255
<1>1. /\ pkt.h_proto \in {"ip", "ipv6"} /\ pkt.dest \in Nat /\ pkt.dest < 65536
      /\ pkt.check \in Nat /\ pkt.check < 65536
  BY XdAssumption DEF Packets
<1>2. xdp_block_port_func(pkt) = block_udp(pkt)
  BY <1>1 DEF xdp_block_port_func
<1>3. out = [pkt EXCEPT !.dest = (pkt.dest - 1) % 65536, !.check = CheckPlusOne(pkt.check)]
  BY <1>2 DEF block_udp, Verdict
<1>4. out.dest = (pkt.dest - 1) % 65536 /\ out.check = CheckPlusOne(pkt.check)
  BY <1>3 DEF Packets
<1>5. out.dest = pkt.dest - 1
  BY <1>1, <1>4
<1>6. CASE pkt.check % 256 # 255
  <2>1. out.check = pkt.check + 1
    BY <1>1, <1>4, <1>6, CheckPlusOneIs
  <2> QED BY <1>1, <1>5, <1>6, <2>1
<1>7. CASE pkt.check % 256 = 255 /\ pkt.check = 255
  <2>1. out.check = 1
    BY <1>1, <1>4, <1>7, CheckPlusOneIs
  <2> QED BY <1>1, <1>5, <1>7, <2>1
<1>8. CASE pkt.check % 256 = 255 /\ pkt.check # 255
  <2>1. out.check = pkt.check - 255
    BY <1>1, <1>4, <1>8, CheckPlusOneIs
  <2> QED BY <1>1, <1>5, <1>8, <2>1
<1> QED BY <1>6, <1>7, <1>8

(* Whatever a routing program redirects is on its way to the neighbour of its destination,
   and what it gives to the kernel was not changed, or had no socket to go to. *)
LEMMA RouteVerdict ==
  ASSUME xdFib \in XdRoutes, xdBound \in BOOLEAN, xdProg \in {"dev", "xsk", "def"}, NEW pkt \in Packets,
         NEW out, out = Handled(pkt)
  PROVE  /\ out.action = "redirect" /\ (xdProg = "xsk" => pkt.protocol # "other") =>
              /\ xdFib[out.pkt.daddr] = "success" /\ out.pkt.h_dest = NextHop(out.pkt.daddr)
              /\ out.pkt.daddr = IF xdProg # "def" /\ pkt.protocol = "icmp" THEN pkt.saddr ELSE pkt.daddr
         /\ out.action \in {"pass", "drop"} =>
              out.pkt = pkt \/ (xdProg # "dev" /\ ~xdBound /\ xdFib[out.pkt.daddr] = "success")
<1>1. \/ Unchanged(pkt, out)
      \/ (xdProg # "def" /\ pkt.protocol = "icmp" /\ Echoed(pkt, out))
      \/ ((xdProg = "def" \/ pkt.protocol # "icmp") /\ Forwarded(pkt, out))
      \/ Handed(pkt, out)
  <2>1. CASE xdProg = "dev"
    BY <2>1, DevVerdict DEF Handled
  <2>2. CASE xdProg = "xsk"
    BY <2>2, XskVerdict DEF Handled
  <2>3. CASE xdProg = "def"
    BY <2>3, DefVerdict DEF Handled
  <2> QED BY <2>1, <2>2, <2>3
<1>2. CASE Unchanged(pkt, out)
  BY <1>2 DEF Unchanged, Verdict
<1>3. CASE xdProg # "def" /\ pkt.protocol = "icmp" /\ Echoed(pkt, out)
  BY <1>3, HopFields DEF Echoed
<1>4. CASE (xdProg = "def" \/ pkt.protocol # "icmp") /\ Forwarded(pkt, out)
  BY <1>4, HopFields DEF Forwarded
<1>5. CASE Handed(pkt, out)
  BY <1>5 DEF Handed
<1> QED BY <1>1, <1>2, <1>3, <1>4, <1>5, Zenon

(* What becomes of a packet that comes agrees with its headers and the maps. *)
LEMMA PacketKeeps == XdTypes /\ XdScan /\ PacketComes => XdPacketInv'
<1> SUFFICES ASSUME XdTypes, XdScan, PacketComes PROVE XdPacketInv'
  OBVIOUS
<1>1. PICK pkt \in Packets : xdPkt' = <<pkt>> /\ xdOut' = <<Handled(pkt)>>
  BY DEF PacketComes, Sample
<1>2. PICK out : out = Handled(pkt)
  BY Zenon
<1>3. xdPkt'[1] = pkt /\ xdOut'[1] = out /\ UNCHANGED <<xdProg, xdFib, xdBound, xdMaps, xdStored, xdLoader>>
  BY <1>1, <1>2 DEF PacketComes, xdEnv, xdMain
<1>4. xdFib \in XdRoutes /\ xdBound \in BOOLEAN /\ xdProg \in {"dev", "xsk", "def", "block", "allow"}
  <2>1. xdFib \in XdRoutes /\ xdBound \in BOOLEAN /\ xdProg \in XdPrograms
    BY DEF XdTypes
  <2> QED BY <2>1, XdProgramsAssumption
<1>5. CASE xdProg \in {"dev", "xsk", "def"}
  <2>1. xdProg' # "block" /\ xdProg' # "allow"
    BY <1>3, <1>5
  <2>2. XdSentToNextHop' /\ XdPassedAsReceived'
    BY <1>2, <1>3, <1>4, <1>5, RouteVerdict DEF XdSentToNextHop, XdPassedAsReceived, NextHop
  <2>3. XdChecksumFollowsPort' /\ XdOnlyAllowedPort'
    BY <2>1 DEF XdChecksumFollowsPort, XdOnlyAllowedPort
  <2> QED BY <2>2, <2>3 DEF XdPacketInv
<1>6. CASE xdProg = "block"
  <2>0. out = xdp_block_port_func(pkt)
    BY <1>2, <1>6 DEF Handled
  <2>1. out.action # "redirect"
    BY <2>0 DEF xdp_block_port_func, block_udp, block_tcp, Verdict
  <2>2. XdSentToNextHop' /\ XdPassedAsReceived' /\ XdOnlyAllowedPort'
    BY <1>3, <1>6, <2>1 DEF XdSentToNextHop, XdPassedAsReceived, XdOnlyAllowedPort
  <2>3. XdChecksumFollowsPort'
    BY <1>3, <2>0, BlockVerdict DEF XdChecksumFollowsPort
  <2> QED BY <2>2, <2>3 DEF XdPacketInv
<1>7. CASE xdProg = "allow"
  <2>0. out = allowed_addr_prog(pkt)
    BY <1>2, <1>7 DEF Handled
  <2>1. out.action # "redirect"
    BY <2>0 DEF allowed_addr_prog, Verdict
  <2>2. XdSentToNextHop' /\ XdPassedAsReceived' /\ XdChecksumFollowsPort'
    BY <1>3, <1>7, <2>1 DEF XdSentToNextHop, XdPassedAsReceived, XdChecksumFollowsPort
  <2>3. XdOnlyAllowedPort'
    BY <1>3, <2>0, AllowVerdict DEF XdOnlyAllowedPort
  <2> QED BY <2>2, <2>3 DEF XdPacketInv
<1> QED BY <1>4, <1>5, <1>6, <1>7

(* A map that is made gets the next id and no port, and the maps there are keep theirs. *)
LEMMA NewMap ==
  ASSUME XdTypes, NEW name \in {"ours", "same", "other"}, NEW n, n = Len(xdMaps) + 1,
         xdMaps' = Append(xdMaps, name), xdStored' = Append(xdStored, 0)
  PROVE  /\ xdMaps' \in Seq({"ours", "same", "other"}) /\ xdStored' \in Seq({0, ALLOWED_PORT})
         /\ Len(xdMaps') = n /\ Len(xdStored') = n /\ n \in Nat /\ Len(xdMaps) \in Nat
         /\ \A id \in XdIds : xdMaps'[id] = xdMaps[id] /\ xdStored'[id] = xdStored[id]
         /\ xdMaps'[n] = name /\ xdStored'[n] = 0
         /\ XdIds' = XdIds \cup {n} /\ n \notin XdIds
BY DEF XdTypes, XdIds

(* Attaching the program makes the loader's map, with a higher id than those there are
   (map/main.c:60-86). *)
LEMMA AttachKeeps == XdTypes /\ XdScan /\ LoaderAttach /\ UNCHANGED xdEnv => XdTypes' /\ XdScan'
<1> SUFFICES ASSUME XdTypes, XdScan, LoaderAttach, UNCHANGED xdEnv PROVE XdTypes' /\ XdScan'
  OBVIOUS
<1>0. /\ xdProg' \in XdPrograms /\ xdFib' \in XdRoutes /\ xdBound' \in BOOLEAN
      /\ xdLoader \in [pc : XdPcs, sid : Nat, fd : Nat, cut : BOOLEAN] /\ xdLoader.sid = 0 /\ xdLoader.fd = 0
      /\ \A id \in XdIds : xdMaps[id] # "ours" /\ xdStored[id] = 0
      /\ xdLoader.pc = "start"
  BY DEF XdTypes, XdScan, xdEnv, LoaderAttach
<1>1. CASE xdLoader' = [xdLoader EXCEPT !.pc = "refused"] /\ UNCHANGED <<xdMaps, xdStored>>
  <2>1. xdLoader' \in [pc : XdPcs, sid : Nat, fd : Nat, cut : BOOLEAN] /\ xdLoader'.pc = "refused"
        /\ xdLoader'.sid = 0 /\ xdLoader'.fd = 0 /\ XdIds' = XdIds
    BY <1>0, <1>1 DEF XdPcs, XdIds
  <2> QED BY <1>0, <1>1, <2>1 DEF XdTypes, XdScan
<1>2. CASE /\ xdLoader' = [xdLoader EXCEPT !.pc = "scan"]
           /\ xdMaps' = Append(xdMaps, "ours") /\ xdStored' = Append(xdStored, 0)
  <2>1. xdLoader' \in [pc : XdPcs, sid : Nat, fd : Nat, cut : BOOLEAN] /\ xdLoader'.pc = "scan"
        /\ xdLoader'.sid = 0 /\ xdLoader'.fd = 0
    BY <1>0, <1>2 DEF XdPcs
  <2>2. PICK n : n = Len(xdMaps) + 1
    BY Zenon
  <2>6. "ours" \in {"ours", "same", "other"}
    OBVIOUS
  <2>3. /\ xdMaps' \in Seq({"ours", "same", "other"}) /\ xdStored' \in Seq({0, ALLOWED_PORT})
        /\ Len(xdMaps') = n /\ Len(xdStored') = n /\ n \in Nat
        /\ \A id \in XdIds : xdMaps'[id] = xdMaps[id] /\ xdStored'[id] = xdStored[id]
        /\ xdMaps'[n] = "ours" /\ xdStored'[n] = 0
        /\ XdIds' = XdIds \cup {n}
    BY <1>2, <2>2, <2>6, NewMap, Zenon
  <2>4. XdTypes'
    BY <1>0, <2>1, <2>3 DEF XdTypes
  <2>5. \A id \in XdIds' : xdStored'[id] = 0 /\ id \in Nat \ {0} /\ (xdMaps'[id] = "ours" <=> id = n)
    BY <1>0, <2>3, SMTT(30) DEF XdIds
  <2> QED BY <2>1, <2>3, <2>4, <2>5 DEF XdScan
<1> QED BY <1>1, <1>2 DEF LoaderAttach

(* The scan looks at the next map, is cut short, or ends: fd stays the last map of the name
   among those it has seen (map/main.c:88-127). *)
LEMMA ScanKeeps == XdTypes /\ XdScan /\ ScanMaps /\ UNCHANGED xdEnv => XdTypes' /\ XdScan'
<1> SUFFICES ASSUME XdTypes, XdScan, ScanMaps, UNCHANGED xdEnv PROVE XdTypes' /\ XdScan'
  OBVIOUS
<1>0. /\ xdProg' \in XdPrograms /\ xdFib' \in XdRoutes /\ xdBound' \in BOOLEAN
      /\ xdLoader \in [pc : XdPcs, sid : Nat, fd : Nat, cut : BOOLEAN] /\ xdLoader.pc = "scan"
      /\ UNCHANGED <<xdMaps, xdStored>> /\ XdIds' = XdIds /\ Len(xdMaps) \in Nat
      /\ \A id \in XdIds : id \in Nat \ {0} /\ id <= Len(xdMaps)
  BY DEF XdTypes, xdEnv, ScanMaps, XdIds
<1>1. CASE xdLoader.sid = Len(xdMaps) /\ xdLoader' = [xdLoader EXCEPT !.pc = "update"]
  <2>1. xdLoader' \in [pc : XdPcs, sid : Nat, fd : Nat, cut : BOOLEAN] /\ xdLoader'.pc = "update"
        /\ xdLoader'.sid = xdLoader.sid /\ xdLoader'.fd = xdLoader.fd /\ xdLoader'.cut = xdLoader.cut
    BY <1>0, <1>1 DEF XdPcs
  <2>2. XdTypes'
    BY <1>0, <2>1 DEF XdTypes
  <2> QED BY <1>0, <1>1, <2>1, <2>2 DEF XdScan
<1>2. CASE xdLoader' = [xdLoader EXCEPT !.pc = "update", !.cut = TRUE]
  <2>1. xdLoader' \in [pc : XdPcs, sid : Nat, fd : Nat, cut : BOOLEAN] /\ xdLoader'.pc = "update"
        /\ xdLoader'.sid = xdLoader.sid /\ xdLoader'.fd = xdLoader.fd /\ xdLoader'.cut = TRUE
    BY <1>0, <1>2, Zenon DEF XdPcs
  <2>2. XdTypes'
    BY <1>0, <2>1 DEF XdTypes
  <2> QED BY <1>0, <2>1, <2>2 DEF XdScan
<1>3. ASSUME xdLoader.sid # Len(xdMaps), NEW mid, mid = xdLoader.sid + 1,
             xdLoader' = [xdLoader EXCEPT !.sid = mid, !.fd = IF xdMaps[mid] \in {"ours", "same"} THEN mid ELSE @]
      PROVE  XdTypes' /\ XdScan'
  <2>1. mid \in Nat /\ mid \in XdIds /\ mid <= Len(xdMaps) /\ xdLoader.fd <= mid
    BY <1>0, <1>3 DEF XdTypes, XdIds
  <2>2. xdLoader' \in [pc : XdPcs, sid : Nat, fd : Nat, cut : BOOLEAN] /\ xdLoader'.pc = "scan"
        /\ xdLoader'.sid = mid /\ xdLoader'.fd = (IF xdMaps[mid] \in {"ours", "same"} THEN mid ELSE xdLoader.fd)
    BY <1>0, <1>3, <2>1, Zenon DEF XdPcs
  <2>3. XdTypes'
    BY <1>0, <2>1, <2>2 DEF XdTypes
  <2>4. \A id \in XdIds : id <= mid => id = mid \/ id <= xdLoader.sid
    BY <1>0, <1>3
  <2>5. \A id \in XdIds : xdMaps[id] \in {"ours", "same"} /\ id <= mid => id <= xdLoader'.fd
    <3>1. SUFFICES ASSUME NEW id \in XdIds, xdMaps[id] \in {"ours", "same"}, id <= mid PROVE id <= xdLoader'.fd
      OBVIOUS
    <3>2. CASE id = mid
      BY <1>0, <2>1, <2>2, <3>1, <3>2
    <3>3. CASE id <= xdLoader.sid
      <4>1. id <= xdLoader.fd
        BY <3>1, <3>3, Zenon DEF XdScan
      <4> QED BY <1>0, <2>1, <2>2, <4>1
    <3> QED BY <2>4, <3>1, <3>2, <3>3
  <2> QED BY <1>0, <2>1, <2>2, <2>3, <2>5 DEF XdScan
<1> QED BY <1>1, <1>2, <1>3, Zenon DEF ScanMaps

(* The port is stored in the map the scan has left in fd, and in no other
   (map/main.c:129-152). *)
LEMMA UpdateKeeps == XdTypes /\ XdScan /\ UpdateMap /\ UNCHANGED xdEnv => XdTypes' /\ XdScan'
<1> SUFFICES ASSUME XdTypes, XdScan, UpdateMap, UNCHANGED xdEnv PROVE XdTypes' /\ XdScan'
  OBVIOUS
<1>0. /\ xdProg' \in XdPrograms /\ xdFib' \in XdRoutes /\ xdBound' \in BOOLEAN
      /\ xdLoader \in [pc : XdPcs, sid : Nat, fd : Nat, cut : BOOLEAN] /\ xdLoader.pc = "update"
      /\ UNCHANGED xdMaps /\ XdIds' = XdIds
  BY DEF XdTypes, xdEnv, UpdateMap, XdIds
<1>1. CASE xdLoader.fd = 0 /\ xdLoader' = [xdLoader EXCEPT !.pc = "left"] /\ UNCHANGED xdStored
  <2>1. xdLoader' \in [pc : XdPcs, sid : Nat, fd : Nat, cut : BOOLEAN] /\ xdLoader'.pc = "left"
        /\ xdLoader'.sid = xdLoader.sid /\ xdLoader'.fd = xdLoader.fd /\ xdLoader'.cut = xdLoader.cut
    BY <1>0, <1>1 DEF XdPcs
  <2>2. XdTypes'
    BY <1>0, <1>1, <2>1 DEF XdTypes
  <2> QED BY <1>0, <1>1, <2>1, <2>2 DEF XdScan
<1>2. CASE /\ xdLoader.fd # 0 /\ xdLoader' = [xdLoader EXCEPT !.pc = "sleep"]
           /\ xdStored' = [xdStored EXCEPT ![xdLoader.fd] = ALLOWED_PORT]
  <2>1. xdLoader' \in [pc : XdPcs, sid : Nat, fd : Nat, cut : BOOLEAN] /\ xdLoader'.pc = "sleep"
        /\ xdLoader'.sid = xdLoader.sid /\ xdLoader'.fd = xdLoader.fd /\ xdLoader'.cut = xdLoader.cut
    BY <1>0, <1>2 DEF XdPcs
  <2>2. xdLoader.fd \in 1 .. Len(xdStored) /\ xdStored \in Seq({0, ALLOWED_PORT})
    BY <1>0, <1>2 DEF XdTypes
  <2>3. xdStored' \in Seq({0, ALLOWED_PORT}) /\ Len(xdStored') = Len(xdStored) /\ xdStored'[xdLoader.fd] = ALLOWED_PORT
    BY <1>2, <2>2
  <2>4. XdTypes'
    BY <1>0, <2>1, <2>3 DEF XdTypes
  <2> QED BY <1>0, <1>2, <2>1, <2>3, <2>4 DEF XdScan
<1> QED BY <1>1, <1>2 DEF UpdateMap

(* remove_xdp_program detaches the program and leaves the maps as they are
   (map/main.c:41-57). *)
LEMMA RemoveKeeps == XdTypes /\ XdScan /\ remove_xdp_program /\ UNCHANGED xdEnv => XdTypes' /\ XdScan'
<1> SUFFICES ASSUME XdTypes, XdScan, remove_xdp_program, UNCHANGED xdEnv PROVE XdTypes' /\ XdScan'
  OBVIOUS
<1>0. /\ xdProg' \in XdPrograms /\ xdFib' \in XdRoutes /\ xdBound' \in BOOLEAN
      /\ xdLoader \in [pc : XdPcs, sid : Nat, fd : Nat, cut : BOOLEAN] /\ xdLoader.pc = "sleep"
      /\ UNCHANGED <<xdMaps, xdStored>> /\ XdIds' = XdIds /\ xdLoader' = [xdLoader EXCEPT !.pc = "done"]
  BY DEF XdTypes, xdEnv, remove_xdp_program, XdIds
<1>1. xdLoader' \in [pc : XdPcs, sid : Nat, fd : Nat, cut : BOOLEAN] /\ xdLoader'.pc = "done"
      /\ xdLoader'.sid = xdLoader.sid /\ xdLoader'.fd = xdLoader.fd /\ xdLoader'.cut = xdLoader.cut
  BY <1>0 DEF XdPcs
<1>2. XdTypes'
  BY <1>0, <1>1 DEF XdTypes
<1> QED BY <1>0, <1>1, <1>2 DEF XdScan

(* Another program makes a map, of the same name perhaps: it is not the loader's, and the
   scan has not seen it. *)
LEMMA MapCreatedKeeps == XdTypes /\ XdScan /\ MapCreated => XdTypes' /\ XdScan'
<1> SUFFICES ASSUME XdTypes, XdScan, MapCreated PROVE XdTypes' /\ XdScan'
  OBVIOUS
<1>0. /\ xdProg' \in XdPrograms /\ xdFib' \in XdRoutes /\ xdBound' \in BOOLEAN
      /\ xdLoader \in [pc : XdPcs, sid : Nat, fd : Nat, cut : BOOLEAN] /\ UNCHANGED xdLoader
      /\ xdLoader.fd <= xdLoader.sid /\ xdLoader.sid <= Len(xdMaps)
  BY DEF XdTypes, xdEnv, MapCreated
<1>1. PICK name, n : name \in {"same", "other"} /\ xdMaps' = Append(xdMaps, name) /\ n = Len(xdMaps) + 1
  BY DEF MapCreated
<1>2. /\ xdMaps' \in Seq({"ours", "same", "other"}) /\ xdStored' \in Seq({0, ALLOWED_PORT})
      /\ Len(xdMaps') = n /\ Len(xdStored') = n /\ n \in Nat /\ Len(xdMaps) \in Nat
      /\ \A id \in XdIds : xdMaps'[id] = xdMaps[id] /\ xdStored'[id] = xdStored[id]
      /\ xdMaps'[n] = name /\ xdStored'[n] = 0
      /\ XdIds' = XdIds \cup {n} /\ n \notin XdIds
  <2>1. name \in {"ours", "same", "other"} /\ xdStored' = Append(xdStored, 0)
    BY <1>1 DEF MapCreated
  <2> QED BY <1>1, <2>1, NewMap, Zenon
<1>3. XdTypes'
  BY <1>0, <1>1, <1>2 DEF XdTypes
<1>4. xdLoader.fd # 0 => xdLoader.fd \in XdIds
  BY <1>0, <1>2 DEF XdIds
<1>5. ~(n <= xdLoader.sid) /\ xdMaps'[n] # "ours"
  BY <1>0, <1>1, <1>2
<1> QED BY <1>0, <1>2, <1>3, <1>4, <1>5 DEF XdScan

(* A step of the loader or of another program leaves the packet and the verdict as they
   are; what the filter admitted was admitted after the port was stored. *)
LEMMA PacketStays ==
  ASSUME XdPacketInv, UNCHANGED <<xdEnv, xdPacket>>, xdLoader.pc \in {"sleep", "done"} => xdLoader'.pc \in {"sleep", "done"}
  PROVE  XdPacketInv'
<1>1. UNCHANGED <<xdProg, xdFib, xdBound, xdPkt, xdOut>>
  BY DEF xdEnv, xdPacket
<1>2. XdSentToNextHop' /\ XdPassedAsReceived'
  BY <1>1, Zenon DEF XdPacketInv, XdSentToNextHop, XdPassedAsReceived, NextHop
<1>3. XdChecksumFollowsPort'
  BY <1>1 DEF XdPacketInv, XdChecksumFollowsPort
<1>4. XdOnlyAllowedPort'
  BY <1>1, Zenon DEF XdPacketInv, XdOnlyAllowedPort
<1> QED BY <1>2, <1>3, <1>4 DEF XdPacketInv

(* Every packet, every step of the loader and every map made keeps the verdicts and what
   the scan knows. *)
LEMMA XdStep == XdIInv /\ [XdNext]_xdVars => XdIInv'
<1> SUFFICES ASSUME XdIInv, [XdNext]_xdVars PROVE XdIInv'
  OBVIOUS
<1>0. XdTypes /\ XdScan /\ XdPacketInv
  BY DEF XdIInv
<1>1. CASE PacketComes
  <2>1. UNCHANGED <<xdProg, xdFib, xdBound, xdMaps, xdStored, xdLoader>>
    BY <1>1 DEF PacketComes, xdEnv, xdMain
  <2>2. XdTypes' /\ XdScan'
    BY <1>0, <2>1 DEF XdTypes, XdScan, XdIds
  <2> QED BY <1>0, <1>1, <2>2, PacketKeeps DEF XdIInv
<1>2. CASE Loader
  <2>1. UNCHANGED <<xdEnv, xdPacket>> /\ (LoaderAttach \/ ScanMaps \/ UpdateMap \/ remove_xdp_program)
    BY <1>2 DEF Loader
  <2>2. XdTypes' /\ XdScan'
    BY <1>0, <2>1, AttachKeeps, ScanKeeps, UpdateKeeps, RemoveKeeps
  <2>3. xdLoader.pc \in {"sleep", "done"} => xdLoader'.pc \in {"sleep", "done"}
    <3>1. xdLoader \in [pc : XdPcs, sid : Nat, fd : Nat, cut : BOOLEAN]
      BY <1>0 DEF XdTypes
    <3> QED BY <2>1, <3>1 DEF LoaderAttach, ScanMaps, UpdateMap, remove_xdp_program
  <2> QED BY <1>0, <2>1, <2>2, <2>3, PacketStays DEF XdIInv
<1>3. CASE MapCreated
  <2>1. XdTypes' /\ XdScan'
    BY <1>0, <1>3, MapCreatedKeeps
  <2>2. UNCHANGED <<xdEnv, xdPacket, xdLoader>>
    BY <1>3 DEF MapCreated
  <2> QED BY <1>0, <2>1, <2>2, PacketStays DEF XdIInv
<1>4. CASE UNCHANGED xdVars
  <2>1. UNCHANGED <<xdEnv, xdPacket>> /\ UNCHANGED <<xdProg, xdFib, xdBound, xdMaps, xdStored, xdLoader>>
    BY <1>4 DEF xdVars, xdEnv, xdMain
  <2>2. XdTypes' /\ XdScan'
    BY <1>0, <2>1 DEF XdTypes, XdScan, XdIds
  <2> QED BY <1>0, <2>1, <2>2, PacketStays DEF XdIInv
<1> QED BY <1>1, <1>2, <1>3, <1>4 DEF XdNext

(* The map that an uncut scan ends with is the loader's own: it was seen, and no map of the
   name comes after it (map/main.c:88-152). *)
LEMMA OwnMapFound == XdTypes /\ XdScan => XdPortInOwnMap
<1> SUFFICES ASSUME XdTypes, XdScan, xdLoader.pc = "sleep", ~xdLoader.cut,
                    \A id \in Ours : \A k \in DOMAIN xdMaps : k > id => xdMaps[k] # "same"
             PROVE  StoredPort = ALLOWED_PORT
  BY DEF XdPortInOwnMap
<1>0. DOMAIN xdMaps = XdIds /\ xdLoader.fd \in Nat /\ \A id \in XdIds : id \in Nat
  BY DEF XdTypes, XdIds
<1>1. PICK o \in XdIds : xdMaps[o] = "ours"
  BY DEF XdScan
<1>2. Ours = {o}
  BY <1>0, <1>1 DEF Ours, XdScan
<1>3. o <= xdLoader.fd /\ xdLoader.fd # 0 /\ xdStored[xdLoader.fd] = ALLOWED_PORT
      /\ xdMaps[xdLoader.fd] \in {"ours", "same"}
  BY <1>1 DEF XdScan
<1>4. xdLoader.fd \in XdIds
  BY <1>0, <1>3 DEF XdTypes, XdIds
<1>5. xdLoader.fd = o
  <2>1. CASE xdMaps[xdLoader.fd] = "ours"
    BY <1>1, <1>4, <2>1 DEF XdScan
  <2>2. CASE xdMaps[xdLoader.fd] = "same"
    BY <1>0, <1>1, <1>2, <1>3, <1>4, <2>2
  <2> QED BY <1>3, <2>1, <2>2
<1>6. (CHOOSE id \in Ours : TRUE) = o
  BY <1>2
<1>7. ALLOWED_PORT # 0
  BY DEF ALLOWED_PORT
<1> QED BY <1>2, <1>3, <1>5, <1>6, <1>7 DEF StoredPort

(***************************************************************************)
(* What becomes of a packet agrees with its headers, the routes, the        *)
(* sockets and the maps, for every program, all addresses, ports and        *)
(* checksums, and any number of maps: redirected packets are on their way   *)
(* to the neighbour of their destination, the kernel gets them unchanged    *)
(* unless no socket is bound, a checksum follows the lowered port except    *)
(* where the carry is lost, the filter admits the stored port only, and the *)
(* loader stores it in its own map (xdp_redirect_dev.c, xdp_redirect_xsk.c, *)
(* xdp_packet_block.c:56-111, xdp_map_allow.c:39-123, map/main.c:60-152).   *)
(***************************************************************************)
THEOREM PacketsAgree == XdSpec => []XdInv
<1>1. XdInit => XdIInv
  <2> SUFFICES ASSUME XdInit PROVE XdIInv
    OBVIOUS
  <2>1. xdLoader = [pc |-> "start", sid |-> 0, fd |-> 0, cut |-> FALSE] /\ xdMaps = <<>> /\ xdStored = <<>>
    BY DEF XdInit
  <2>2. XdIds = {} /\ Len(xdMaps) = 0 /\ Len(xdStored) = 0
    BY <2>1 DEF XdIds
  <2>3. xdProg \in XdPrograms /\ xdFib \in XdRoutes /\ xdBound \in BOOLEAN
    BY DEF XdInit, XdRoutes
  <2>4. XdTypes
    BY <2>1, <2>2, <2>3 DEF XdTypes, XdPcs
  <2>5. XdScan
    BY <2>1, <2>2, SMTT(30) DEF XdScan
  <2>6. XdPacketInv
    BY DEF XdInit, XdPacketInv, XdSentToNextHop, XdPassedAsReceived, XdChecksumFollowsPort, XdOnlyAllowedPort
  <2> QED BY <2>4, <2>5, <2>6 DEF XdIInv
<1>2. XdIInv => XdInv
  BY OwnMapFound DEF XdIInv, XdInv, XdPacketInv
<1> QED BY <1>1, <1>2, XdStep, PTL DEF XdSpec

-----------------------------------------------------------------------------
(* RcuBooks: the calls that are to come *)

(* A sequence is a function on the places from 1 to its length. *)
LEMMA SeqShape ==
  ASSUME NEW S, NEW s \in Seq(S)
  PROVE  Len(s) \in Nat /\ DOMAIN s = 1 .. Len(s) /\ s \in [1 .. Len(s) -> S]
  OBVIOUS

(* Its values come from its set. *)
LEMMA SeqAt == ASSUME NEW S, NEW s \in Seq(S), NEW k \in 1 .. Len(s) PROVE s[k] \in S
  OBVIOUS

(* One sequence after the other, place by place *)
LEMMA SeqJoin ==
  ASSUME NEW S, NEW s \in Seq(S), NEW t \in Seq(S)
  PROVE  /\ s \o t \in Seq(S) /\ Len(s \o t) = Len(s) + Len(t)
         /\ \A k \in 1 .. Len(s) + Len(t) : (s \o t)[k] = IF k <= Len(s) THEN s[k] ELSE t[k - Len(s)]
  OBVIOUS

(* The first value of a sequence and the ones behind it *)
LEMMA SeqTail ==
  ASSUME NEW S, NEW s \in Seq(S), s # <<>>
  PROVE  /\ Head(s) \in S /\ Tail(s) \in Seq(S) /\ Len(Tail(s)) = Len(s) - 1
         /\ \A k \in 1 .. Len(Tail(s)) : Tail(s)[k] = s[k + 1]
  OBVIOUS

(* A call of test_example() *)
RcOps == [op : {TestCalls[p] : p \in 1 .. 9}, id : Nat, async : BOOLEAN]
IsFor(c, op, id) == c.op = op /\ c.id = id

(* A book that is on the list, or was added, is added only after it was deleted *)
Planned(s, ids) ==
  /\ \A k \in 1 .. Len(s) : \A x \in ids : IsFor(s[k], "add", x) =>
       \E j \in 1 .. Len(s) : j < k /\ IsFor(s[j], "delete", x)
  /\ \A i \in 1 .. Len(s), k \in 1 .. Len(s) : \A x : i < k /\ IsFor(s[i], "add", x) /\ IsFor(s[k], "add", x) =>
       \E j \in 1 .. Len(s) : i < j /\ j < k /\ IsFor(s[j], "delete", x)

(* The calls that are left after one of them are still planned: add puts its book on the
   list, delete takes it off, and the others leave the books as they are. *)
LEMMA PlanGoesOn ==
  ASSUME NEW s \in Seq(RcOps), s # <<>>, NEW P, NEW Q, Planned(s, P),
         \A x \in Q : (x \in P /\ ~IsFor(Head(s), "delete", x)) \/ IsFor(Head(s), "add", x)
  PROVE  Planned(Tail(s), Q)
  <1>1. /\ Len(s) \in Nat /\ Len(Tail(s)) = Len(s) - 1 /\ Head(s) = s[1] /\ 1 \in 1 .. Len(s)
        /\ \A i \in 1 .. Len(s) - 1 : Tail(s)[i] = s[i + 1] /\ i + 1 \in 1 .. Len(s)
    BY SeqTail
  <1>2. ASSUME NEW k \in 1 .. Len(s) - 1, NEW x \in Q, IsFor(Tail(s)[k], "add", x)
        PROVE  \E j \in 1 .. Len(s) - 1 : j < k /\ IsFor(Tail(s)[j], "delete", x)
    <2>1. IsFor(s[k + 1], "add", x) /\ k + 1 \in 1 .. Len(s) BY <1>1, <1>2, Zenon
    <2>2. PICK j \in 1 .. Len(s) : j < k + 1 /\ IsFor(s[j], "delete", x) /\ j # 1
      <3>1. CASE x \in P /\ ~IsFor(Head(s), "delete", x)
        <4>1. \E j \in 1 .. Len(s) : j < k + 1 /\ IsFor(s[j], "delete", x) BY <2>1, <3>1, Zenon DEF Planned
        <4> QED BY <1>1, <3>1, <4>1, Zenon
      <3>2. CASE IsFor(Head(s), "add", x)
        <4>1. 1 < k + 1 BY <1>1
        <4>2. \E j \in 1 .. Len(s) : 1 < j /\ j < k + 1 /\ IsFor(s[j], "delete", x)
          BY <1>1, <2>1, <3>2, <4>1 DEF Planned
        <4> QED BY <4>2
      <3> QED BY <3>1, <3>2, Zenon
    <2>3. j - 1 \in 1 .. Len(s) - 1 /\ j - 1 < k /\ (j - 1) + 1 = j BY <1>1, <2>2
    <2>4. Tail(s)[j - 1] = s[j] BY <1>1, <2>3, Zenon
    <2> QED BY <2>2, <2>3, <2>4, Zenon
  <1>3. ASSUME NEW i \in 1 .. Len(s) - 1, NEW k \in 1 .. Len(s) - 1, NEW x, i < k,
               IsFor(Tail(s)[i], "add", x), IsFor(Tail(s)[k], "add", x)
        PROVE  \E j \in 1 .. Len(s) - 1 : i < j /\ j < k /\ IsFor(Tail(s)[j], "delete", x)
    <2>1. IsFor(s[i + 1], "add", x) /\ IsFor(s[k + 1], "add", x) /\ i + 1 \in 1 .. Len(s) /\ k + 1 \in 1 .. Len(s) /\ i + 1 < k + 1
      BY <1>1, <1>3
    <2>2. PICK j \in 1 .. Len(s) : i + 1 < j /\ j < k + 1 /\ IsFor(s[j], "delete", x)
      BY <2>1, Zenon DEF Planned
    <2>3. j - 1 \in 1 .. Len(s) - 1 /\ i < j - 1 /\ j - 1 < k /\ (j - 1) + 1 = j BY <1>1, <2>2
    <2>4. Tail(s)[j - 1] = s[j] BY <1>1, <2>3, Zenon
    <2> QED BY <2>2, <2>3, <2>4, Zenon
  <1> QED BY <1>1, <1>2, <1>3, Zenon DEF Planned

(* A function on 1 .. n is a sequence of length n. *)
LEMMA SeqOf ==
  ASSUME NEW S, NEW p \in Nat, NEW f \in [1 .. p -> S]
  PROVE  f \in Seq(S) /\ Len(f) = p
  OBVIOUS

(* test_example() adds the books 0 and 1 at its start and deletes them near its end *)
OneTest(t, len) ==
  /\ t \in [1 .. len -> RcOps]
  /\ \A i \in 1 .. len : \A x : IsFor(t[i], "add", x) => (i = 1 /\ x = 0) \/ (i = 2 /\ x = 1)
  /\ IsFor(t[15], "delete", 0) /\ IsFor(t[16], "delete", 1)

(* test_example() (list_rcu.c:276-303) is such a test, with either way of reclaiming. *)
LEMMA TestIsOne == \A a \in BOOLEAN : OneTest(test_example(a), 18)
  <1> TAKE a \in BOOLEAN
  <1>1. \A i \in 1 .. 18 : (i + 1) \div 2 \in 1 .. 9 /\ (i + 1) % 2 \in Nat BY Z3
  <1>2. \A p \in 1 .. 9 : p = 1 \/ p = 2 \/ p = 3 \/ p = 4 \/ p = 5 \/ p = 6 \/ p = 7 \/ p = 8 \/ p = 9 OBVIOUS
  <1>3. /\ TestCalls[1] = "add" /\ TestCalls[2] = "print" /\ TestCalls[3] = "is_borrowed" /\ TestCalls[4] = "borrow"
        /\ TestCalls[5] = "print" /\ TestCalls[6] = "return" /\ TestCalls[7] = "print" /\ TestCalls[8] = "delete"
        /\ TestCalls[9] = "print"
    BY Zenon DEF TestCalls
  <1>4. ASSUME NEW p \in 1 .. 9, TestCalls[p] = "add" PROVE p = 1
    <2>2. p # 2 BY <1>3, <1>4, Zenon
    <2>3. p # 3 BY <1>3, <1>4, Zenon
    <2>4. p # 4 BY <1>3, <1>4, Zenon
    <2>5. p # 5 BY <1>3, <1>4, Zenon
    <2>6. p # 6 BY <1>3, <1>4, Zenon
    <2>7. p # 7 BY <1>3, <1>4, Zenon
    <2>8. p # 8 BY <1>3, <1>4, Zenon
    <2>9. p # 9 BY <1>3, <1>4, Zenon
    <2> QED BY <1>2, <2>2, <2>3, <2>4, <2>5, <2>6, <2>7, <2>8, <2>9, Zenon
  <1>5. test_example(a) = [i \in 1 .. 18 |-> [op |-> TestCalls[(i + 1) \div 2], id |-> (i + 1) % 2, async |-> a]]
    BY Zenon DEF test_example
  <1>6. test_example(a) \in [1 .. 18 -> RcOps]
    BY <1>1, <1>4, <1>5 DEF RcOps
  <1>7. \A i \in 1 .. 18 : test_example(a)[i].op = TestCalls[(i + 1) \div 2] /\ test_example(a)[i].id = (i + 1) % 2
    BY <1>5
  <1>8. ASSUME NEW i \in 1 .. 18, NEW x, IsFor(test_example(a)[i], "add", x)
        PROVE  (i = 1 /\ x = 0) \/ (i = 2 /\ x = 1)
    <2>1. TestCalls[(i + 1) \div 2] = "add" /\ x = (i + 1) % 2 BY <1>7, <1>8, Zenon DEF IsFor
    <2>2. (i + 1) \div 2 = 1 BY <1>1, <1>4, <2>1, Zenon
    <2>3. i = 1 \/ i = 2 BY <2>2
    <2> QED BY <2>1, <2>3
  <1>9. test_example(a)[15].op = TestCalls[8] /\ test_example(a)[15].id = 0
    <2>1. (15 + 1) \div 2 = 8 /\ (15 + 1) % 2 = 0 OBVIOUS
    <2> QED BY <1>7, <2>1
  <1>10. test_example(a)[16].op = TestCalls[8] /\ test_example(a)[16].id = 1
    <2>1. (16 + 1) \div 2 = 8 /\ (16 + 1) % 2 = 1 OBVIOUS
    <2> QED BY <1>7, <2>1
  <1> QED BY <1>3, <1>6, <1>8, <1>9, <1>10, Zenon DEF OneTest, IsFor

(* Two tests after each other: the first deletes both books before the second adds them. *)
LEMMA TwoTests ==
  ASSUME NEW a, NEW b, NEW len \in Nat, len >= 16, OneTest(a, len), OneTest(b, len)
  PROVE  a \o b \in Seq(RcOps) /\ Planned(a \o b, {})
  <1>1. a \in Seq(RcOps) /\ Len(a) = len /\ b \in Seq(RcOps) /\ Len(b) = len
    <2>1. a \in [1 .. len -> RcOps] /\ b \in [1 .. len -> RcOps] BY Zenon DEF OneTest
    <2> QED BY <2>1, SeqOf, Zenon
  <1> DEFINE s == a \o b
             m == len + len
  <1>2. s \in Seq(RcOps) /\ Len(s) = m /\ \A i \in 1 .. m : s[i] = IF i <= len THEN a[i] ELSE b[i - len]
    BY <1>1, SeqJoin
  <1>0. m \in Nat /\ m = len + len OBVIOUS
  <1> HIDE DEF s, m
  <1>3. ASSUME NEW i \in 1 .. m, NEW x, IsFor(s[i], "add", x)
        PROVE  ((i = 1 \/ i = len + 1) /\ x = 0) \/ ((i = 2 \/ i = len + 2) /\ x = 1)
    <2>1. CASE i <= len
      <3>1. i \in 1 .. len /\ s[i] = a[i] BY <1>0, <1>2, <2>1
      <3> QED BY <1>3, <3>1, Zenon DEF OneTest
    <2>2. CASE i > len
      <3>1. i - len \in 1 .. len /\ s[i] = b[i - len] BY <1>0, <1>2, <2>2
      <3>2. (i - len = 1 /\ x = 0) \/ (i - len = 2 /\ x = 1) BY <1>3, <3>1, Zenon DEF OneTest
      <3>3. (i - len = 1 => i = len + 1) /\ (i - len = 2 => i = len + 2) BY <1>0
      <3> QED BY <3>2, <3>3, Zenon
    <2>3. i <= len \/ i > len BY <1>0
    <2> QED BY <2>1, <2>2, <2>3, Zenon
  <1>4. IsFor(s[15], "delete", 0) /\ IsFor(s[16], "delete", 1)
    <2>1. 15 \in 1 .. m /\ 15 <= len /\ 16 \in 1 .. m /\ 16 <= len BY <1>0
    <2>2. s[15] = a[15] /\ s[16] = a[16] BY <1>2, <2>1, Zenon
    <2> QED BY <2>2, Zenon DEF OneTest
  <1>5. Planned(s, {})
    <2> SUFFICES ASSUME NEW i \in 1 .. m, NEW k \in 1 .. m, NEW x, i < k, IsFor(s[i], "add", x), IsFor(s[k], "add", x)
                 PROVE  \E j \in 1 .. m : i < j /\ j < k /\ IsFor(s[j], "delete", x)
      BY <1>2, Zenon DEF Planned
    <2>1. ((i = 1 \/ i = len + 1) /\ x = 0) \/ ((i = 2 \/ i = len + 2) /\ x = 1) BY <1>3, Zenon
    <2>2. ((k = 1 \/ k = len + 1) /\ x = 0) \/ ((k = 2 \/ k = len + 2) /\ x = 1) BY <1>3, Zenon
    <2>3. 15 \in 1 .. m /\ 16 \in 1 .. m BY <1>0
    <2>4. CASE x = 0
      <3>1. i = 1 /\ k = len + 1 BY <1>0, <2>1, <2>2, <2>4
      <3>2. i < 15 /\ 15 < k BY <3>1
      <3> QED BY <1>4, <2>3, <2>4, <3>2, Zenon
    <2>5. CASE x = 1
      <3>1. i = 2 /\ k = len + 2 BY <1>0, <2>1, <2>2, <2>5
      <3>2. i < 16 /\ 16 < k BY <3>1
      <3> QED BY <1>4, <2>3, <2>5, <3>2, Zenon
    <2> QED BY <2>1, <2>4, <2>5, Zenon
  <1> QED BY <1>2, <1>5, Zenon DEF s

(* list_rcu_init (list_rcu.c:305-312) adds no book that is on the list. *)
LEMMA InitPlan == list_rcu_init \in Seq(RcOps) /\ Planned(list_rcu_init, {})
  <1>1. OneTest(test_example(FALSE), 18) /\ OneTest(test_example(TRUE), 18) BY TestIsOne, Zenon
  <1>2. 18 \in Nat /\ 18 >= 16 OBVIOUS
  <1> QED BY <1>1, <1>2, TwoTests, Zenon DEF list_rcu_init

-----------------------------------------------------------------------------
(* the books on a list *)
RcIds(list, node) == {node[list[i]].id : i \in 1 .. Len(list)}

(* The list: nodes that were allocated and not given up, one per book *)
Shelf ==
  /\ rcUsed \in 0 .. RcNodes
  /\ rcNode \in [1 .. RcNodes -> [id : Nat, borrow : Nat]]
  /\ rcList \in Seq(1 .. RcNodes)
  /\ \A i \in 1 .. Len(rcList) : rcList[i] \in 1 .. rcUsed /\ rcList[i] \notin rcFreed \cup rcPending
  /\ \A i \in 1 .. Len(rcList), j \in 1 .. Len(rcList) : rcNode[rcList[i]].id = rcNode[rcList[j]].id => i = j
  /\ rcFreed \cup rcPending \subseteq 1 .. rcUsed

(* What the calls to come rely on *)
Plan ==
  /\ rcScript \in Seq(RcOps)
  /\ Planned(rcScript, RcIds(rcList, rcNode))

(* nd is on the list *)
Listed(nd) == \E i \in 1 .. Len(rcList) : rcList[i] = nd

(* The call in progress holds a node of the list, or one it took out and has not yet
   given up *)
InCall ==
  /\ rcCall.at \in {"none", "found", "unlocked", "replace", "reclaim"}
  /\ rcCall = [at |-> rcCall.at, node |-> rcCall.node]
  /\ rcCall.at = "none" => rcCall.node = 0
  /\ rcCall.at # "none" => rcScript # <<>> /\ Op.op # "add" /\ rcCall.node \in 1 .. rcUsed
  /\ rcCall.at \in {"found", "unlocked", "replace"} => Listed(rcCall.node) /\ rcNode[rcCall.node].id = Op.id
  /\ rcCall.at = "replace" => /\ ~Listed(rcUsed) /\ rcUsed \notin rcFreed \cup rcPending /\ Op.op # "delete"
                              /\ rcNode[rcUsed].id = rcNode[rcCall.node].id
  /\ rcCall.at = "reclaim" => /\ ~Listed(rcCall.node) /\ rcCall.node \notin rcFreed \cup rcPending
                              /\ Op.op = "delete" => Op.id \notin RcIds(rcList, rcNode)

(* The inductive invariant *)
RcStrong == Shelf /\ Plan /\ InCall

(* The list starts empty, with both tests to come. *)
LEMMA RcStarts == RcInit => RcStrong
  <1> SUFFICES ASSUME RcInit PROVE RcStrong
    BY Zenon
  <1>1. rcList = <<>> /\ Len(rcList) = 0 /\ rcList \in Seq(1 .. RcNodes) BY DEF RcInit
  <1>2. Shelf BY <1>1, RcAssumption DEF RcInit, Shelf
  <1>3. RcIds(rcList, rcNode) = {} BY <1>1 DEF RcIds
  <1>4. Plan BY <1>3, InitPlan, Zenon DEF RcInit, Plan
  <1>5. InCall BY Zenon DEF RcInit, InCall
  <1> QED BY <1>2, <1>4, <1>5, Zenon DEF RcStrong

(* A call that returns *)
LEMMA ReturnKeeps ==
  ASSUME RcStrong, RcReturns, rcScript # <<>>,
         \A x \in RcIds(rcList, rcNode)' : (x \in RcIds(rcList, rcNode) /\ ~IsFor(Op, "delete", x)) \/ IsFor(Op, "add", x)
  PROVE  Plan' /\ InCall'
  <1>1. rcScript' = Tail(rcScript) /\ rcCall' = [at |-> "none", node |-> 0] BY Zenon DEF RcReturns
  <1>2. rcScript \in Seq(RcOps) /\ Planned(rcScript, RcIds(rcList, rcNode)) BY Zenon DEF RcStrong, Plan
  <1>3. Tail(rcScript) \in Seq(RcOps) BY <1>2, SeqTail, Zenon
  <1>4. Planned(Tail(rcScript), RcIds(rcList, rcNode)') BY <1>2, PlanGoesOn, Zenon DEF Op
  <1>5. Plan' BY <1>1, <1>3, <1>4, Zenon DEF Plan
  <1>6. InCall' BY <1>1, Zenon DEF InCall
  <1> QED BY <1>5, <1>6, Zenon

(* when nothing but the call and the nodes given up changes *)
LEMMA ReturnOnly ==
  ASSUME RcStrong, RcReturns, rcScript # <<>>, UNCHANGED <<rcList, rcNode, rcUsed, rcFreed, rcPending>>,
         Op.op = "delete" => Op.id \notin RcIds(rcList, rcNode)
  PROVE  RcStrong'
  <1>1. Shelf' BY Zenon DEF RcStrong, Shelf
  <1>2. RcIds(rcList, rcNode)' = RcIds(rcList, rcNode) BY Zenon DEF RcIds
  <1>3. Plan' /\ InCall' BY <1>2, ReturnKeeps, Zenon DEF IsFor
  <1> QED BY <1>1, <1>3, Zenon DEF RcStrong

(* The search finds a node of the list with the id it looks for, if there is one. *)
LEMMA FoundListed ==
  ASSUME RcStrong
  PROVE  /\ Found = {} => Op.id \notin RcIds(rcList, rcNode)
         /\ \A nd \in Found : Listed(nd) /\ rcNode[nd].id = Op.id /\ nd \in 1 .. rcUsed
  <1>1. Len(rcList) \in Nat /\ DOMAIN rcList = 1 .. Len(rcList) BY SeqShape, Zenon DEF RcStrong, Shelf
  <1>2. \A i \in 1 .. Len(rcList) : rcList[i] \in 1 .. rcUsed BY Zenon DEF RcStrong, Shelf
  <1> QED BY <1>1, <1>2, Zenon DEF Found, Listed, RcIds, Range

(* The search holds on to the node it found (list_rcu.c:97-114). *)
LEMMA SearchKeeps == ASSUME RcStrong, Search PROVE RcStrong'
  <1>1. CASE Found = {}
    BY <1>1, FoundListed, ReturnOnly, Zenon DEF Search
  <1>2. CASE Found # {}
    <2>1. /\ rcCall' = [at |-> "found", node |-> CHOOSE nd \in Found : TRUE] /\ rcScript # <<>> /\ Op.op # "add"
          /\ UNCHANGED <<rcScript, rcList, rcNode, rcUsed, rcFreed, rcPending>>
      BY <1>2, Zenon DEF Search
    <2>2. rcCall'.at = "found" /\ rcCall'.node \in Found BY <1>2, <2>1, Zenon
    <2>3. Listed(rcCall'.node) /\ rcNode[rcCall'.node].id = Op.id /\ rcCall'.node \in 1 .. rcUsed
      BY <2>2, FoundListed, Zenon
    <2>4. Shelf' /\ Plan' BY <2>1, Zenon DEF RcStrong, Shelf, Plan, RcIds
    <2>5. InCall' BY <2>1, <2>2, <2>3, Zenon DEF InCall, Listed, Op
    <2> QED BY <2>4, <2>5, Zenon DEF RcStrong
  <1> QED BY <1>1, <1>2, Zenon

(* A new node changes nothing on the list *)
LEMMA AllocKeeps ==
  ASSUME RcStrong, NEW new \in [id : Nat, borrow : Nat], Alloc(new)
  PROVE  /\ rcUsed' = rcUsed + 1 /\ rcUsed' \in 1 .. RcNodes
         /\ rcNode' \in [1 .. RcNodes -> [id : Nat, borrow : Nat]] /\ rcNode'[rcUsed'] = new
         /\ \A nd \in 1 .. rcUsed : rcNode'[nd] = rcNode[nd] /\ nd \in 1 .. rcUsed' /\ nd # rcUsed'
  <1>1. rcUsed \in 0 .. RcNodes /\ rcNode \in [1 .. RcNodes -> [id : Nat, borrow : Nat]] BY Zenon DEF RcStrong, Shelf
  <1>2. rcUsed < RcNodes /\ rcUsed' = rcUsed + 1 /\ rcNode' = [rcNode EXCEPT ![rcUsed + 1] = new] BY Zenon DEF Alloc
  <1>3. rcUsed + 1 \in 1 .. RcNodes BY <1>1, <1>2, RcAssumption
  <1>4. \A nd \in 1 .. rcUsed : nd \in 1 .. RcNodes /\ nd # rcUsed + 1 /\ nd \in 1 .. rcUsed + 1 BY <1>1, RcAssumption
  <1> QED BY <1>1, <1>2, <1>3, <1>4, Zenon

(* add_book (list_rcu.c:64-84) puts a new node in front, for a book that is not on the
   list, or fails to allocate one. *)
LEMMA AddKeeps == ASSUME RcStrong, add_book PROVE RcStrong'
  <1>1. Calls("add") /\ RcReturns /\ UNCHANGED <<rcFreed, rcPending>> BY Zenon DEF add_book
  <1>2. rcScript # <<>> /\ Op.op = "add" /\ rcScript \in Seq(RcOps) BY <1>1, Zenon DEF Calls, RcStrong, Plan
  <1>3. CASE UNCHANGED <<rcUsed, rcNode, rcList>>
    BY <1>1, <1>2, <1>3, ReturnOnly, Zenon
  <1>4. CASE Alloc([id |-> Op.id, borrow |-> 0]) /\ rcList' = <<rcUsed + 1>> \o rcList
    <2>0. Op \in RcOps BY <1>2, SeqTail, Zenon DEF Op
    <2>1. [id |-> Op.id, borrow |-> 0] \in [id : Nat, borrow : Nat] BY <2>0, Zenon DEF RcOps
    <2>2. /\ rcUsed' = rcUsed + 1 /\ rcUsed' \in 1 .. RcNodes
          /\ rcNode' \in [1 .. RcNodes -> [id : Nat, borrow : Nat]] /\ rcNode'[rcUsed'].id = Op.id
          /\ \A nd \in 1 .. rcUsed : rcNode'[nd] = rcNode[nd] /\ nd \in 1 .. rcUsed' /\ nd # rcUsed'
      BY <1>4, <2>1, AllocKeeps
    <2>3. /\ rcList \in Seq(1 .. RcNodes) /\ Len(rcList) \in Nat
          /\ \A i \in 1 .. Len(rcList) : rcList[i] \in 1 .. rcUsed /\ rcList[i] \notin rcFreed \cup rcPending
          /\ \A i \in 1 .. Len(rcList), j \in 1 .. Len(rcList) : rcNode[rcList[i]].id = rcNode[rcList[j]].id => i = j
          /\ rcFreed \cup rcPending \subseteq 1 .. rcUsed
      BY DEF RcStrong, Shelf
    <2>4. /\ rcList' \in Seq(1 .. RcNodes) /\ Len(rcList') = Len(rcList) + 1 /\ rcList'[1] = rcUsed'
          /\ \A i \in 2 .. Len(rcList) + 1 : rcList'[i] = rcList[i - 1]
      <3>1. rcList' = <<rcUsed'>> \o rcList /\ <<rcUsed'>> \in Seq(1 .. RcNodes) /\ Len(<<rcUsed'>>) = 1 /\ <<rcUsed'>>[1] = rcUsed'
        BY <1>4, <2>2
      <3>2. /\ rcList' \in Seq(1 .. RcNodes) /\ Len(rcList') = 1 + Len(rcList)
            /\ \A i \in 1 .. 1 + Len(rcList) : rcList'[i] = IF i <= 1 THEN <<rcUsed'>>[i] ELSE rcList[i - 1]
        BY <2>3, <3>1, SeqJoin
      <3> QED BY <2>3, <3>1, <3>2
    <2>5. \A i \in 1 .. Len(rcList) + 1 : i = 1 \/ (i \in 2 .. Len(rcList) + 1 /\ i - 1 \in 1 .. Len(rcList)) BY <2>3
    <2>6. \A i \in 1 .. Len(rcList') : rcList'[i] \in 1 .. rcUsed' /\ rcList'[i] \notin (rcFreed \cup rcPending)'
      <3> SUFFICES ASSUME NEW i \in 1 .. Len(rcList) + 1
                   PROVE  rcList'[i] \in 1 .. rcUsed' /\ rcList'[i] \notin rcFreed \cup rcPending
        BY <1>1, <2>4, Zenon
      <3>1. CASE i = 1
        <4>1. rcUsed' \in 1 .. rcUsed' /\ rcUsed' \notin 1 .. rcUsed BY <2>2
        <4> QED BY <2>3, <2>4, <3>1, <4>1, Zenon
      <3>2. CASE i # 1
        <4>1. rcList'[i] = rcList[i - 1] /\ i - 1 \in 1 .. Len(rcList) BY <2>4, <2>5, <3>2, Zenon
        <4>2. rcList[i - 1] \in 1 .. rcUsed /\ rcList[i - 1] \notin rcFreed \cup rcPending BY <2>3, <4>1, Zenon
        <4> QED BY <2>2, <4>1, <4>2, Zenon
      <3> QED BY <3>1, <3>2, Zenon
    <2>7. Op.id \notin RcIds(rcList, rcNode)
      <3>1. \A x \in RcIds(rcList, rcNode) : IsFor(rcScript[1], "add", x) => FALSE
        BY <1>2 DEF RcStrong, Plan, Planned
      <3>2. Op = rcScript[1] BY <1>2 DEF Op
      <3> QED BY <1>2, <3>1, <3>2, Zenon DEF IsFor
    <2>8. \A i \in 2 .. Len(rcList) + 1 : rcNode'[rcList'[i]].id = rcNode[rcList[i - 1]].id
      BY <2>2, <2>3, <2>4, <2>5
    <2>9. \A i \in 2 .. Len(rcList) + 1 : rcNode'[rcList'[i]].id \in RcIds(rcList, rcNode)
      BY <2>5, <2>8 DEF RcIds
    <2>10. \A i \in 1 .. Len(rcList'), j \in 1 .. Len(rcList') : rcNode'[rcList'[i]].id = rcNode'[rcList'[j]].id => i = j
      <3> SUFFICES ASSUME NEW i \in 1 .. Len(rcList'), NEW j \in 1 .. Len(rcList'), rcNode'[rcList'[i]].id = rcNode'[rcList'[j]].id
                   PROVE  i = j
        BY Zenon
      <3>1. CASE i = 1 /\ j = 1 BY <3>1, Zenon
      <3>2. CASE i = 1 /\ j # 1 BY <2>2, <2>4, <2>5, <2>7, <2>9, <3>2, Zenon
      <3>3. CASE i # 1 /\ j = 1 BY <2>2, <2>4, <2>5, <2>7, <2>9, <3>3, Zenon
      <3>4. CASE i # 1 /\ j # 1
        <4>1. i - 1 \in 1 .. Len(rcList) /\ j - 1 \in 1 .. Len(rcList) /\ i \in Int /\ j \in Int BY <2>3, <2>4, <2>5, <3>4
        <4>2. rcNode[rcList[i - 1]].id = rcNode[rcList[j - 1]].id BY <2>4, <2>5, <2>8, <3>4, Zenon
        <4>3. i - 1 = j - 1 BY <2>3, <4>1, <4>2, Zenon
        <4> QED BY <4>1, <4>3
      <3> QED BY <3>1, <3>2, <3>3, <3>4, Zenon
    <2>11. (rcFreed \cup rcPending)' \subseteq 1 .. rcUsed' BY <1>1, <2>2, <2>3, Zenon
    <2>12. Shelf'
      <3>1. rcUsed' \in 0 .. RcNodes BY <2>2, RcAssumption
      <3> QED BY <2>2, <2>4, <2>6, <2>10, <2>11, <3>1, Zenon DEF Shelf
    <2>13. \A x \in RcIds(rcList, rcNode)' : x \in RcIds(rcList, rcNode) \/ x = Op.id
      BY <2>2, <2>4, <2>5, <2>9, ZenonT(30) DEF RcIds
    <2>14. Plan' /\ InCall' BY <1>1, <1>2, <2>13, ReturnKeeps, Zenon DEF IsFor
    <2> QED BY <2>12, <2>14, Zenon DEF RcStrong
  <1> QED BY <1>3, <1>4, Zenon DEF add_book

(* borrow_book and return_book (list_rcu.c:86-140, 164-218) copy the node they found and
   leave the list as it is. *)
LEMMA BookUpdateKeeps ==
  ASSUME RcStrong, NEW op, op # "delete", NEW from, NEW to \in Nat, Update(op, from, to)
  PROVE  RcStrong'
  <1>1. rcScript # <<>> /\ Op.op = op /\ rcCall.at = "found" BY Zenon DEF Update, Calls
  <1>2. CASE RcReturns /\ UNCHANGED <<rcList, rcNode, rcUsed, rcFreed, rcPending>>
    BY <1>1, <1>2, ReturnOnly, Zenon
  <1>3. CASE /\ Alloc([rcNode[rcCall.node] EXCEPT !.borrow = to])
             /\ rcCall' = [at |-> "replace", node |-> rcCall.node]
             /\ UNCHANGED <<rcScript, rcList, rcFreed, rcPending>>
    <2> DEFINE new == [rcNode[rcCall.node] EXCEPT !.borrow = to]
    <2>1. /\ Listed(rcCall.node) /\ rcNode[rcCall.node].id = Op.id /\ rcCall.node \in 1 .. rcUsed /\ Op.op # "add"
          /\ rcUsed \in 0 .. RcNodes /\ rcNode \in [1 .. RcNodes -> [id : Nat, borrow : Nat]]
          /\ rcList \in Seq(1 .. RcNodes)
          /\ \A i \in 1 .. Len(rcList) : rcList[i] \in 1 .. rcUsed /\ rcList[i] \notin rcFreed \cup rcPending
          /\ \A i \in 1 .. Len(rcList), j \in 1 .. Len(rcList) : rcNode[rcList[i]].id = rcNode[rcList[j]].id => i = j
          /\ rcFreed \cup rcPending \subseteq 1 .. rcUsed
      BY <1>1, Zenon DEF RcStrong, Shelf, InCall
    <2>2. rcCall.node \in 1 .. RcNodes BY <2>1, RcAssumption
    <2>3. new \in [id : Nat, borrow : Nat] /\ new.id = rcNode[rcCall.node].id BY <2>1, <2>2, Zenon
    <2> HIDE DEF new
    <2>4. /\ rcUsed' = rcUsed + 1 /\ rcUsed' \in 1 .. RcNodes
          /\ rcNode' \in [1 .. RcNodes -> [id : Nat, borrow : Nat]] /\ rcNode'[rcUsed'] = new
          /\ \A nd \in 1 .. rcUsed : rcNode'[nd] = rcNode[nd] /\ nd \in 1 .. rcUsed' /\ nd # rcUsed'
      BY <1>3, <2>3, AllocKeeps, Zenon DEF new
    <2>5. rcUsed' \in 0 .. RcNodes /\ rcUsed' \notin 1 .. rcUsed BY <2>1, <2>4, RcAssumption
    <2>6. \A i \in 1 .. Len(rcList) : rcNode'[rcList[i]] = rcNode[rcList[i]] /\ rcList[i] \in 1 .. rcUsed' BY <2>1, <2>4, Zenon
    <2>7. Shelf'
      <3>1. \A i \in 1 .. Len(rcList), j \in 1 .. Len(rcList) : rcNode'[rcList[i]].id = rcNode'[rcList[j]].id => i = j
        BY <2>1, <2>6, Zenon
      <3>2. (rcFreed \cup rcPending)' \subseteq 1 .. rcUsed' BY <1>3, <2>1, <2>4, Zenon
      <3>3. rcList' = rcList /\ rcFreed' = rcFreed /\ rcPending' = rcPending BY <1>3, Zenon
      <3> QED BY <2>1, <2>4, <2>5, <2>6, <3>1, <3>2, <3>3, Zenon DEF Shelf
    <2>8. RcIds(rcList, rcNode)' = RcIds(rcList, rcNode)
      BY <1>3, <2>6, Zenon DEF RcIds
    <2>9. Plan' BY <1>3, <2>8, Zenon DEF RcStrong, Plan
    <2>10. InCall'
      <3>1. rcCall'.at = "replace" /\ rcCall'.node = rcCall.node /\ Op' = Op /\ rcScript' = rcScript /\ \A nd : Listed(nd)' <=> Listed(nd)
        BY <1>3, Zenon DEF Op, Listed
      <3>2. ~Listed(rcUsed') /\ rcUsed' \notin rcFreed \cup rcPending BY <2>1, <2>5, Zenon DEF Listed
      <3>3. rcNode'[rcCall.node].id = Op.id /\ rcNode'[rcUsed'].id = Op.id /\ rcCall.node \in 1 .. rcUsed'
        BY <2>1, <2>3, <2>4, Zenon
      <3> QED BY <1>1, <1>3, <2>1, <3>1, <3>2, <3>3, Zenon DEF InCall
    <2> QED BY <2>7, <2>9, <2>10, Zenon DEF RcStrong
  <1> QED BY <1>2, <1>3, Zenon DEF Update

(* list_replace_rcu(): the copy takes the place of the old node, which the call still
   holds. *)
LEMMA ReplaceKeeps == ASSUME RcStrong, Replace PROVE RcStrong'
  <1>1. /\ rcCall.at = "replace" /\ rcList' = Replaced(rcCall.node, rcUsed) /\ rcCall' = [rcCall EXCEPT !.at = "reclaim"]
        /\ UNCHANGED <<rcScript, rcNode, rcUsed, rcFreed, rcPending>>
    BY Zenon DEF Replace
  <1>2. /\ Listed(rcCall.node) /\ rcNode[rcCall.node].id = Op.id /\ rcCall.node \in 1 .. rcUsed /\ rcScript # <<>> /\ Op.op # "add"
        /\ ~Listed(rcUsed) /\ rcUsed \notin rcFreed \cup rcPending /\ Op.op # "delete"
        /\ rcNode[rcUsed].id = rcNode[rcCall.node].id /\ rcCall = [at |-> rcCall.at, node |-> rcCall.node]
    BY <1>1, Zenon DEF RcStrong, InCall
  <1>3. /\ rcUsed \in 0 .. RcNodes /\ rcNode \in [1 .. RcNodes -> [id : Nat, borrow : Nat]]
        /\ rcList \in Seq(1 .. RcNodes) /\ Len(rcList) \in Nat
        /\ \A i \in 1 .. Len(rcList) : rcList[i] \in 1 .. rcUsed /\ rcList[i] \notin rcFreed \cup rcPending
        /\ \A i \in 1 .. Len(rcList), j \in 1 .. Len(rcList) : rcNode[rcList[i]].id = rcNode[rcList[j]].id => i = j
        /\ rcFreed \cup rcPending \subseteq 1 .. rcUsed
    BY DEF RcStrong, Shelf
  <1>4. rcUsed \in 1 .. RcNodes /\ rcUsed \in 1 .. rcUsed /\ \A nd \in 1 .. rcUsed : nd \in 1 .. RcNodes
    BY <1>2, <1>3, RcAssumption
  <1>5. rcList' = [i \in 1 .. Len(rcList) |-> IF rcList[i] = rcCall.node THEN rcUsed ELSE rcList[i]]
    BY <1>1, Zenon DEF Replaced
  <1>6. rcList' \in [1 .. Len(rcList) -> 1 .. RcNodes] BY <1>3, <1>4, <1>5, Zenon
  <1>7. rcList' \in Seq(1 .. RcNodes) /\ Len(rcList') = Len(rcList) BY <1>3, <1>6, SeqOf, Zenon
  <1>8. \A i \in 1 .. Len(rcList) : /\ rcList'[i] \in 1 .. rcUsed /\ rcList'[i] \notin rcFreed \cup rcPending
                                    /\ rcNode[rcList'[i]].id = rcNode[rcList[i]].id
                                    /\ rcList'[i] # rcCall.node
    <2>1. rcUsed # rcCall.node BY <1>2, Zenon
    <2> QED BY <1>2, <1>3, <1>4, <1>5, <2>1, Zenon
  <1>9. \A i \in 1 .. Len(rcList), j \in 1 .. Len(rcList) : rcNode[rcList'[i]].id = rcNode[rcList'[j]].id => i = j
    BY <1>3, <1>8, Zenon
  <1>10. Shelf' BY <1>1, <1>3, <1>7, <1>8, <1>9, Zenon DEF Shelf
  <1>11. RcIds(rcList, rcNode)' = RcIds(rcList, rcNode) BY <1>1, <1>7, <1>8 DEF RcIds
  <1>12. Plan' BY <1>1, <1>11, Zenon DEF RcStrong, Plan
  <1>13. rcCall.node \notin rcFreed \cup rcPending BY <1>2, <1>3, Zenon DEF Listed
  <1>14. InCall'
    <2>1. rcCall' = [at |-> "reclaim", node |-> rcCall.node] BY <1>1, <1>2, Zenon
    <2>2. ~Listed(rcCall.node)' BY <1>7, <1>8, <2>1, Zenon DEF Listed
    <2>3. Op' = Op BY <1>1, Zenon DEF Op
    <2> QED BY <1>1, <1>2, <1>13, <2>1, <2>2, <2>3, Zenon DEF InCall
  <1> QED BY <1>10, <1>12, <1>14, Zenon DEF RcStrong

(* delete_book (list_rcu.c:220-251) takes its node off the list, and with it the book. *)
LEMMA DeleteKeeps == ASSUME RcStrong, delete_book PROVE RcStrong'
  <1>1. /\ rcCall.at = "found" /\ rcList' = Removed(rcCall.node) /\ rcCall' = [rcCall EXCEPT !.at = "reclaim"]
        /\ rcScript # <<>> /\ Op.op = "delete" /\ UNCHANGED <<rcScript, rcNode, rcUsed, rcFreed, rcPending>>
    BY Zenon DEF delete_book, Calls
  <1>2. /\ Listed(rcCall.node) /\ rcNode[rcCall.node].id = Op.id /\ rcCall.node \in 1 .. rcUsed
        /\ rcCall = [at |-> rcCall.at, node |-> rcCall.node]
    BY <1>1, Zenon DEF RcStrong, InCall
  <1>3. /\ rcUsed \in 0 .. RcNodes /\ rcNode \in [1 .. RcNodes -> [id : Nat, borrow : Nat]]
        /\ rcList \in Seq(1 .. RcNodes) /\ Len(rcList) \in Nat
        /\ \A i \in 1 .. Len(rcList) : rcList[i] \in 1 .. rcUsed /\ rcList[i] \notin rcFreed \cup rcPending
        /\ \A i \in 1 .. Len(rcList), j \in 1 .. Len(rcList) : rcNode[rcList[i]].id = rcNode[rcList[j]].id => i = j
        /\ rcFreed \cup rcPending \subseteq 1 .. rcUsed
    BY DEF RcStrong, Shelf
  <1> DEFINE at == CHOOSE i \in 1 .. Len(rcList) : rcList[i] = rcCall.node
             From(i) == IF i < at THEN i ELSE i + 1
  <1>4. at \in 1 .. Len(rcList) /\ rcList[at] = rcCall.node BY <1>2, Zenon DEF Listed
  <1>5. rcList' = [i \in 1 .. Len(rcList) - 1 |-> rcList[From(i)]] BY <1>1, Zenon DEF Removed
  <1> HIDE DEF at
  <1>6. \A i \in 1 .. Len(rcList) - 1 : From(i) \in 1 .. Len(rcList) /\ From(i) # at BY <1>3, <1>4
  <1>7. \A i \in 1 .. Len(rcList) - 1, j \in 1 .. Len(rcList) - 1 : From(i) = From(j) => i = j BY <1>3, <1>4
  <1>8. Len(rcList) - 1 \in Nat BY <1>3, <1>4
  <1> HIDE DEF From
  <1>9. rcList' \in [1 .. Len(rcList) - 1 -> 1 .. RcNodes]
    <2>1. \A i \in 1 .. Len(rcList) : rcList[i] \in 1 .. RcNodes BY <1>3, SeqAt, Zenon
    <2> QED BY <1>5, <1>6, <2>1, Zenon
  <1>10. rcList' \in Seq(1 .. RcNodes) /\ Len(rcList') = Len(rcList) - 1 BY <1>8, <1>9, SeqOf, Zenon
  <1>11. \A i \in 1 .. Len(rcList) - 1 : rcList'[i] = rcList[From(i)] BY <1>5, Zenon
  <1>12. \A i \in 1 .. Len(rcList) - 1 : /\ rcList'[i] \in 1 .. rcUsed /\ rcList'[i] \notin rcFreed \cup rcPending
                                         /\ rcNode[rcList'[i]].id # Op.id
    BY <1>2, <1>3, <1>4, <1>6, <1>11
  <1>13. \A i \in 1 .. Len(rcList) - 1, j \in 1 .. Len(rcList) - 1 : rcNode[rcList'[i]].id = rcNode[rcList'[j]].id => i = j
    <2> SUFFICES ASSUME NEW i \in 1 .. Len(rcList) - 1, NEW j \in 1 .. Len(rcList) - 1,
                        rcNode[rcList'[i]].id = rcNode[rcList'[j]].id
                 PROVE  i = j
      BY Zenon
    <2>1. rcNode[rcList[From(i)]].id = rcNode[rcList[From(j)]].id /\ From(i) \in 1 .. Len(rcList) /\ From(j) \in 1 .. Len(rcList)
      BY <1>6, <1>11, Zenon
    <2>2. From(i) = From(j) BY <1>3, <2>1, Zenon
    <2> QED BY <1>7, <2>2, Zenon
  <1>14. Shelf' BY <1>1, <1>3, <1>10, <1>12, <1>13, Zenon DEF Shelf
  <1>15. RcIds(rcList, rcNode)' \subseteq RcIds(rcList, rcNode) /\ Op.id \notin RcIds(rcList, rcNode)'
    BY <1>1, <1>6, <1>10, <1>11, <1>12 DEF RcIds
  <1>16. Plan' BY <1>1, <1>15, Zenon DEF RcStrong, Plan, Planned
  <1>17. rcCall.node \notin rcFreed \cup rcPending BY <1>2, <1>3, Zenon DEF Listed
  <1>18. InCall'
    <2>1. rcCall' = [at |-> "reclaim", node |-> rcCall.node] BY <1>1, <1>2, Zenon
    <2>2. ~Listed(rcCall.node)' BY <1>2, <1>10, <1>12, <2>1, Zenon DEF Listed
    <2>3. Op' = Op BY <1>1, Zenon DEF Op
    <2> QED BY <1>1, <1>2, <1>15, <1>17, <2>1, <2>2, <2>3, Zenon DEF InCall
  <1> QED BY <1>14, <1>16, <1>18, Zenon DEF RcStrong

(* kfree() after synchronize_rcu(), or call_rcu(), gets a node that is on no list. *)
LEMMA ReclaimKeeps == ASSUME RcStrong, ReclaimOld PROVE RcStrong'
  <1>1. /\ rcCall.at = "reclaim" /\ Reclaim(rcCall.node, Op.async) /\ RcReturns /\ UNCHANGED <<rcList, rcNode, rcUsed>>
    BY Zenon DEF ReclaimOld
  <1>2. /\ rcScript # <<>> /\ Op.op # "add" /\ rcCall.node \in 1 .. rcUsed /\ ~Listed(rcCall.node)
        /\ Op.op = "delete" => Op.id \notin RcIds(rcList, rcNode)
    BY <1>1, Zenon DEF RcStrong, InCall
  <1>3. (rcFreed \cup rcPending)' = (rcFreed \cup rcPending) \cup {rcCall.node}
    BY <1>1, Zenon DEF Reclaim
  <1>4. Shelf'
    <2>1. \A i \in 1 .. Len(rcList) : rcList[i] \in 1 .. rcUsed /\ rcList[i] \notin (rcFreed \cup rcPending)'
      BY <1>2, <1>3, Zenon DEF RcStrong, Shelf, Listed
    <2>2. (rcFreed \cup rcPending)' \subseteq 1 .. rcUsed BY <1>2, <1>3, Zenon DEF RcStrong, Shelf
    <2> QED BY <1>1, <2>1, <2>2, Zenon DEF RcStrong, Shelf
  <1>5. RcIds(rcList, rcNode)' = RcIds(rcList, rcNode) BY <1>1, Zenon DEF RcIds
  <1>6. Plan' /\ InCall' BY <1>1, <1>2, <1>5, ReturnKeeps, Zenon DEF IsFor
  <1> QED BY <1>4, <1>6, Zenon DEF RcStrong

(* book_reclaim_callback (list_rcu.c:51-62), whenever it runs, frees a node that no call
   holds. *)
LEMMA CallbackKeeps == ASSUME RcStrong, book_reclaim_callback PROVE RcStrong'
  <1>1. PICK nd \in rcPending : /\ rcPending' = rcPending \ {nd} /\ rcFreed' = rcFreed \cup {nd}
                               /\ UNCHANGED <<rcScript, rcList, rcNode, rcUsed, rcCall>>
    BY Zenon DEF book_reclaim_callback
  <1>2. (rcFreed \cup rcPending)' = rcFreed \cup rcPending BY <1>1, Zenon
  <1>3. Shelf' BY <1>1, <1>2, Zenon DEF RcStrong, Shelf
  <1>4. Plan' BY <1>1, Zenon DEF RcStrong, Plan, RcIds
  <1>5. InCall' BY <1>1, <1>2, Zenon DEF RcStrong, InCall, Listed, Op, RcIds
  <1> QED BY <1>3, <1>4, <1>5, Zenon DEF RcStrong

(* print_book and is_borrowed_book change nothing; the second still holds its node after
   rcu_read_unlock(). *)
LEMMA ReadersKeep == ASSUME RcStrong, print_book \/ is_borrowed_book PROVE RcStrong'
  <1>1. CASE print_book
    BY <1>1, ReturnOnly, Zenon DEF print_book, Calls
  <1>2. CASE is_borrowed_book
    <2>1. rcScript # <<>> /\ Op.op = "is_borrowed" /\ UNCHANGED <<rcList, rcNode, rcUsed, rcFreed, rcPending>>
      BY <1>2, Zenon DEF is_borrowed_book, Calls
    <2>2. CASE RcReturns BY <2>1, <2>2, ReturnOnly, Zenon
    <2>3. CASE rcCall.at = "found" /\ rcCall' = [rcCall EXCEPT !.at = "unlocked"] /\ UNCHANGED rcScript
      <3>1. rcCall' = [at |-> "unlocked", node |-> rcCall.node] BY <2>3, Zenon DEF RcStrong, InCall
      <3>2. Shelf' /\ Plan' BY <2>1, <2>3, Zenon DEF RcStrong, Shelf, Plan, RcIds
      <3>3. InCall'
        <4>1. /\ Listed(rcCall.node) /\ rcNode[rcCall.node].id = Op.id /\ rcCall.node \in 1 .. rcUsed
          BY <2>3, Zenon DEF RcStrong, InCall
        <4>2. Listed(rcCall.node)' /\ Op' = Op BY <2>1, <2>3, <3>1, <4>1, Zenon DEF Listed, Op
        <4> QED BY <2>1, <2>3, <3>1, <4>1, <4>2, Zenon DEF InCall
      <3> QED BY <3>2, <3>3, Zenon DEF RcStrong
    <2> QED BY <1>2, <2>2, <2>3, Zenon DEF is_borrowed_book
  <1> QED BY <1>1, <1>2, Zenon

(* Every call and every callback keeps the list and the call in progress as they must be. *)
LEMMA RcSteps == RcStrong /\ [RcNext]_rcVars => RcStrong'
  <1> SUFFICES ASSUME RcStrong, [RcNext]_rcVars PROVE RcStrong'
    BY Zenon
  <1>1. CASE borrow_book BY <1>1, BookUpdateKeeps, Zenon DEF borrow_book
  <1>2. CASE return_book BY <1>2, BookUpdateKeeps, Zenon DEF return_book
  <1>3. CASE UNCHANGED rcVars
    BY <1>3, Zenon DEF rcVars, RcStrong, Shelf, Plan, InCall, Listed, Op, RcIds
  <1> QED BY <1>1, <1>2, <1>3, AddKeeps, SearchKeeps, ReplaceKeeps, ReclaimKeeps, DeleteKeeps, ReadersKeep, CallbackKeeps, Zenon
          DEF RcNext, RcTask

(* Then nothing on the list or in use is freed, and a book is listed once. *)
LEMMA RcStrongIsEnough == RcStrong => RcListedNotFreed
  <1> SUFFICES ASSUME RcStrong PROVE RcListedNotFreed
    BY Zenon
  <1>1. /\ DOMAIN rcList = 1 .. Len(rcList) /\ rcUsed \in Nat
        /\ \A i \in 1 .. Len(rcList) : rcList[i] \notin rcFreed \cup rcPending
        /\ \A i \in 1 .. Len(rcList), j \in 1 .. Len(rcList) : rcNode[rcList[i]].id = rcNode[rcList[j]].id => i = j
        /\ rcFreed \cup rcPending \subseteq 1 .. rcUsed
    BY SeqShape, RcAssumption DEF RcStrong, Shelf
  <1>2. Range(rcList) \cap (rcFreed \cup rcPending) = {} BY <1>1 DEF Range
  <1>3. rcCall.node \notin rcFreed
    <2>1. CASE rcCall.node = 0 BY <1>1, <2>1
    <2>2. CASE rcCall.node # 0
      <3>1. Listed(rcCall.node) \/ rcCall.node \notin rcFreed \cup rcPending BY <2>2, Zenon DEF RcStrong, InCall
      <3> QED BY <1>1, <3>1, Zenon DEF Listed
    <2> QED BY <2>1, <2>2, Zenon
  <1>4. IsInjective([i \in 1 .. Len(rcList) |-> rcNode[rcList[i]].id])
    BY <1>1, Zenon DEF IsInjective
  <1> QED BY <1>2, <1>3, <1>4, Zenon DEF RcListedNotFreed

(* For any number of nodes, and whichever allocations fail: no node on the list is freed or
   waits to be, none that the call in progress holds is freed, and a book is on the list
   once, however late the callbacks of call_rcu() run (list_rcu.c:51-274). *)
THEOREM NoBookFreedInUse == RcSpec => []RcListedNotFreed
  <1>1. RcInit => RcStrong BY RcStarts, Zenon
  <1>2. RcStrong /\ [RcNext]_rcVars => RcStrong' BY RcSteps, Zenon
  <1>3. RcStrong => RcListedNotFreed BY RcStrongIsEnough, Zenon
  <1> QED BY <1>1, <1>2, <1>3, PTL DEF RcSpec

-----------------------------------------------------------------------------
(* DeferredWork: what runs and what is queued *)

(* what runs or is queued in each phase, but for timers *)
DwStopped ==
  /\ dwModule \in DwModules
  /\ dwModule = "tasklet" => /\ dwPhase \in {"init", "gone"} => dwJob = "off"
                             /\ dwPhase # "loaded" => ~dwHooked
  /\ dwModule = "kthread" /\ dwPhase \in {"init", "gone"} => dwJob = "off"

(* and a timer, whose callback must not be in the middle *)
DwTimerStopped ==
  dwModule = "timer" => /\ dwJob \in {"off", "queued", "running"}
                        /\ dwPhase \in {"init", "gone"} => dwJob = "off"

(* tasklet_kill and kthread_stop leave nothing behind, on any number of CPUs. *)
LEMMA DwStoppedKept == DwSpec => []DwStopped
<1>1. DwInit => DwStopped
  BY Zenon DEF DwInit, DwStopped
<1>2. DwStopped /\ [DwNext]_dwVars => DwStopped'
  <2> SUFFICES ASSUME DwStopped, [DwNext]_dwVars PROVE DwStopped'
    BY Zenon
  <2> USE DEF DwStopped, Job, Phase, presses
  <2>1. CASE DwJobs
    BY <2>1 DEF DwJobs, tasklet_function, this_timer_callback, job_handler, simple_kthread
  <2>2. CASE DwLoader
    BY <2>2 DEF DwLoader, tasklet_init_module, tasklet_cleanup_module, timer_this_init, timer_this_exit, this_wq_init, this_wq_exit, kthread_p_load, kthread_p_unload
  <2>3. CASE irq_1_handler
    BY <2>3, Zenon DEF irq_1_handler
  <2>4. CASE Signal
    BY <2>4, Zenon DEF Signal
  <2>5. CASE UNCHANGED dwVars
    BY <2>5, Zenon DEF dwVars
  <2> QED BY <2>1, <2>2, <2>3, <2>4, <2>5, Zenon DEF DwNext
<1> QED BY <1>1, <1>2, PTL DEF DwSpec

(* del_timer leaves no callback behind when it cannot be called in the middle of one. *)
LEMMA DwTimerStoppedKept == ASSUME DwCpus = 1 PROVE DwSpec => []DwTimerStopped
<1>1. DwInit => DwTimerStopped
  BY Zenon DEF DwInit, DwTimerStopped
<1>2. DwTimerStopped /\ [DwNext]_dwVars => DwTimerStopped'
  <2> SUFFICES ASSUME DwTimerStopped, [DwNext]_dwVars PROVE DwTimerStopped'
    BY Zenon
  <2> USE DEF DwTimerStopped, Job, Phase, presses
  <2>1. CASE DwJobs
    BY <2>1, Zenon DEF DwJobs, tasklet_function, this_timer_callback, job_handler, simple_kthread
  <2>2. CASE DwLoader
    BY <2>2, Zenon DEF DwLoader, tasklet_init_module, tasklet_cleanup_module, timer_this_init, timer_this_exit, this_wq_init, this_wq_exit, kthread_p_load, kthread_p_unload
  <2>3. CASE irq_1_handler
    BY <2>3, Zenon DEF irq_1_handler
  <2>4. CASE Signal
    BY <2>4, Zenon DEF Signal
  <2>5. CASE UNCHANGED dwVars
    BY <2>5, Zenon DEF dwVars
  <2> QED BY <2>1, <2>2, <2>3, <2>4, <2>5, Zenon DEF DwNext
<1> QED BY <1>1, <1>2, PTL DEF DwSpec

(***************************************************************************)
(* No tasklet and no thread of a module is queued or runs once its exit     *)
(* routine has returned, on any number of CPUs: tasklet_kill comes after    *)
(* free_irq, and kthread_stop waits.                                        *)
(***************************************************************************)
THEOREM NoJobAfterUnload == DwSpec => [](dwModule # "timer" => DwNothingRunsAfterUnload)
<1>1. DwStopped => (dwModule # "timer" => DwNothingRunsAfterUnload)
  BY DwAssumption, Zenon DEF DwStopped, DwNothingRunsAfterUnload
<1> QED BY <1>1, DwStoppedKept, PTL

(***************************************************************************)
(* On one CPU this holds of timers too: del_timer, which does not wait,     *)
(* finds no callback in the middle when there is no other CPU to run it on. *)
(***************************************************************************)
THEOREM NothingRunsAfterUnload ==
  ASSUME DwCpus = 1
  PROVE  DwSpec => []DwNothingRunsAfterUnload
<1>1. DwStopped /\ DwTimerStopped => DwNothingRunsAfterUnload
  BY DwAssumption, Zenon DEF DwStopped, DwTimerStopped, DwNothingRunsAfterUnload
<1> QED BY <1>1, DwStoppedKept, DwTimerStoppedKept, PTL

-----------------------------------------------------------------------------
(* PseudoFiles: the mutex and the value that is not checked yet *)

(* the mutex: who is between lock and unlock owns it *)
PfExclusive ==
  /\ pfProc = [p \in PfProcs |-> pfProc[p]]
  /\ \A p \in PfProcs : /\ pfProc[p] = [at |-> pfProc[p].at, method |-> pfProc[p].method, text |-> pfProc[p].text,
                                        prev |-> pfProc[p].prev, shown |-> pfProc[p].shown]
                        /\ pfProc[p].at \in {"locked", "parsed", "shown"} => mtx = p

(* a value that was parsed and not yet checked *)
Unchecked == \E p \in PfProcs : pfProc[p].at = "parsed"

PfStrong ==
  /\ PfExclusive
  /\ pfFile = "sysfs" =>
       /\ ~Unchecked => debug_level \in Allowed
       /\ \A p \in PfProcs : /\ pfProc[p].at \in {"locked", "parsed"} => pfProc[p].prev \in Allowed
                             /\ pfProc[p].at = "shown" => pfProc[p].shown \in Allowed
  /\ pfFile = "procfs" /\ ~Unchecked => debug_level \in {config1, DEBUG_LEVEL_DEFAULT}

(***************************************************************************)
(* Any number of readers and writers of the proc, sysfs and debugfs files:  *)
(* a sysfs read shows only a level that llkdsysfs_debug_level_store()       *)
(* allows although the store parses into debug_level before it checks, and  *)
(* config1 follows debug_level.                                             *)
(***************************************************************************)
THEOREM PseudoFilesRight == PfSpec => []PfInv
<1>1. PfInit => PfStrong
  BY DEF PfInit, PfStrong, PfExclusive, Unchecked, Nothing, Allowed, DEBUG_LEVEL_MIN, DEBUG_LEVEL_MAX, DEBUG_LEVEL_DEFAULT
<1>2. PfStrong /\ [PfNext]_pfVars => PfStrong'
  <2> SUFFICES ASSUME PfStrong, [PfNext]_pfVars PROVE PfStrong'
    BY Zenon
  <2> USE PfAssumption
  <2>1. CASE Tick
    BY <2>1, Zenon DEF Tick, PfStrong, PfExclusive, Unchecked
  <2>2. ASSUME NEW p \in PfProcs, Call(p) \/ PfInterrupted(p) PROVE PfStrong'
    <3>1. PICK m, x : pfProc' = [pfProc EXCEPT ![p] = [Nothing EXCEPT !.at = "wait", !.method = m, !.text = x]]
                      \/ pfProc' = [pfProc EXCEPT ![p] = Nothing]
      BY <2>2, Zenon DEF Call, PfInterrupted
    <3>2. pfProc[p].at \in {"out", "wait"} /\ UNCHANGED <<pfFile, debug_level, config1, mtx>>
      BY <2>2, Zenon DEF Call, PfInterrupted
    <3>3. /\ pfProc' = [q \in PfProcs |-> pfProc'[q]]
          /\ \A q \in PfProcs : q # p => pfProc'[q] = pfProc[q]
      BY <3>1, Zenon DEF PfStrong, PfExclusive
    <3>5. pfProc'[p] = [Nothing EXCEPT !.at = "wait", !.method = m, !.text = x] \/ pfProc'[p] = Nothing
      BY <3>1, Zenon DEF PfStrong, PfExclusive
    <3>4. /\ pfProc'[p] = [at |-> pfProc'[p].at, method |-> pfProc'[p].method, text |-> pfProc'[p].text,
                           prev |-> pfProc'[p].prev, shown |-> pfProc'[p].shown]
          /\ pfProc'[p].at \in {"out", "wait"}
      <4>1. CASE pfProc'[p] = Nothing
        BY <4>1 DEF Nothing
      <4>2. CASE pfProc'[p] = [Nothing EXCEPT !.at = "wait", !.method = m, !.text = x]
        <5>1. pfProc'[p] = [at |-> "wait", method |-> m, text |-> x, prev |-> 0, shown |-> 0]
          BY <4>2, Zenon DEF Nothing
        <5> QED BY <5>1
      <4> QED BY <3>5, <4>1, <4>2, Zenon
    <3> QED BY <3>2, <3>3, <3>4, Zenon DEF PfStrong, PfExclusive, Unchecked
  <2>3. ASSUME NEW p \in PfProcs, Locked(p) PROVE PfStrong'
    <3>1. PfExclusive'
      BY <2>3, Zenon DEF Locked, PfStrong, PfExclusive
    <3>2. ~Unchecked
      BY <2>3, Zenon DEF Locked, PfStrong, PfExclusive, Unchecked
    <3>4. \A q \in PfProcs : pfProc'[q].at = IF q = p THEN "locked" ELSE pfProc[q].at
      BY <2>3 DEF Locked, PfStrong, PfExclusive
    <3>3. ~Unchecked'
      BY <3>2, <3>4, Zenon DEF Unchecked
    <3> QED BY <3>1, <3>2, <3>3, <2>3 DEF Locked, PfStrong, PfExclusive
  <2>4. ASSUME NEW p \in PfProcs, Refused(p) \/ ShowEnds(p) PROVE PfStrong'
    BY <2>4 DEF Refused, ShowEnds, Unlock, PfStrong, PfExclusive, Unchecked, Nothing
  <2>5. ASSUME NEW p \in PfProcs, NEW file, Parse(p, file) PROVE PfStrong'
    BY <2>5, SMTT(30) DEF Parse, Inside, PfStrong, PfExclusive, Unchecked
  <2>6. ASSUME NEW p \in PfProcs, myproc_write_debug_level(p) PROVE PfStrong'
    BY <2>6, <2>5 DEF myproc_write_debug_level, Inside, Unlock, PfStrong, PfExclusive, Unchecked, Nothing
  <2>7. ASSUME NEW p \in PfProcs, proc_show_debug_level(p) \/ proc_show_config1(p) \/ llkdsysfs_debug_level_show(p) PROVE PfStrong'
    BY <2>7, Zenon DEF proc_show_debug_level, proc_show_config1, llkdsysfs_debug_level_show, Shows, Inside, PfStrong, PfExclusive, Unchecked
  <2>8. ASSUME NEW p \in PfProcs, myproc_write_config1(p) PROVE PfStrong'
    BY <2>8, Zenon DEF myproc_write_config1, Inside, Unlock, PfStrong, PfExclusive, Unchecked, Nothing
  <2>9. ASSUME NEW p \in PfProcs, llkdsysfs_debug_level_store(p) PROVE PfStrong'
    BY <2>9, <2>5 DEF llkdsysfs_debug_level_store, Inside, Unlock, PfStrong, PfExclusive, Unchecked, Nothing
  <2>10. ASSUME NEW p \in PfProcs, dbgfs_show_drvctx(p) PROVE PfStrong'
    BY <2>10, Zenon DEF dbgfs_show_drvctx, Shows, Inside, PfStrong, PfExclusive, Unchecked
  <2>11. CASE UNCHANGED pfVars
    BY <2>11, Zenon DEF pfVars, PfStrong, PfExclusive, Unchecked
  <2> QED BY <2>1, <2>2, <2>3, <2>4, <2>6, <2>7, <2>8, <2>9, <2>10, <2>11, Zenon DEF PfNext
<1>3. PfStrong => PfInv
  BY PfAssumption, Zenon DEF PfStrong, PfExclusive, PfInv, PfOnlyAllowedLevelsShown, PfConfigFollowsLevel, Unchecked
<1> QED BY <1>1, <1>2, <1>3, PTL DEF PfSpec

-----------------------------------------------------------------------------
(* SecretDevices: open files, bytes and the locks around them *)

(* the lock around copy_to_user(), and the one around a change of the secret *)
CopyLock == IF sdDriver = "mutex" THEN "lock" ELSE "mutex"
StoreLock == IF sdDriver = "mutex" THEN "lock" ELSE "spinlock"

(* every lock of the three drivers *)
LockNames == {"lock1", "lock", "spinlock", "mutex", "none"}

(* a process *)
ProcRecords ==
  [at : {"closed", "opening", "open", "closing", "reading", "copyout", "writing", "storing"},
   len : Nat, val : Nat, tmp : Int, ops : Int]

SdTypes ==
  /\ ga \in Int /\ gb \in Int /\ tx \in Int /\ rx \in Int
  /\ oursecret \in [val : Nat, whole : BOOLEAN]
  /\ sdMoved \in [got : Int, sent : Int]
  /\ sdLocks = [l \in LockNames |-> sdLocks[l]]
  /\ sdProc \in [SdProcs -> ProcRecords]

(* who is between the two accesses of an update owns its lock, and what it read is what is there *)
SdExclusive ==
  \A p \in SdProcs :
    /\ sdProc[p].at \in {"opening", "closing"} => sdLocks["lock1"] = p /\ sdProc[p].tmp = ga
    /\ sdProc[p].at = "copyout" => sdLocks[CopyLock] = p /\ sdProc[p].tmp = tx
    /\ sdProc[p].at = "storing" => sdLocks[StoreLock] = p /\ sdProc[p].tmp = rx

(* the processes that have the file open *)
OpenFiles == {p \in SdProcs : IsOpen(p)}

SdStrong ==
  /\ sdDriver \in SdDrivers
  /\ sdDriver # "rdwr" =>
       /\ SdTypes /\ SdExclusive
       /\ ga = Cardinality(OpenFiles) /\ gb = 1 - ga
       /\ tx = sdMoved.got /\ rx = sdMoved.sent
       /\ oursecret.whole \/ \E p \in SdProcs : sdProc[p].at = "storing"

(* A driver that was loaded has no file open. *)
LEMMA SdInitInv == SdInit => SdStrong
<1> SUFFICES ASSUME SdInit PROVE SdStrong
  BY Zenon
<1>1. OpenFiles = {}
  BY Zenon DEF SdInit, OpenFiles, IsOpen, Idle
<1>2. Cardinality(OpenFiles) = 0
  BY <1>1, FS_EmptySet, Zenon
<1>3. SdTypes /\ SdExclusive
  BY DEF SdInit, SdTypes, SdExclusive, Idle, LockNames, ProcRecords
<1> QED BY <1>2, <1>3 DEF SdInit, SdStrong

(* open() counts the file under lock1. *)
LEMMA OpenInv ==
  ASSUME SdStrong, sdDriver # "rdwr", NEW p \in SdProcs, Open(p, "lock1") PROVE SdStrong'
<1> USE SdAssumption
<1>1. SdTypes /\ SdExclusive
  BY Zenon DEF SdStrong
<1>2. /\ {"lock1", CopyLock, StoreLock} \subseteq LockNames
      /\ CopyLock \notin {"lock1", "none"} /\ StoreLock \notin {"lock1", "none"}
  BY Zenon DEF CopyLock, StoreLock, LockNames
<1>3. sdDriver' = sdDriver /\ CopyLock' = CopyLock /\ StoreLock' = StoreLock
  BY Zenon DEF CopyLock, StoreLock, Open, OpenStarts, OpenEnds
<1>4. CASE OpenStarts(p, "lock1")
  <2>1. SdTypes'
    <3>1. sdLocks' = [l \in LockNames |-> sdLocks'[l]]
      BY <1>1, <1>2, <1>4, Zenon DEF OpenStarts, Takes, SdTypes
    <3>0. sdProc \in [SdProcs -> ProcRecords] /\ ga \in Int /\ tx \in Int /\ rx \in Int /\ oursecret.val \in Nat
      BY <1>1, Zenon DEF SdTypes
    <3>2. (sdProc \in [SdProcs -> ProcRecords])'
      BY <3>0, <1>4 DEF OpenStarts, ProcRecords
    <3> QED BY <1>1, <1>4, <3>1, <3>2, Zenon DEF OpenStarts, Takes, SdTypes
  <2>2. \A q \in SdProcs : /\ sdProc'[q].at = IF q = p THEN "opening" ELSE sdProc[q].at
                           /\ sdProc'[q].tmp = IF q = p THEN ga ELSE sdProc[q].tmp
    BY <1>1, <1>4 DEF OpenStarts, Takes, SdTypes, ProcRecords
  <2>3. sdLocks["lock1"] = "free" /\ \A l \in LockNames : sdLocks'[l] = IF l = "lock1" THEN p ELSE sdLocks[l]
    BY <1>1, <1>2, <1>4, Zenon DEF OpenStarts, Takes, SdTypes
  <2>4. sdProc[p].at = "closed" /\ UNCHANGED <<ga, tx, rx>>
    BY <1>4, Zenon DEF OpenStarts, Takes
  <2>5. SdExclusive'
    BY <1>1, <1>2, <1>3, <2>2, <2>3, <2>4, SMTT(30) DEF SdExclusive
  <2>6. OpenFiles' = OpenFiles
    BY <2>2, <2>4, Zenon DEF OpenFiles, IsOpen
  <2> QED BY <1>1, <1>3, <1>4, <2>1, <2>2, <2>4, <2>5, <2>6 DEF OpenStarts, Takes, SdStrong, SdTypes, ProcRecords
<1>5. CASE OpenEnds(p, "lock1")
  <2>1. SdTypes'
    <3>1. sdLocks' = [l \in LockNames |-> sdLocks'[l]]
      BY <1>1, <1>2, <1>5, Zenon DEF OpenEnds, Moves, Goes, Drops, SdTypes
    <3>0. sdProc \in [SdProcs -> ProcRecords] /\ ga \in Int /\ tx \in Int /\ rx \in Int /\ oursecret.val \in Nat
      BY <1>1, Zenon DEF SdTypes
    <3>2. (sdProc \in [SdProcs -> ProcRecords])'
      BY <3>0, <1>5 DEF OpenEnds, Moves, Goes, ProcRecords
    <3> QED BY <1>1, <1>5, <3>1, <3>2 DEF OpenEnds, Moves, Goes, Drops, SdTypes, ProcRecords
  <2>2. \A q \in SdProcs : /\ sdProc'[q].at = IF q = p THEN "open" ELSE sdProc[q].at
                           /\ sdProc'[q].tmp = sdProc[q].tmp
    BY <1>1, <1>5, Zenon DEF OpenEnds, Moves, Goes, Drops, SdTypes, ProcRecords
  <2>3. \A l \in LockNames : sdLocks'[l] = IF l = "lock1" THEN "free" ELSE sdLocks[l]
    BY <1>1, <1>2, <1>5, Zenon DEF OpenEnds, Moves, Goes, Drops, SdTypes
  <2>4. sdProc[p].at = "opening" /\ UNCHANGED <<tx, rx>>
    BY <1>5, Zenon DEF OpenEnds, Moves, Goes, Drops
  <2>5. SdExclusive'
    BY <1>1, <1>2, <1>3, <2>2, <2>3, <2>4 DEF SdExclusive
  <2>6. Cardinality(OpenFiles') = Cardinality(OpenFiles) + 1
    <3>1. OpenFiles' = OpenFiles \cup {p} /\ p \notin OpenFiles
      BY <2>2, <2>4, Zenon DEF OpenFiles, IsOpen
    <3>2. IsFiniteSet(OpenFiles)
      BY FS_Subset, Zenon DEF OpenFiles
    <3> QED BY <3>1, <3>2, FS_AddElement, Zenon
  <2>7. sdProc[p].tmp = ga
    BY <1>1, <2>4, Zenon DEF SdExclusive
  <2> QED BY <1>1, <1>3, <1>5, <2>1, <2>2, <2>4, <2>5, <2>6, <2>7 DEF OpenEnds, Moves, Goes, Drops, SdStrong, SdTypes, ProcRecords
<1> QED BY <1>4, <1>5, Zenon DEF Open

(* release() counts it back under lock1. *)
LEMMA CloseInv ==
  ASSUME SdStrong, sdDriver # "rdwr", NEW p \in SdProcs, Close(p, "lock1") PROVE SdStrong'
<1> USE SdAssumption
<1>1. SdTypes /\ SdExclusive
  BY Zenon DEF SdStrong
<1>2. /\ {"lock1", CopyLock, StoreLock} \subseteq LockNames
      /\ CopyLock \notin {"lock1", "none"} /\ StoreLock \notin {"lock1", "none"}
  BY Zenon DEF CopyLock, StoreLock, LockNames
<1>3. sdDriver' = sdDriver /\ CopyLock' = CopyLock /\ StoreLock' = StoreLock
  BY Zenon DEF CopyLock, StoreLock, Close, CloseStarts, CloseEnds
<1>4. CASE CloseStarts(p, "lock1")
  <2>1. SdTypes'
    <3>1. sdLocks' = [l \in LockNames |-> sdLocks'[l]]
      BY <1>1, <1>2, <1>4, Zenon DEF CloseStarts, Takes, SdTypes
    <3>0. sdProc \in [SdProcs -> ProcRecords] /\ ga \in Int /\ tx \in Int /\ rx \in Int /\ oursecret.val \in Nat
      BY <1>1, Zenon DEF SdTypes
    <3>2. (sdProc \in [SdProcs -> ProcRecords])'
      BY <3>0, <1>4, Zenon DEF CloseStarts, ProcRecords
    <3> QED BY <1>1, <1>4, <3>1, <3>2, Zenon DEF CloseStarts, Takes, SdTypes
  <2>2. \A q \in SdProcs : /\ sdProc'[q].at = IF q = p THEN "closing" ELSE sdProc[q].at
                           /\ sdProc'[q].tmp = IF q = p THEN ga ELSE sdProc[q].tmp
    BY <1>1, <1>4 DEF CloseStarts, Takes, SdTypes, ProcRecords
  <2>3. sdLocks["lock1"] = "free" /\ \A l \in LockNames : sdLocks'[l] = IF l = "lock1" THEN p ELSE sdLocks[l]
    BY <1>1, <1>2, <1>4, Zenon DEF CloseStarts, Takes, SdTypes
  <2>4. sdProc[p].at = "open" /\ UNCHANGED <<ga, tx, rx>>
    BY <1>4, Zenon DEF CloseStarts, Takes
  <2>5. SdExclusive'
    BY <1>1, <1>2, <1>3, <2>2, <2>3, <2>4, SMTT(30) DEF SdExclusive
  <2>6. OpenFiles' = OpenFiles
    BY <2>2, <2>4, Zenon DEF OpenFiles, IsOpen
  <2> QED BY <1>1, <1>3, <1>4, <2>1, <2>2, <2>4, <2>5, <2>6 DEF CloseStarts, Takes, SdStrong, SdTypes, ProcRecords
<1>5. CASE CloseEnds(p, "lock1")
  <2>1. SdTypes'
    <3>1. sdLocks' = [l \in LockNames |-> sdLocks'[l]]
      BY <1>1, <1>2, <1>5, Zenon DEF CloseEnds, Moves, Goes, Drops, SdTypes
    <3>0. sdProc \in [SdProcs -> ProcRecords] /\ ga \in Int /\ tx \in Int /\ rx \in Int /\ oursecret.val \in Nat
      BY <1>1, Zenon DEF SdTypes
    <3>2. (sdProc \in [SdProcs -> ProcRecords])'
      BY <3>0, <1>5 DEF CloseEnds, Moves, Goes, ProcRecords
    <3> QED BY <1>1, <1>5, <3>1, <3>2 DEF CloseEnds, Moves, Goes, Drops, SdTypes, ProcRecords
  <2>2. \A q \in SdProcs : /\ sdProc'[q].at = IF q = p THEN "closed" ELSE sdProc[q].at
                           /\ sdProc'[q].tmp = sdProc[q].tmp
    BY <1>1, <1>5, Zenon DEF CloseEnds, Moves, Goes, Drops, SdTypes, ProcRecords
  <2>3. \A l \in LockNames : sdLocks'[l] = IF l = "lock1" THEN "free" ELSE sdLocks[l]
    BY <1>1, <1>2, <1>5, Zenon DEF CloseEnds, Moves, Goes, Drops, SdTypes
  <2>4. sdProc[p].at = "closing" /\ UNCHANGED <<tx, rx>>
    BY <1>5, Zenon DEF CloseEnds, Moves, Goes, Drops
  <2>5. SdExclusive'
    BY <1>1, <1>2, <1>3, <2>2, <2>3, <2>4 DEF SdExclusive
  <2>6. Cardinality(OpenFiles') = Cardinality(OpenFiles) - 1
    <3>1. OpenFiles' = OpenFiles \ {p} /\ p \in OpenFiles
      BY <2>2, <2>4, Zenon DEF OpenFiles, IsOpen
    <3>2. IsFiniteSet(OpenFiles)
      BY FS_Subset, Zenon DEF OpenFiles
    <3> QED BY <3>1, <3>2, FS_RemoveElement, Zenon
  <2>7. sdProc[p].tmp = ga
    BY <1>1, <2>4, Zenon DEF SdExclusive
  <2> QED BY <1>1, <1>3, <1>5, <2>1, <2>2, <2>4, <2>5, <2>6, <2>7 DEF CloseEnds, Moves, Goes, Drops, SdStrong, SdTypes, ProcRecords
<1> QED BY <1>4, <1>5, Zenon DEF Close

(* read() counts what it returned before it gives the lock of the copy back. *)
LEMMA ReadInv ==
  ASSUME SdStrong, sdDriver # "rdwr", NEW p \in SdProcs, Read(p, StoreLock, CopyLock) PROVE SdStrong'
<1> USE SdAssumption
<1>1. SdTypes /\ SdExclusive
  BY Zenon DEF SdStrong
<1>2. /\ {"lock1", CopyLock, StoreLock} \subseteq LockNames
      /\ CopyLock \notin {"lock1", "none"} /\ StoreLock \notin {"lock1", "none"}
  BY Zenon DEF CopyLock, StoreLock, LockNames
<1>3. sdDriver' = sdDriver /\ CopyLock' = CopyLock /\ StoreLock' = StoreLock
  BY Zenon DEF CopyLock, StoreLock, Read, ReadLength, ReadRefused, CopyOutStarts, CopyOutEnds
<1>4. CASE ReadLength(p, StoreLock)
  <2>1. SdTypes'
    <3>1. sdLocks' = [l \in LockNames |-> sdLocks'[l]]
      BY <1>1, <1>2, <1>4, Zenon DEF ReadLength, SdTypes
    <3>0. sdProc \in [SdProcs -> ProcRecords] /\ ga \in Int /\ tx \in Int /\ rx \in Int /\ oursecret.val \in Nat
      BY <1>1, Zenon DEF SdTypes
    <3>2. (sdProc \in [SdProcs -> ProcRecords])'
      BY <3>0, <1>4 DEF ReadLength, ProcRecords
    <3> QED BY <1>1, <1>4, <3>1, <3>2, Zenon DEF ReadLength, SdTypes
  <2>2. \A q \in SdProcs : /\ sdProc'[q].at = IF q = p THEN "reading" ELSE sdProc[q].at
                           /\ sdProc'[q].tmp = sdProc[q].tmp
    BY <1>1, <1>4 DEF ReadLength, SdTypes, ProcRecords
  <2>3. sdLocks' = sdLocks
    BY <1>4, Zenon DEF ReadLength
  <2>4. sdProc[p].at = "open" /\ UNCHANGED <<ga, tx, rx>>
    BY <1>4, Zenon DEF ReadLength
  <2>5. SdExclusive'
    BY <1>1, <1>2, <1>3, <2>2, <2>3, <2>4, SMTT(30) DEF SdExclusive
  <2>6. OpenFiles' = OpenFiles
    BY <2>2, <2>4, Zenon DEF OpenFiles, IsOpen
  <2> QED BY <1>1, <1>3, <1>4, <2>1, <2>2, <2>4, <2>5, <2>6 DEF ReadLength, SdStrong, SdTypes, ProcRecords
<1>5. CASE ReadRefused(p)
  <2>1. SdTypes'
    <3>1. sdLocks' = [l \in LockNames |-> sdLocks'[l]]
      BY <1>1, <1>2, <1>5, Zenon DEF ReadRefused, Moves, Goes, SdTypes
    <3>0. sdProc \in [SdProcs -> ProcRecords] /\ ga \in Int /\ tx \in Int /\ rx \in Int /\ oursecret.val \in Nat
      BY <1>1, Zenon DEF SdTypes
    <3>2. (sdProc \in [SdProcs -> ProcRecords])'
      BY <3>0, <1>5 DEF ReadRefused, Moves, Goes, ProcRecords
    <3> QED BY <1>1, <1>5, <3>1, <3>2, Zenon DEF ReadRefused, Moves, Goes, SdTypes
  <2>2. \A q \in SdProcs : /\ sdProc'[q].at = IF q = p THEN "open" ELSE sdProc[q].at
                           /\ sdProc'[q].tmp = sdProc[q].tmp
    BY <1>1, <1>5 DEF ReadRefused, Moves, Goes, SdTypes, ProcRecords
  <2>3. sdLocks' = sdLocks
    BY <1>5, Zenon DEF ReadRefused, Moves, Goes
  <2>4. sdProc[p].at = "reading" /\ UNCHANGED <<ga, tx, rx>>
    BY <1>5, Zenon DEF ReadRefused, Moves, Goes
  <2>5. SdExclusive'
    BY <1>1, <1>2, <1>3, <2>2, <2>3, <2>4, SMTT(30) DEF SdExclusive
  <2>6. OpenFiles' = OpenFiles
    BY <2>2, <2>4, Zenon DEF OpenFiles, IsOpen
  <2> QED BY <1>1, <1>3, <1>5, <2>1, <2>2, <2>4, <2>5, <2>6 DEF ReadRefused, Moves, Goes, SdStrong, SdTypes, ProcRecords
<1>6. CASE CopyOutStarts(p, CopyLock)
  <2>1. SdTypes'
    <3>1. sdLocks' = [l \in LockNames |-> sdLocks'[l]]
      BY <1>1, <1>2, <1>6, Zenon DEF CopyOutStarts, Takes, SdTypes
    <3>0. sdProc \in [SdProcs -> ProcRecords] /\ ga \in Int /\ tx \in Int /\ rx \in Int /\ oursecret.val \in Nat
      BY <1>1, Zenon DEF SdTypes
    <3>2. (sdProc \in [SdProcs -> ProcRecords])'
      BY <3>0, <1>6, Zenon DEF CopyOutStarts, ProcRecords
    <3> QED BY <1>1, <1>6, <3>1, <3>2, Zenon DEF CopyOutStarts, Takes, SdTypes
  <2>2. \A q \in SdProcs : /\ sdProc'[q].at = IF q = p THEN "copyout" ELSE sdProc[q].at
                           /\ sdProc'[q].tmp = IF q = p THEN tx ELSE sdProc[q].tmp
    BY <1>1, <1>6 DEF CopyOutStarts, Takes, SdTypes, ProcRecords
  <2>3. sdLocks[CopyLock] = "free" /\ \A l \in LockNames : sdLocks'[l] = IF l = CopyLock THEN p ELSE sdLocks[l]
    BY <1>1, <1>2, <1>6, Zenon DEF CopyOutStarts, Takes, SdTypes
  <2>4. sdProc[p].at = "reading" /\ UNCHANGED <<ga, tx, rx>>
    BY <1>6, Zenon DEF CopyOutStarts, Takes
  <2>5. SdExclusive'
    BY <1>1, <1>2, <1>3, <2>2, <2>3, <2>4, SMTT(30) DEF SdExclusive
  <2>6. OpenFiles' = OpenFiles
    BY <2>2, <2>4, Zenon DEF OpenFiles, IsOpen
  <2> QED BY <1>1, <1>3, <1>6, <2>1, <2>2, <2>4, <2>5, <2>6 DEF CopyOutStarts, Takes, SdStrong, SdTypes, ProcRecords
<1>7. CASE CopyOutEnds(p, CopyLock)
  <2>1. SdTypes'
    <3>1. sdLocks' = [l \in LockNames |-> sdLocks'[l]]
      BY <1>1, <1>2, <1>7, Zenon DEF CopyOutEnds, Goes, Drops, SdTypes
    <3>0. sdProc \in [SdProcs -> ProcRecords] /\ ga \in Int /\ tx \in Int /\ rx \in Int /\ oursecret.val \in Nat
      BY <1>1, Zenon DEF SdTypes
    <3>2. (sdProc \in [SdProcs -> ProcRecords])'
      BY <3>0, <1>7 DEF CopyOutEnds, Goes, ProcRecords
    <3> QED BY <1>1, <1>7, <3>1, <3>2 DEF CopyOutEnds, Goes, Drops, SdTypes, ProcRecords
  <2>2. \A q \in SdProcs : /\ sdProc'[q].at = IF q = p THEN "open" ELSE sdProc[q].at
                           /\ sdProc'[q].tmp = sdProc[q].tmp
    BY <1>1, <1>7 DEF CopyOutEnds, Goes, Drops, SdTypes, ProcRecords
  <2>3. \A l \in LockNames : sdLocks'[l] = IF l = CopyLock THEN "free" ELSE sdLocks[l]
    BY <1>1, <1>2, <1>7, Zenon DEF CopyOutEnds, Goes, Drops, SdTypes
  <2>4. sdProc[p].at = "copyout" /\ UNCHANGED <<ga, rx>>
    BY <1>7, Zenon DEF CopyOutEnds, Goes, Drops
  <2>5. SdExclusive'
    BY <1>1, <1>2, <1>3, <2>2, <2>3, <2>4, SMTT(30) DEF SdExclusive
  <2>6. OpenFiles' = OpenFiles
    BY <2>2, <2>4, Zenon DEF OpenFiles, IsOpen
  <2>7. sdProc[p].tmp = tx
    BY <1>1, <2>4, Zenon DEF SdExclusive
  <2> QED BY <1>1, <1>3, <1>7, <2>1, <2>2, <2>4, <2>5, <2>6, <2>7 DEF CopyOutEnds, Goes, Drops, SdStrong, SdTypes, ProcRecords
<1> QED BY <1>4, <1>5, <1>6, <1>7, Zenon DEF Read

(* write() stores the secret and counts it under one lock. *)
LEMMA WriteInv ==
  ASSUME SdStrong, sdDriver # "rdwr", NEW p \in SdProcs, Write(p, StoreLock) PROVE SdStrong'
<1> USE SdAssumption
<1>1. SdTypes /\ SdExclusive
  BY Zenon DEF SdStrong
<1>2. /\ {"lock1", CopyLock, StoreLock} \subseteq LockNames
      /\ CopyLock \notin {"lock1", "none"} /\ StoreLock \notin {"lock1", "none"}
  BY Zenon DEF CopyLock, StoreLock, LockNames
<1>3. sdDriver' = sdDriver /\ CopyLock' = CopyLock /\ StoreLock' = StoreLock
  BY Zenon DEF CopyLock, StoreLock, Write, CopyIn, WriteRefused, StoreStarts, StoreEnds
<1>4. CASE CopyIn(p)
  <2>1. SdTypes'
    <3>1. sdLocks' = [l \in LockNames |-> sdLocks'[l]]
      BY <1>1, <1>2, <1>4, Zenon DEF CopyIn, Moves, Goes, SdTypes
    <3>0. sdProc \in [SdProcs -> ProcRecords] /\ ga \in Int /\ tx \in Int /\ rx \in Int /\ oursecret.val \in Nat
      BY <1>1, Zenon DEF SdTypes
    <3>2. (sdProc \in [SdProcs -> ProcRecords])'
      BY <3>0, <1>4 DEF CopyIn, Moves, Goes, ProcRecords
    <3> QED BY <1>1, <1>4, <3>1, <3>2, Zenon DEF CopyIn, Moves, Goes, SdTypes
  <2>2. \A q \in SdProcs : /\ sdProc'[q].at = IF q = p THEN "writing" ELSE sdProc[q].at
                           /\ sdProc'[q].tmp = sdProc[q].tmp
    BY <1>1, <1>4, Zenon DEF CopyIn, Moves, Goes, SdTypes, ProcRecords
  <2>3. sdLocks' = sdLocks
    BY <1>4, Zenon DEF CopyIn, Moves, Goes
  <2>4. sdProc[p].at = "open" /\ UNCHANGED <<ga, tx, rx>>
    BY <1>4, Zenon DEF CopyIn, Moves, Goes
  <2>5. SdExclusive'
    BY <1>1, <1>2, <1>3, <2>2, <2>3, <2>4, SMTT(30) DEF SdExclusive
  <2>6. OpenFiles' = OpenFiles
    BY <2>2, <2>4, Zenon DEF OpenFiles, IsOpen
  <2> QED BY <1>1, <1>3, <1>4, <2>1, <2>2, <2>4, <2>5, <2>6 DEF CopyIn, Moves, Goes, SdStrong, SdTypes, ProcRecords
<1>5. CASE WriteRefused(p)
  <2>1. SdTypes'
    <3>1. sdLocks' = [l \in LockNames |-> sdLocks'[l]]
      BY <1>1, <1>2, <1>5, Zenon DEF WriteRefused, SdTypes
    <3>0. sdProc \in [SdProcs -> ProcRecords] /\ ga \in Int /\ tx \in Int /\ rx \in Int /\ oursecret.val \in Nat
      BY <1>1, Zenon DEF SdTypes
    <3>2. (sdProc \in [SdProcs -> ProcRecords])'
      BY <3>0, <1>5 DEF WriteRefused, ProcRecords
    <3> QED BY <1>1, <1>5, <3>1, <3>2, Zenon DEF WriteRefused, SdTypes
  <2>2. \A q \in SdProcs : /\ sdProc'[q].at = IF q = p THEN "open" ELSE sdProc[q].at
                           /\ sdProc'[q].tmp = sdProc[q].tmp
    BY <1>1, <1>5 DEF WriteRefused, SdTypes, ProcRecords
  <2>3. sdLocks' = sdLocks
    BY <1>5, Zenon DEF WriteRefused
  <2>4. sdProc[p].at = "writing" /\ UNCHANGED <<ga, tx, rx>>
    BY <1>5, Zenon DEF WriteRefused
  <2>5. SdExclusive'
    BY <1>1, <1>2, <1>3, <2>2, <2>3, <2>4, SMTT(30) DEF SdExclusive
  <2>6. OpenFiles' = OpenFiles
    BY <2>2, <2>4, Zenon DEF OpenFiles, IsOpen
  <2> QED BY <1>1, <1>3, <1>5, <2>1, <2>2, <2>4, <2>5, <2>6 DEF WriteRefused, SdStrong, SdTypes, ProcRecords
<1>6. CASE StoreStarts(p, StoreLock)
  <2>1. SdTypes'
    <3>1. sdLocks' = [l \in LockNames |-> sdLocks'[l]]
      BY <1>1, <1>2, <1>6, Zenon DEF StoreStarts, Takes, SdTypes
    <3>0. sdProc \in [SdProcs -> ProcRecords] /\ ga \in Int /\ tx \in Int /\ rx \in Int /\ oursecret.val \in Nat
      BY <1>1, Zenon DEF SdTypes
    <3>2. (sdProc \in [SdProcs -> ProcRecords])'
      BY <3>0, <1>6 DEF StoreStarts, ProcRecords
    <3> QED BY <1>1, <1>6, <3>1, <3>2 DEF StoreStarts, Takes, SdTypes
  <2>2. \A q \in SdProcs : /\ sdProc'[q].at = IF q = p THEN "storing" ELSE sdProc[q].at
                           /\ sdProc'[q].tmp = IF q = p THEN rx ELSE sdProc[q].tmp
    BY <1>1, <1>6 DEF StoreStarts, Takes, SdTypes, ProcRecords
  <2>3. sdLocks[StoreLock] = "free" /\ \A l \in LockNames : sdLocks'[l] = IF l = StoreLock THEN p ELSE sdLocks[l]
    BY <1>1, <1>2, <1>6, Zenon DEF StoreStarts, Takes, SdTypes
  <2>4. sdProc[p].at = "writing" /\ UNCHANGED <<ga, tx, rx>>
    BY <1>6, Zenon DEF StoreStarts, Takes
  <2>5. SdExclusive'
    BY <1>1, <1>2, <1>3, <2>2, <2>3, <2>4, SMTT(30) DEF SdExclusive
  <2>6. OpenFiles' = OpenFiles
    BY <2>2, <2>4, Zenon DEF OpenFiles, IsOpen
  <2> QED BY <1>1, <1>3, <1>6, <2>1, <2>2, <2>4, <2>5, <2>6 DEF StoreStarts, Takes, SdStrong, SdTypes, ProcRecords
<1>7. CASE StoreEnds(p, StoreLock)
  <2>1. SdTypes'
    <3>1. sdLocks' = [l \in LockNames |-> sdLocks'[l]]
      BY <1>1, <1>2, <1>7, Zenon DEF StoreEnds, Goes, Drops, SdTypes
    <3>0. sdProc \in [SdProcs -> ProcRecords] /\ ga \in Int /\ tx \in Int /\ rx \in Int /\ oursecret.val \in Nat
      BY <1>1, Zenon DEF SdTypes
    <3>2. (sdProc \in [SdProcs -> ProcRecords])'
      BY <3>0, <1>7, Zenon DEF StoreEnds, Goes, ProcRecords
    <3>3. oursecret' \in [val : Nat, whole : BOOLEAN] /\ sdMoved' \in [got : Int, sent : Int] /\ rx' \in Int
      <4>1. sdProc[p].val \in Nat /\ sdProc[p].tmp \in Int
        BY <1>1, Zenon DEF SdTypes, ProcRecords
      <4>2. oursecret' \in [val : Nat, whole : BOOLEAN]
        BY <1>1, <1>7, Zenon DEF StoreEnds, SdTypes
      <4>3. sdMoved' \in [got : Int, sent : Int]
        BY <1>1, <1>7, <4>1 DEF StoreEnds, SdTypes
      <4> QED BY <1>7, <4>1, <4>2, <4>3 DEF StoreEnds
    <3> QED BY <1>1, <1>7, <3>1, <3>2, <3>3, Zenon DEF StoreEnds, SdTypes
  <2>2. \A q \in SdProcs : /\ sdProc'[q].at = IF q = p THEN "open" ELSE sdProc[q].at
                           /\ sdProc'[q].tmp = sdProc[q].tmp
    BY <1>1, <1>7 DEF StoreEnds, Goes, Drops, SdTypes, ProcRecords
  <2>3. \A l \in LockNames : sdLocks'[l] = IF l = StoreLock THEN "free" ELSE sdLocks[l]
    BY <1>1, <1>2, <1>7, Zenon DEF StoreEnds, Goes, Drops, SdTypes
  <2>4. sdProc[p].at = "storing" /\ UNCHANGED <<ga, tx>>
    BY <1>7, Zenon DEF StoreEnds, Goes, Drops
  <2>5. SdExclusive'
    BY <1>1, <1>2, <1>3, <2>2, <2>3, <2>4, SMTT(30) DEF SdExclusive
  <2>6. OpenFiles' = OpenFiles
    BY <2>2, <2>4, ZenonT(30) DEF OpenFiles, IsOpen
  <2>7. sdProc[p].tmp = rx
    BY <1>1, <2>4, Zenon DEF SdExclusive
  <2> QED BY <1>1, <1>3, <1>7, <2>1, <2>2, <2>4, <2>5, <2>6, <2>7, Zenon DEF StoreEnds, Goes, Drops, SdStrong, SdTypes, ProcRecords
<1> QED BY <1>4, <1>5, <1>6, <1>7, Zenon DEF Write

(* Every step of a driver with locks keeps the counts; the one without promises nothing. *)
LEMMA SdStep == SdStrong /\ [SdNext]_sdVars => SdStrong'
<1> SUFFICES ASSUME SdStrong, [SdNext]_sdVars PROVE SdStrong'
  BY Zenon
<1>1. CASE SdNext /\ sdDriver = "rdwr"
  <2>1. ASSUME NEW p \in SdProcs, NEW l PROVE Open(p, l) \/ Close(p, l) => sdDriver' = sdDriver
    BY Zenon DEF Open, Close, OpenStarts, OpenEnds, CloseStarts, CloseEnds
  <2>2. ASSUME NEW p \in SdProcs, NEW l, NEW k PROVE Read(p, l, k) => sdDriver' = sdDriver
    BY Zenon DEF Read, ReadLength, ReadRefused, CopyOutStarts, CopyOutEnds
  <2>4. ASSUME NEW p \in SdProcs, NEW l PROVE Write(p, l) => sdDriver' = sdDriver
    BY Zenon DEF Write, CopyIn, WriteRefused, StoreStarts, StoreEnds
  <2>3. sdDriver' = sdDriver
    BY <1>1, <2>1, <2>2, <2>4, Zenon DEF SdNext, rdwr_open, rdwr_read, rdwr_write, rdwr_close, mutexlock_open,
       mutexlock_read, mutexlock_write, mutexlock_close, spinlock_open, spinlock_read, spinlock_write,
       spinlock_close
  <2> QED BY <1>1, <2>3, Zenon DEF SdStrong
<1>2. CASE SdNext /\ sdDriver # "rdwr"
  <2>1. PICK p \in SdProcs : Open(p, "lock1") \/ Close(p, "lock1") \/ Read(p, StoreLock, CopyLock)
                             \/ Write(p, StoreLock)
    BY <1>2, Zenon DEF SdNext, rdwr_open, rdwr_read, rdwr_write, rdwr_close, mutexlock_open, mutexlock_read,
                mutexlock_write, mutexlock_close, spinlock_open, spinlock_read, spinlock_write,
                spinlock_close, CopyLock, StoreLock
  <2> QED BY <1>2, <2>1, OpenInv, CloseInv, ReadInv, WriteInv, Zenon
<1>3. CASE UNCHANGED sdVars
  BY <1>3 DEF sdVars, SdStrong, SdTypes, SdExclusive, OpenFiles, IsOpen, CopyLock, StoreLock
<1> QED BY <1>1, <1>2, <1>3, Zenon

(***************************************************************************)
(* For any number of processes, the drivers with a mutex and with a         *)
(* spinlock count their open files and the bytes they moved exactly, and    *)
(* with the one mutex no process copies the secret out while another one    *)
(* stores it.                                                               *)
(***************************************************************************)
THEOREM SecretsCounted == SdSpec => []SdInv
<1>1. SdStrong => SdInv
  <2> SUFFICES ASSUME SdStrong PROVE SdInv
    BY Zenon
  <2>1. SdOpenFilesCounted /\ SdStatsExact
    BY Zenon DEF SdStrong, SdOpenFilesCounted, SdStatsExact, OpenFiles
  <2>2. SdCopiesExclude
    BY Zenon DEF SdStrong, SdExclusive, SdCopiesExclude, CopyLock, StoreLock
  <2> QED BY <2>1, <2>2, Zenon DEF SdInv
<1> QED BY <1>1, SdInitInv, SdStep, PTL DEF SdSpec

-----------------------------------------------------------------------------
(* WlanDriver.  At most one of the callback, the queue and the running routine has
   the scan that the driver holds, and an unloading that begins when the device is at
   rest stays ahead of every work item. *)

(* the scan routine may still run *)
ScanAlive == unload \in {"no", "connect", "disconnect"}

(* the request and the work item travel together, from wi_scan() to the routine *)
OneScan ==
  ScanAlive =>
    /\ scan_request # WlNULL => scan_request = rdev_scan_req /\ ~done
    /\ "scan" \in pending \cup running => scan_request # WlNULL /\ call # [op |-> "scan", at |-> "schedule"]
    /\ ~("scan" \in pending /\ "scan" \in running)
    /\ call = [op |-> "scan", at |-> "schedule"] => scan_request # WlNULL
    /\ call = [op |-> "scan", at |-> "sem"] => scan_request = WlNULL /\ rdev_scan_req # WlNULL /\ ~done

(* what virtual_wifi_exit() has cancelled does not come back *)
Cancelled ==
  /\ unload # "no" => call = WlNone /\ conn = "idle" /\ "connect" \notin pending \cup running
  /\ unload \notin {"no", "connect"} => "disconnect" \notin pending \cup running
  /\ ~ScanAlive => "scan" \notin pending \cup running

WlStrong == WlTypeOK /\ OneScan /\ Cancelled

-----------------------------------------------------------------------------
(* virtual_wifi_init() leaves nothing queued and nothing requested. *)
LEMMA WlInitInv == WlInit => WlStrong
<1> SUFFICES ASSUME WlInit PROVE WlStrong
  BY Zenon
<1>1. WlTypeOK
  BY Zenon DEF WlInit, WlTypeOK, UnloadSteps
<1>2. OneScan
  BY Zenon DEF WlInit, OneScan, WlNone
<1>3. Cancelled
  BY Zenon DEF WlInit, Cancelled, ScanAlive
<1> QED BY <1>1, <1>2, <1>3, Zenon DEF WlStrong

(* cfg80211 calls an operation. *)
LEMMA UserInv ==
  ASSUME Quiet, WlStrong, UserScan \/ UserConnect \/ UserDisconnect PROVE WlStrong'
<1> USE WlanAssumption DEF WlStrong, UserMayCall, wictx, works
<1>1. CASE UserScan
  BY <1>1, ZenonT(30) DEF UserScan, WlTypeOK, OneScan, Cancelled, ScanAlive, WlNone, Works
<1>2. CASE UserConnect
  BY <1>2, ZenonT(30) DEF UserConnect, WlTypeOK, OneScan, Cancelled, ScanAlive, WlNone, Works
<1>3. CASE UserDisconnect
  BY <1>3, Zenon DEF UserDisconnect, WlTypeOK, OneScan, Cancelled, ScanAlive, WlNone, Works
<1> QED BY <1>1, <1>2, <1>3, Zenon

(* A step of a callback. *)
LEMMA CallbackInv ==
  ASSUME Quiet, WlStrong, Callback PROVE WlStrong'
<1> USE WlanAssumption DEF WlStrong, wictx, works, cfg80211
<1>0. call # WlNone => /\ call.op \in Works \cup {"unregister"} /\ call.at \in {"sem", "schedule"}
                       /\ call = [op |-> call.op, at |-> call.at]
  BY Zenon DEF WlTypeOK
<1>1. CASE WlInterrupted
  <2>1. call # WlNone /\ (call.op = "scan" => call = [op |-> "scan", at |-> "sem"]) /\ unload = "no"
    BY <1>0, <1>1 DEF WlInterrupted, WlNone, Cancelled
  <2>2. WlTypeOK'
    BY <1>1, <2>1, ZenonT(30) DEF WlInterrupted, WlReturns, WlTypeOK, OneScan, ScanAlive
  <2>3. OneScan'
    BY <1>1, <2>1, Zenon DEF WlInterrupted, WlReturns, WlTypeOK, OneScan, ScanAlive, WlNone
  <2>4. Cancelled'
    BY <1>1, <2>1, Zenon DEF WlInterrupted, WlReturns, Cancelled, ScanAlive
  <2> QED BY <2>2, <2>3, <2>4, Zenon
<1>2. CASE wi_scan
  BY <1>2, Zenon DEF wi_scan, WlReturns, WlTypeOK, OneScan, Cancelled, ScanAlive, WlNone, Works
<1>3. CASE wi_connect
  BY <1>3, Zenon DEF wi_connect, WlTypeOK, OneScan, Cancelled, ScanAlive, WlNone, Works, Ssids
<1>4. CASE wi_disconnect
  <2>1. call # WlNone /\ unload = "no" /\ call.op \in {"disconnect", "unregister"}
        /\ call' = [op |-> call.op, at |-> "schedule"]
    BY <1>0, <1>4 DEF wi_disconnect, WlNone, Cancelled
  <2>2. WlTypeOK'
    BY <1>4, <2>1, Zenon DEF wi_disconnect, WlTypeOK, Works
  <2>3. OneScan'
    BY <1>4, <2>1 DEF wi_disconnect, OneScan, ScanAlive
  <2>4. Cancelled'
    BY <1>4, <2>1, Zenon DEF wi_disconnect, Cancelled, ScanAlive
  <2> QED BY <2>2, <2>3, <2>4, Zenon
<1>5. CASE schedule_work
  <2>1. /\ call # WlNone /\ unload = "no" /\ call.op \in Works \cup {"unregister"}
        /\ call.op = "scan" => call = [op |-> "scan", at |-> "schedule"]
        /\ WorkOf(call.op) \in Works /\ (WorkOf(call.op) = "scan" => call.op = "scan")
    BY <1>0, <1>5 DEF schedule_work, WlNone, Cancelled, WorkOf, Works
  <2>2. call.op = "scan" => "scan" \notin pending /\ "scan" \notin running /\ scan_request # WlNULL
    BY <2>1, Zenon DEF OneScan, ScanAlive
  <2>3. rdev_scan_req' = rdev_scan_req
    <3>1. call.op = "scan" => WorkOf(call.op) \notin pending
      BY <2>2, Zenon DEF WorkOf
    <3> QED BY <1>5, <3>1, Zenon DEF schedule_work, WlReturns
  <2>4. WlTypeOK'
    BY <1>5, <2>1, <2>3, ZenonT(30) DEF schedule_work, WlReturns, WlTypeOK
  <2>5. OneScan'
    BY <1>5, <2>1, <2>2, <2>3, Zenon DEF schedule_work, WlReturns, OneScan, ScanAlive, WlNone
  <2>6. Cancelled'
    BY <1>5, <2>1, Zenon DEF schedule_work, WlReturns, Cancelled, ScanAlive
  <2> QED BY <2>4, <2>5, <2>6, Zenon
<1> QED BY <1>1, <1>2, <1>3, <1>4, <1>5, Zenon DEF Callback

(* The work queue and cfg80211's own work. *)
LEMMA WorkInv ==
  ASSUME Quiet, WlStrong, (\E w \in Works : StartWork(w)) \/ Routine \/ ScanDone PROVE WlStrong'
<1> USE WlanAssumption DEF WlStrong, wictx, works, cfg80211
<1>1. ASSUME NEW w \in Works, StartWork(w) PROVE WlStrong'
  BY <1>1, ZenonT(30) DEF StartWork, WlTypeOK, OneScan, Cancelled, ScanAlive, WlNone, Works
<1>2. CASE ScanSleep
  BY <1>2, Zenon DEF ScanSleep, WlTypeOK, OneScan, Cancelled, ScanAlive
<1>3. CASE wlanidt_scan_routine
  BY <1>3, ZenonT(30) DEF wlanidt_scan_routine, WlTypeOK, OneScan, Cancelled, ScanAlive, WlNone, Works
<1>4. CASE wlanidt_connect_routine
  BY <1>4, ZenonT(30) DEF wlanidt_connect_routine, WlTypeOK, OneScan, Cancelled, ScanAlive, WlNone, Works, Ssids
<1>5. CASE wlanidt_disconnect_routine
  BY <1>5, ZenonT(30) DEF wlanidt_disconnect_routine, WlTypeOK, OneScan, Cancelled, ScanAlive, WlNone, Works
<1>6. CASE ScanDone
  BY <1>6, Zenon DEF ScanDone, WlTypeOK, OneScan, Cancelled, ScanAlive, WlNone
<1> QED BY <1>1, <1>2, <1>3, <1>4, <1>5, <1>6, Zenon DEF Routine

(* A step of virtual_wifi_exit(). *)
LEMMA ExitInv ==
  ASSUME Quiet, WlStrong, virtual_wifi_exit PROVE WlStrong'
<1> USE WlanAssumption DEF WlStrong, wictx, works, cfg80211
<1>1. ASSUME NEW w \in Works, NEW after \in UnloadSteps, cancel_work_sync(w, after),
             \/ unload = "no" /\ w = "connect" /\ after = "connect" /\ call = WlNone /\ conn = "idle"
             \/ unload = "connect" /\ w = "disconnect" /\ after = "disconnect"
             \/ unload = "disconnect" /\ w = "scan" /\ after = "scan"
      PROVE  WlStrong'
  BY <1>1, ZenonT(30) DEF cancel_work_sync, WlTypeOK, OneScan, Cancelled, ScanAlive, WlNone, Works, UnloadSteps
<1>2. CASE unload = "scan" /\ unregister_netdev
  BY <1>2, ZenonT(30) DEF unregister_netdev, WlTypeOK, OneScan, Cancelled, ScanAlive, UnloadSteps
<1>3. CASE unload = "ndev" /\ wiphy_unregister
  BY <1>3, ZenonT(30) DEF wiphy_unregister, WlTypeOK, OneScan, Cancelled, ScanAlive, UnloadSteps
<1>4. CASE unload = "wiphy" /\ WlFree
  BY <1>4, Zenon DEF WlFree, WlTypeOK, OneScan, Cancelled, ScanAlive, UnloadSteps
<1> QED BY <1>1, <1>2, <1>3, <1>4, Zenon DEF virtual_wifi_exit, Works, UnloadSteps

(* Every step of the driver, of cfg80211 and of the work queue. *)
LEMMA WlStepInv == ASSUME Quiet PROVE WlStrong /\ [WlNext]_wlVars => WlStrong'
<1> SUFFICES ASSUME WlStrong, [WlNext]_wlVars PROVE WlStrong'
  BY Zenon
<1>1. CASE UNCHANGED wlVars
  BY <1>1, ZenonT(30) DEF wlVars, wictx, works, cfg80211, WlStrong, WlTypeOK, OneScan, Cancelled, ScanAlive
<1> QED BY <1>1, UserInv, CallbackInv, WorkInv, ExitInv, Zenon DEF WlNext

-----------------------------------------------------------------------------
(* wlanidt_scan_routine() reports a request that cfg80211 still holds, once, and when
   virtual_wifi_exit() frees the context of a device at rest no work item is queued or
   running, whatever the requests and in every order of callbacks and routines. *)
THEOREM QuietDriver == ASSUME Quiet PROVE WlSpec => []WlInv
<1>1. WlStrong => WlInv
  BY Zenon DEF WlStrong, WlInv, ScanRequestValid, NoWorkAfterFree, OneScan, Cancelled, ScanAlive, WlTypeOK, Works
<1> QED BY <1>1, WlInitInv, WlStepInv, PTL DEF WlSpec

=============================================================================
