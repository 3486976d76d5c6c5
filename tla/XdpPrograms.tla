------------------------------ MODULE XdpPrograms ------------------------------
(***************************************************************************)
(* The XDP programs of ebpf-xdp: two that route packets to a device or to  *)
(* an AF_XDP socket, the default program for sockets, one that blocks a    *)
(* TCP port, and one that admits a single UDP port, with the loader that   *)
(* stores the port in its map.                                             *)
(* A packet is a record of the header fields the programs use; hdrs is how *)
(* many of its headers (Ethernet, IP, transport) lie before data_end and   *)
(* have the length they say.                                               *)
(* Ports and checksums are 16 bits wide, and the programs run on           *)
(* little-endian machines.                                                 *)
(***************************************************************************)
EXTENDS Integers, Sequences

CONSTANTS
  XdPrograms,    \* a subset of {"dev", "xsk", "def", "block", "allow"}
  XdAddresses,   \* IP addresses
  XdPorts,       \* destination ports
  XdChecks,      \* checksums
  XdMapIds       \* BPF maps created on the machine

ASSUME XdProgramsAssumption == XdPrograms \subseteq {"dev", "xsk", "def", "block", "allow"}

\* ports and checksums are 16 bits wide
ASSUME XdAssumption == \A n \in XdPorts \cup XdChecks : n \in Nat /\ n < 65536

VARIABLES
  xdProg,
  xdFib,         \* address -> "success", "noneigh" or "fail": what bpf_fib_lookup() says
  xdBound,       \* a socket is bound to the queue
  xdRefcnt,      \* refcnt of the programs for sockets
  xdPkt,         \* the packet that came last, <<>> before the first
  xdOut,         \* what became of it: [action, pkt]
  xdMaps,        \* map id -> whose it is: "ours", "same" (another of the same name) or "other"
  xdStored,      \* map id -> the port stored in it, 0 for none
  xdLoader       \* main() of the loader: [pc, sid, fd, cut]

xdPacket == <<xdPkt, xdOut>>
xdMain == <<xdMaps, xdStored, xdLoader>>
xdEnv == <<xdProg, xdFib, xdBound, xdRefcnt>>
xdVars == <<xdEnv, xdPacket, xdMain>>

ALLOWED_PORT == 9999
BLOCKED_PORT == 9999

Verdict(action, pkt) == [action |-> action, pkt |-> pkt]

-----------------------------------------------------------------------------
(* bpf_fib_lookup(): the neighbour on the way to dst.  Without a route the packet is
   dropped, without a known neighbour it goes up to the kernel. *)
NextHop(dst) == <<"hop", dst>>
Routed(pkt, dst, verdict) ==
  CASE xdFib[dst] = "fail"    -> Verdict("drop", pkt)
    [] xdFib[dst] = "noneigh" -> Verdict("pass", pkt)
    [] xdFib[dst] = "success" -> verdict

(* memcpy() of the addresses the lookup gave *)
ToHop(pkt, dst) == [pkt EXCEPT !.h_dest = NextHop(dst), !.h_source = <<"own", dst>>]
Reflected(pkt) == [pkt EXCEPT !.saddr = pkt.daddr, !.daddr = pkt.saddr]

(* bpf_redirect_map(.., XDP_PASS) *)
ToSocket(pkt) == Verdict(IF xdBound THEN "redirect" ELSE "pass", pkt)

(* xdp_redirect_dev.c *)
dev_icmp(pkt) == Routed(pkt, pkt.saddr, Verdict("redirect", ToHop(Reflected(pkt), pkt.saddr)))
dev_tcp(pkt) ==
  IF pkt.hdrs < 3 THEN Verdict("pass", pkt) ELSE Routed(pkt, pkt.daddr, Verdict("redirect", ToHop(pkt, pkt.daddr)))
dev_udp(pkt) ==
  IF pkt.hdrs < 3 THEN Verdict("pass", pkt) ELSE Routed(pkt, pkt.daddr, Verdict("redirect", ToHop(pkt, pkt.daddr)))

xdp_sock2_prog(pkt) ==
  CASE pkt.hdrs < 1 \/ pkt.h_proto # "ip" \/ pkt.hdrs < 2 -> Verdict("pass", pkt)
    [] OTHER -> CASE pkt.protocol = "icmp" -> dev_icmp(pkt)
                  [] pkt.protocol = "tcp"  -> dev_tcp(pkt)
                  [] pkt.protocol = "udp"  -> dev_udp(pkt)
                  [] OTHER -> Verdict("pass", pkt)

(* xdp_redirect_xsk.c; a packet of another protocol goes to the socket as it is *)
xsk_icmp(pkt) == Routed(pkt, pkt.saddr, ToSocket(ToHop(Reflected(pkt), pkt.saddr)))
xsk_tcp_RewritesFirst(pkt) ==
  Routed(ToHop(pkt, pkt.daddr), pkt.daddr, ToSocket(ToHop(pkt, pkt.daddr)))
xsk_tcp(pkt) == Routed(pkt, pkt.daddr, ToSocket(ToHop(pkt, pkt.daddr)))
xsk_udp(pkt) == Routed(pkt, pkt.daddr, ToSocket(ToHop(pkt, pkt.daddr)))

xdp_def_prog(pkt) ==
  CASE xdRefcnt = 0 \/ pkt.hdrs < 1 \/ pkt.h_proto # "ip" \/ pkt.hdrs < 2 -> Verdict("pass", pkt)
    [] OTHER -> CASE pkt.protocol = "icmp" -> xsk_icmp(pkt)
                  [] pkt.protocol = "tcp"  -> xsk_tcp(pkt)
                  [] pkt.protocol = "udp"  -> xsk_udp(pkt)
                  [] OTHER -> ToSocket(pkt)

(* _xsk_def_xdp_prog.c: every IPv4 packet is routed by its destination *)
xsk_def_prog(pkt) ==
  IF xdRefcnt = 0 \/ pkt.hdrs < 1 \/ pkt.h_proto # "ip" \/ pkt.hdrs < 2
  THEN Verdict("pass", pkt)
  ELSE Routed(pkt, pkt.daddr, ToSocket(ToHop(pkt, pkt.daddr)))

-----------------------------------------------------------------------------
(* xdp_packet_block.c.  bpf_htons() swaps the bytes. *)
Swap(w) == (w % 256) * 256 + w \div 256
(* check += bpf_htons(1), and again when it has become 0 *)
CheckPlusOne(check) ==
  LET add(c) == Swap((Swap(c) + Swap(1)) % 65536)
  IN IF add(check) = 0 THEN add(0) ELSE add(check)

block_udp(pkt) ==
  IF pkt.hdrs < 3 THEN Verdict("aborted", pkt)
  ELSE Verdict("pass", [pkt EXCEPT !.dest = (pkt.dest - 1) % 65536, !.check = CheckPlusOne(pkt.check)])

(* dest is swapped for the comparison, and swapped back in a packet that passes *)
block_tcp(pkt) ==
  CASE pkt.hdrs < 3 -> Verdict("aborted", pkt)
    [] pkt.hdrs = 3 /\ pkt.dest = BLOCKED_PORT ->
         Verdict("drop", [pkt EXCEPT !.dest = Swap(pkt.dest), !.check = CheckPlusOne(pkt.check)])
    [] OTHER -> Verdict("pass", [pkt EXCEPT !.check = CheckPlusOne(pkt.check)])

(* an IP header that does not fit gives no protocol *)
xdp_block_port_func(pkt) ==
  CASE pkt.hdrs < 1 -> Verdict("aborted", pkt)
    [] pkt.hdrs < 2 \/ pkt.h_proto \notin {"ip", "ipv6"} -> Verdict("pass", pkt)
    [] OTHER -> CASE pkt.protocol = "udp" -> block_udp(pkt)
                  [] pkt.protocol = "tcp" -> block_tcp(pkt)
                  [] OTHER -> Verdict("pass", pkt)

-----------------------------------------------------------------------------
(* xdp_map_allow.c: the port is read from the map at every packet *)
Ours == {id \in DOMAIN xdMaps : xdMaps[id] = "ours"}
StoredPort == IF \E id \in Ours : xdStored[id] # 0 THEN xdStored[CHOOSE id \in Ours : TRUE] ELSE 0

allowed_addr_prog(pkt) ==
  CASE pkt.hdrs < 1 -> Verdict("drop", pkt)
    [] pkt.hdrs >= 1 /\ pkt.h_proto # "ip" -> Verdict("pass", pkt)
    [] OTHER -> Verdict(IF pkt.hdrs = 3 /\ StoredPort # 0 /\ pkt.protocol = "udp" /\ pkt.dest = StoredPort
                        THEN "pass" ELSE "drop", pkt)

(* main() of the loader.  The program and its map are there from the attachment on *)
Attached == xdLoader.pc \notin {"start", "refused", "done"}

LoaderAttach ==
  /\ xdLoader.pc = "start"
  /\ \/ /\ xdLoader' = [xdLoader EXCEPT !.pc = "scan"]
        /\ xdMaps' = Append(xdMaps, "ours") /\ xdStored' = Append(xdStored, 0)
     \/ xdLoader' = [xdLoader EXCEPT !.pc = "refused"] /\ UNCHANGED <<xdMaps, xdStored>>

(* bpf_map_get_next_id() from the last id on; the last map of the name wins.  A map
   that cannot be asked for its name cuts the scan short. *)
ScanMaps ==
  /\ xdLoader.pc = "scan"
  /\ IF xdLoader.sid = Len(xdMaps) THEN xdLoader' = [xdLoader EXCEPT !.pc = "update"]
     ELSE LET mid == xdLoader.sid + 1 IN
          \/ xdLoader' = [xdLoader EXCEPT !.sid = mid, !.fd = IF xdMaps[mid] \in {"ours", "same"} THEN mid ELSE @]
          \/ xdLoader' = [xdLoader EXCEPT !.pc = "update", !.cut = TRUE]
  /\ UNCHANGED <<xdMaps, xdStored>>

(* without a map the update fails, and main() returns and leaves the program attached *)
UpdateMap ==
  /\ xdLoader.pc = "update"
  /\ IF xdLoader.fd = 0 THEN xdLoader' = [xdLoader EXCEPT !.pc = "left"] /\ UNCHANGED xdStored
     ELSE /\ xdStored' = [xdStored EXCEPT ![xdLoader.fd] = ALLOWED_PORT]
          /\ xdLoader' = [xdLoader EXCEPT !.pc = "sleep"]
  /\ UNCHANGED xdMaps

remove_xdp_program ==
  /\ xdLoader.pc = "sleep" /\ xdLoader' = [xdLoader EXCEPT !.pc = "done"] /\ UNCHANGED <<xdMaps, xdStored>>

Loader ==
  /\ xdProg = "allow" /\ (LoaderAttach \/ ScanMaps \/ UpdateMap \/ remove_xdp_program)
  /\ UNCHANGED <<xdEnv, xdPacket>>

(* external: other programs create maps, one of them another instance of this one *)
MapCreated ==
  /\ xdProg = "allow" /\ Len(xdMaps) < XdMapIds
  /\ \E name \in {"same", "other"} : xdMaps' = Append(xdMaps, name)
  /\ xdStored' = Append(xdStored, 0) /\ UNCHANGED <<xdLoader, xdEnv, xdPacket>>

-----------------------------------------------------------------------------
Packets ==
  [hdrs : 0 .. 3, h_proto : {"ip", "ipv6", "other"}, protocol : {"icmp", "tcp", "udp", "other"},
   saddr : XdAddresses, daddr : XdAddresses, dest : XdPorts, check : XdChecks,
   h_dest : {<<"own", 0>>}, h_source : {<<"hop", 0>>}]

(* the fields that the program does not look at have one value *)
Sample ==
  {pkt \in Packets :
     /\ xdProg # "block" => \A c \in XdChecks : pkt.check <= c
     /\ xdProg \notin {"block", "allow"} => \A n \in XdPorts : pkt.dest <= n
     /\ xdProg \in {"block", "allow"} => \A a \in XdAddresses : pkt.saddr <= a /\ pkt.daddr <= a}

Handled(pkt) ==
  CASE xdProg = "dev"   -> xdp_sock2_prog(pkt)
    [] xdProg = "xsk"   -> xdp_def_prog(pkt)
    [] xdProg = "def"   -> xsk_def_prog(pkt)
    [] xdProg = "block" -> xdp_block_port_func(pkt)
    [] xdProg = "allow" -> allowed_addr_prog(pkt)

(* a packet is handled by the program that is attached; the programs remember none,
   so one packet per behaviour stands for each of many *)
PacketComes ==
  /\ xdPkt = <<>> /\ (xdProg = "allow" => Attached)
  /\ \E pkt \in Sample : xdPkt' = <<pkt>> /\ xdOut' = <<Handled(pkt)>>
  /\ UNCHANGED <<xdEnv, xdMain>>

XdInit ==
  /\ xdProg \in XdPrograms
  /\ IF xdProg \in {"dev", "xsk", "def"} THEN xdFib \in [XdAddresses -> {"success", "noneigh", "fail"}]
                                         ELSE xdFib = [a \in XdAddresses |-> "fail"]
  /\ xdBound \in BOOLEAN /\ xdRefcnt \in {0, 1}
  /\ xdProg \notin {"xsk", "def"} => xdBound /\ xdRefcnt = 1
  /\ xdPkt = <<>> /\ xdOut = <<>>
  /\ xdMaps = <<>> /\ xdStored = <<>> /\ xdLoader = [pc |-> "start", sid |-> 0, fd |-> 0, cut |-> FALSE]

XdNext == PacketComes \/ Loader \/ MapCreated
XdSpec == XdInit /\ [][XdNext]_xdVars

-----------------------------------------------------------------------------
(* A packet that a routing program redirects is on its way to where its IP header
   says: it carries the link address of the neighbour towards its destination, which
   is the sender if it is an echo and the old destination otherwise. *)
XdSentToNextHop ==
  xdPkt # <<>> /\ xdOut[1].action = "redirect" /\ (xdProg = "xsk" => xdPkt[1].protocol # "other") =>
    LET in == xdPkt[1]  out == xdOut[1].pkt
        echo == xdProg # "def" /\ in.protocol = "icmp"
    IN /\ xdFib[out.daddr] = "success" /\ out.h_dest = NextHop(out.daddr)
       /\ out.daddr = (IF echo THEN in.saddr ELSE in.daddr)

(* The kernel gets a packet as it was received: a packet is changed only if its route
   was found, and then it goes to the kernel only if no socket is bound. *)
XdPassedAsReceived ==
  xdPkt # <<>> /\ xdProg \in {"dev", "xsk", "def"} /\ xdOut[1].action \in {"pass", "drop"} =>
    xdOut[1].pkt = xdPkt[1] \/ (xdProg # "dev" /\ ~xdBound /\ xdFib[xdOut[1].pkt.daddr] = "success")

(* A checksum stays valid when the ones' complement sum of the packet's words stays the
   same.  With its UDP port lowered by xdp_block_port_func() a packet is valid again
   unless the low byte of the checksum was 0xFF: "check += bpf_htons(1)" then loses the
   carry that the update of RFC 1071 adds back. *)
XdChecksumFollowsPort ==
  xdPkt # <<>> /\ xdProg = "block" /\ xdPkt[1].hdrs = 3 /\ xdPkt[1].h_proto # "other"
  /\ xdPkt[1].protocol = "udp" /\ xdPkt[1].dest > 0 =>
    LET in == xdPkt[1]  out == xdOut[1].pkt
    IN (out.dest + out.check - in.dest - in.check) % 65535 = 0 <=> in.check % 256 # 255

(* While the filter is attached, an IPv4 packet reaches the kernel only if it is a
   whole UDP packet to the port the loader stored, and before the port is stored none
   does. *)
XdOnlyAllowedPort ==
  xdPkt # <<>> /\ xdProg = "allow" /\ xdPkt[1].h_proto = "ip" /\ xdPkt[1].hdrs > 0 /\ xdOut[1].action = "pass" =>
    /\ xdPkt[1].hdrs = 3 /\ xdPkt[1].protocol = "udp" /\ xdPkt[1].dest = ALLOWED_PORT
    /\ xdLoader.pc \in {"sleep", "done"}

(* The loader finds its map by its name and stores the port in the right one, although
   an older instance has a map of the same name: ids grow, and the last one wins.  It
   needs that the scan reaches the end and that no newer instance has made its map. *)
XdPortInOwnMap ==
  xdLoader.pc = "sleep" /\ ~xdLoader.cut
  /\ (\A id \in Ours : \A k \in DOMAIN xdMaps : k > id => xdMaps[k] # "same") => StoredPort = ALLOWED_PORT

(* What becomes of a packet agrees with its headers, the routes, the sockets and the
   maps, for every program and in every state of the loader. *)
XdInv ==
  /\ XdSentToNextHop
  /\ XdPassedAsReceived
  /\ XdChecksumFollowsPort
  /\ XdOnlyAllowedPort
  /\ XdPortInOwnMap
==============================================================================
