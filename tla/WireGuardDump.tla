----------------------------- MODULE WireGuardDump -----------------------------
(***************************************************************************)
(* The output of "wg show <target> dump": how wg prints it (external), the *)
(* interface name that src/src/main.rs puts in front of its lines, and the *)
(* endpoint WireGuard::try_from of src/src/wireguard.rs makes of a line. A *)
(* line is a sequence of columns, a column a text.                         *)
(***************************************************************************)
EXTENDS LabelText

CONSTANTS MaxNumber  \* bound: numbers wg prints, addresses of a peer

Absent == <<"(none)">>

(***************************************************************************)
(* External: wg. The name of the interface is printed for "all" only.      *)
(***************************************************************************)
PrintEndpoint(e) ==
  CASE e.kind = "none" -> Absent
    [] e.kind = "v4" -> <<e.ip, ":", e.port>>
    [] e.kind = "v6" -> <<"[", e.ip, "]", ":", e.port>>
    [] e.kind = "scoped" -> <<"[", e.ip, "%", "eth0", "]", ":", e.port>>
PrintAllowed(nets) ==
  IF nets = <<>> THEN Absent
  ELSE FlattenSeq([n \in DOMAIN nets |->
         (IF n = 1 THEN <<>> ELSE <<",">>) \o <<nets[n][1], "/", nets[n][2]>>])
PrintPeer(p) == << <<p.key>>, Absent, PrintEndpoint(p.endpoint), PrintAllowed(p.allowed),
                   <<Decimal(p.hs)>>, <<Decimal(p.rx)>>, <<Decimal(p.tx)>>, <<"off">> >>
PrintInterface == << <<"private">>, <<"public">>, <<"51820">>, <<"off">> >>

PrintDevice(target, i, peers) ==
  LET name == IF target = "all" THEN << <<i>> >> ELSE <<>>
      own == Filter(peers, LAMBDA p : p.iface = i)
  IN  <<name \o PrintInterface>> \o [n \in DOMAIN own |-> name \o PrintPeer(own[n])]

(***************************************************************************)
(* The exporter.                                                           *)
(***************************************************************************)
Inject(target, lines) ==
  IF target = "all" THEN lines ELSE [n \in DOMAIN lines |-> << <<target>> >> \o lines[n]]

(* Empty columns are dropped before the others are counted.                *)
Columns(line) == Filter(line, LAMBDA column : column # <<>>)
Number(column) == CHOOSE n \in 0 .. MaxNumber : <<Decimal(n)>> = column

(* The zone of a link-local address, which SocketAddr does not parse, is   *)
(* taken out first.                                                        *)
WithoutZone_Keeps(text) == text
WithoutZone(text) ==
  IF Len(text) = 7 /\ text[1] = "[" /\ text[3] = "%"
  THEN SubSeq(text, 1, 2) \o SubSeq(text, 5, 7) ELSE text
IsSocketAddr(text) ==
  \/ Len(text) = 3 /\ text[2] = ":"
  \/ Len(text) = 5 /\ text[1] = "[" /\ text[3] = "]" /\ text[4] = ":"
Ip(addr) == IF Len(addr) = 3 THEN addr[1] ELSE addr[2]
Port(addr) == addr[Len(addr)]

IsLocal(v) == Len(v) = 5
Panics(v) ==
  /\ ~IsLocal(v)
  /\ \/ Len(v) < 9
     \/ v[4] # Absent /\ ~IsSocketAddr(WithoutZone(v[4]))

Endpoint(v) ==
  LET addr == WithoutZone(v[4])
  IN  IF IsLocal(v) THEN [public_key |-> v[2], private_key |-> v[3], local_port |-> v[4]]
      ELSE [public_key |-> v[2][1],
            remote_ip |-> IF v[4] = Absent THEN None ELSE Ip(addr),
            remote_port |-> IF v[4] = Absent THEN None ELSE Port(addr),
            allowed_ips |-> v[5], latest_handshake |-> Number(v[6]),
            received_bytes |-> Number(v[7]), sent_bytes |-> Number(v[8])]
IsRemote(ep) == "allowed_ips" \in DOMAIN ep
===============================================================================
