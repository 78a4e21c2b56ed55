------------------------------- MODULE Frames -------------------------------
(***************************************************************************)
(* network_hw: building a frame around data in send, and taking it apart   *)
(* again in receive.  Between the two lies a link that may damage a frame  *)
(* (the gap in test.c).  Lengths are in bytes.                             *)
(***************************************************************************)
EXTENDS Integers, Sequences

CONSTANTS Nothing,    \* no value
          Hosts,      \* records of an ip, a port and a mac
          BufferSize, \* what send allocates for a frame: 1518
          Data,       \* bound: what is sent, sequences of bytes
          MaxSizes,   \* bound: the sizes of receivers' buffers
          MaxFrames   \* bound: how many frames are sent

W == 65536

FrameAssumption ==
  /\ Hosts \subseteq [ip : Nat, port : Nat, mac : Nat] /\ Data \subseteq Seq(Nat)
  /\ BufferSize \in Nat /\ BufferSize < W
  /\ MaxSizes \subseteq Nat /\ MaxFrames \in Nat

VARIABLES packet_id,  \* the next packet's number
          link,       \* the frames on their way, each with the data it was made for
          last,       \* the last call of receive, with all that bears on it
  overrun     \* send has written past its buffer; what happens then is undefined

vars == <<packet_id, link, last, overrun>>

UDP_TYPE == 17

(* The sum of 16-bit words is kept in 16 bits itself: carries are dropped  *)
(* and the loop that would fold them back never runs.  The field that      *)
(* holds a checksum already is taken out again.                            *)
make_check_sum(sum, check_sum) == (W - 1) - ((sum - check_sum) % W)

is_check_sum_completeWhole(sum, target) ==   \* fault: the field stays in the sum
  make_check_sum(sum, 0) = target

is_check_sum_complete(sum, target) == make_check_sum(sum, target) = target

(* The sum of 16-bit words, the lower byte first; an odd last byte is a    *)
(* word of its own.                                                        *)
Sum(bytes) ==
  LET sum[i \in 0..Len(bytes)] ==
        IF i = 0 THEN 0 ELSE sum[i - 1] + bytes[i] * IF i % 2 = 1 THEN 1 ELSE 256
  IN  sum[Len(bytes)]

IpSum(ip) ==
  (4 * 16 + 20) + ip.total_length + ip.packet_id + (64 + 256 * ip.type) + ip.check_sum
    + ip.src_ip + ip.dest_ip

UdpSum(udp, data) ==
  udp.dest_port + udp.src_port + udp.length + udp.check_sum + Sum(data)

(* Any difference of one field shows in 32 bits of CRC, and so does a      *)
(* length that takes the sum over other bytes than were sent.              *)
computeCRC(ip, udp, data, length) == <<ip, udp, data, length>>

-----------------------------------------------------------------------------
(* The sender. *)

FrameLength == 14
IpLength == 20
UdpLength == 8
CrcLength == 4

(* The length becomes an unsigned short, and that much data is summed. *)
parse_to_udp(dest, src, size, data) ==
  LET length == size % W
      udp == [dest_port |-> dest, src_port |-> src, length |-> length, check_sum |-> 0]
  IN  [udp EXCEPT !.check_sum = make_check_sum(UdpSum(udp, SubSeq(data, 1, length)), 0)]

parse_to_ip(dest, src, total_length) ==
  LET ip == [dest_ip |-> dest, src_ip |-> src, type |-> UDP_TYPE,
             packet_id |-> packet_id % W, total_length |-> total_length % W, check_sum |-> 0]
  IN  [ip EXCEPT !.check_sum = make_check_sum(IpSum(ip), 0)]

parse_to_frame(dest, src, length) ==
  [dest_mac |-> dest, src_mac |-> src, length |-> length % W]

send(data, dest, src, dest_mac, src_mac) ==
  LET udp == parse_to_udp(dest.port, src.port, Len(data), data)
      ip == parse_to_ip(dest.ip, src.ip, Len(data) + IpLength + UdpLength)
      length == IpLength + UdpLength + Len(data)
  IN  [head |-> parse_to_frame(dest_mac, src_mac, length), ip |-> ip, udp |-> udp,
       data |-> data, crc |-> computeCRC(ip, udp, data, length)]

(* What send copies into its buffer, whatever the size of that. *)
Written(data) == FrameLength + IpLength + UdpLength + Len(data) + CrcLength

-----------------------------------------------------------------------------
(* The receiver.  check_frame turns a frame away when memcmp finds the     *)
(* addresses equal.                                                        *)

check_frame(f, mac) ==
  IF f.head.dest_mac = mac THEN "MAC_NOT_MACTH"
  ELSE IF computeCRC(f.ip, f.udp, f.data, f.head.length) # f.crc THEN "CORRUPT"
  ELSE "SUCCESS"

check_ip(f, ip) ==
  IF f.ip.dest_ip # ip THEN "IP_NOT_MACTH"
  ELSE IF ~is_check_sum_complete(IpSum(f.ip), f.ip.check_sum) THEN "CORRUPT"
  ELSE IF f.ip.type # UDP_TYPE THEN "abort"
  ELSE "SUCCESS"

check_udp(f, port) ==
  IF f.udp.dest_port # port THEN "PORT_NOT_MATCH"
  ELSE IF ~is_check_sum_complete(UdpSum(f.udp, f.data), f.udp.check_sum) THEN "CORRUPT"
  ELSE "SUCCESS"

receive(f, local, local_mac, max_size) ==
  IF check_frame(f, local_mac) # "SUCCESS" THEN check_frame(f, local_mac)
  ELSE IF check_ip(f, local.ip) # "SUCCESS" THEN check_ip(f, local.ip)
  ELSE IF check_udp(f, local.port) # "SUCCESS" THEN check_udp(f, local.port)
  ELSE IF f.udp.length > max_size THEN "BUFF_OVER_FLOW"
  ELSE "SUCCESS"

-----------------------------------------------------------------------------
Macs == {h.mac : h \in Hosts}

Init == packet_id = 0 /\ link = {} /\ last = Nothing /\ overrun = FALSE

Send ==
  \E data \in Data, dest, src \in Hosts, dest_mac \in Macs :
    /\ packet_id < MaxFrames
    /\ packet_id' = packet_id + 1
    /\ LET f == send(data, dest, src, dest_mac, src.mac)
       IN  link' = IF Written(data) <= BufferSize
                   THEN link \cup {[frame |-> f, sent |-> f]} ELSE link
    /\ overrun' = (Written(data) > BufferSize)
    /\ UNCHANGED last

(* The link changes one field of a frame. *)
Damaged(f) ==
  {[f EXCEPT !.ip[x] = (@ + 1) % W] : x \in {"dest_ip", "total_length", "check_sum", "type"}}
    \cup {[f EXCEPT !.udp[x] = (@ + 1) % W] : x \in {"dest_port", "length", "check_sum"}}
    \cup {[f EXCEPT !.data[i] = (@ + 1) % 256] : i \in 1..Len(f.data)}
    \cup {[f EXCEPT !.head.length = (@ + 1) % W], [f EXCEPT !.crc = <<>>]}
    \cup {[f EXCEPT !.head.dest_mac = mac] : mac \in Macs}

Damage ==
  /\ \E l \in link : l.frame = l.sent /\ \E f \in Damaged(l.frame) :
       link' = (link \ {l}) \cup {[l EXCEPT !.frame = f]}
  /\ UNCHANGED <<packet_id, last, overrun>>

(* Any host may get the frame, the one it was sent to or another. *)
Receive ==
  \E l \in link, h \in Hosts, max_size \in MaxSizes :
    LET code == receive(l.frame, h, h.mac, max_size)
    IN  /\ last' = [of |-> l, by |-> h, max_size |-> max_size, code |-> code,
                    data |-> IF code = "SUCCESS" THEN l.frame.data ELSE <<>>]
        /\ link' = link \ {l}
        /\ UNCHANGED <<packet_id, overrun>>

Next == ~overrun /\ (Send \/ Damage \/ Receive)

Spec == Init /\ [][Next]_vars

-----------------------------------------------------------------------------
(* Data for which send has room (1472 bytes) comes out as it went in, at   *)
(* the host and port it was sent to, or not at all; and it does come out   *)
(* of every undamaged frame, although sender and receiver drop the carries *)
(* of the sums (provided it fits the receiver, and the frame names another *)
(* station than the receiver: see check_frame).                            *)
ReceivedAsSent ==
  last # Nothing =>
    LET f == last.of.sent
        fine == /\ last.of.frame = f
                /\ f.ip.dest_ip = last.by.ip /\ f.udp.dest_port = last.by.port
                /\ f.head.dest_mac # last.by.mac
                /\ Len(f.data) <= last.max_size
    IN  /\ fine => last.code = "SUCCESS"
        /\ last.code = "SUCCESS" =>
             /\ last.data = f.data
             /\ f.ip.dest_ip = last.by.ip /\ f.udp.dest_port = last.by.port
             /\ Len(last.data) <= last.max_size
=============================================================================
