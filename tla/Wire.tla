-------------------------------- MODULE Wire --------------------------------
(***************************************************************************)
(* The header of a Viscous packet and its optional headers on the wire     *)
(* (Packet.cc, Packet.h), and the checksum of the UDP datagram around it   *)
(* (SendThroughInterface.cc).  A datagram is a sequence of bytes; a byte   *)
(* has ByteCnt values and two halves of Nibble values each.  Fields keep   *)
(* their number of bytes; their values are numbers.                        *)
(***************************************************************************)
EXTENDS Naturals, Sequences, FiniteSets, SequencesExt

CONSTANTS Nibble,      \* values of half a byte (16)
          BufLen       \* room for an encoded packet (MY_UDP_PKT_SIZE less IP and UDP)

ASSUME WireAssumption == Nibble \in Nat /\ Nibble > 1 /\ BufLen \in Nat

ByteCnt == Nibble * Nibble
HeaderSize == 28            \* PACKET_HEADER_SIZE
StructSize == 32            \* sizeof(PacketHeader), what encodeHeader asks for
Failed == <<>>              \* NULL, or a length of 0

\* How many values k bytes have.
Weight[k \in Nat] == IF k = 0 THEN 1 ELSE ByteCnt * Weight[k - 1]

\* WRITE_INT_n and READ_INT_n: n bytes in network order.
Put(v, n) == [i \in 1 .. n |-> (v \div Weight[n - i]) % ByteCnt]
Get(data, at, n) ==
  LET read[k \in 0 .. n] == IF k = 0 THEN 0 ELSE ByteCnt * read[k - 1] + data[at + k - 1]
  IN read[n]

-----------------------------------------------------------------------------
(* Optional headers: a type byte, a byte that is never set, the length, and  *)
(* the fields, each with its width and the place where it begins.  A READ    *)
(* header lists the receive status of any number of flows.                   *)

HeaderType == <<"ACK", "IP", "NONCE", "CHANGE", "READ">>
TypeNo(t) == CHOOSE i \in DOMAIN HeaderType : HeaderType[i] = t
Widths == [ACK |-> <<2, 2>>, IP |-> <<1, 1, 4>>, NONCE |-> <<8>>, CHANGE |-> <<1, 1>>]
Places == [ACK |-> <<4, 6>>, IP |-> <<4, 5, 6>>, NONCE |-> <<4>>, CHANGE |-> <<4, 5>>]
Sizes == [ACK |-> 8, IP |-> 10, NONCE |-> 12, CHANGE |-> 6]

\* PacketOptionalAbstractHeader::len and PacketReadHeader::len
OptLen(o) == IF o.type = "READ" THEN 6 + 4 * Len(o.info) ELSE Sizes[o.type]

EncodeFields(o) ==
  IF o.type = "READ"
    THEN Put(Len(o.info), 2)
         \o FlattenSeq([i \in DOMAIN o.info |-> Put(o.info[i][1], 2) \o Put(o.info[i][2], 2)])
    ELSE FlattenSeq([i \in DOMAIN o.info |-> Put(o.info[i], Widths[o.type][i])])

EncodeOptionalHeader(o) == <<TypeNo(o.type), 0>> \o Put(OptLen(o), 2) \o EncodeFields(o)

\* addInfo puts each flow in front of the list.
DecodeInfo(data, at) ==
  Reverse([i \in 1 .. Get(data, at + 4, 2) |->
             <<Get(data, at + 2 + 4 * i, 2), Get(data, at + 4 + 4 * i, 2)>>])

DecodeOptionalHeader(data, at) ==
  LET t == HeaderType[data[at]] IN
  [type |-> t,
   info |-> IF t = "READ" THEN DecodeInfo(data, at)
            ELSE [i \in DOMAIN Widths[t] |-> Get(data, at + Places[t][i], Widths[t][i])]]

-----------------------------------------------------------------------------
\* encodeHeader.  Mutant of OHLen: the number of bytes instead of headers.
OHLenBytes(pkt) ==
  Len(FlattenSeq([i \in DOMAIN pkt.opt |-> EncodeOptionalHeader(pkt.opt[i])])) % Nibble

OHLen(pkt) == Len(pkt.opt) % Nibble

\* The 16-bit fields between the interfaces and the time stamp, in their order.
Words(pkt) == <<pkt.flag, pkt.seqNo, pkt.ackNo, pkt.window, pkt.fingerPrint, pkt.flowId,
                pkt.flowSeqNo, pkt.origAckNo, pkt.padding>>

EncodeMandatory(pkt) ==
  <<((pkt.version % Nibble) * Nibble + OHLen(pkt)) % ByteCnt,
    ((pkt.ifcsrc % Nibble) * Nibble) + (pkt.ifcdst % Nibble)>>
  \o FlattenSeq([i \in 1 .. 9 |-> Put(Words(pkt)[i], 2)])
  \o Put(pkt.sentTS, 8)

EncodeHeader(pkt) ==
  IF BufLen < StructSize THEN Failed
  ELSE EncodeMandatory(pkt)
       \o FlattenSeq([i \in DOMAIN pkt.opt |-> EncodeOptionalHeader(pkt.opt[i])])
       \o pkt.data

\* decodeHeader: every optional header goes in front of the list; what is left is
\* data.
DecodeNext(data, before) ==
  LET o == DecodeOptionalHeader(data, before.at)
  IN [at |-> before.at + OptLen(o), opt |-> <<o>> \o before.opt]

DecodeOptions(data, cnt) ==
  LET after[n \in 0 .. cnt] ==
        IF n = 0 THEN [at |-> HeaderSize + 1, opt |-> <<>>] ELSE DecodeNext(data, after[n - 1])
  IN after[cnt]

DecodeHeader(data) ==
  IF Len(data) < HeaderSize THEN Failed
  ELSE LET opts == DecodeOptions(data, data[1] % Nibble)
       IN [version |-> data[1] \div Nibble, ifcsrc |-> data[2] \div Nibble,
           ifcdst |-> data[2] % Nibble, flag |-> Get(data, 3, 2), seqNo |-> Get(data, 5, 2),
           ackNo |-> Get(data, 7, 2), window |-> Get(data, 9, 2),
           fingerPrint |-> Get(data, 11, 2), flowId |-> Get(data, 13, 2),
           flowSeqNo |-> Get(data, 15, 2), origAckNo |-> Get(data, 17, 2),
           padding |-> Get(data, 19, 2), sentTS |-> Get(data, 21, 8),
           opt |-> opts.opt, data |-> SubSeq(data, opts.at, Len(data))]

-----------------------------------------------------------------------------
(* The dissector for Wireshark (mpudp.lua), a second decoder.                *)

FlagName == <<"ACK", "DAT", "SYN", "FFN", "CFN", "FAC", "CHS", "CSN", "CTR", "CHF", "IFC">>
FlagBit(f) == 2 ^ ((CHOOSE i \in DOMAIN FlagName : FlagName[i] = f) - 1)

\* printLog goes through the bits from the lowest.
ShownFlags(flag) == {FlagName[i] : i \in {j \in DOMAIN FlagName : (flag \div 2 ^ (j - 1)) % 2 = 1}}

\* showOptionalHeaders; a type it does not know has no fields.
ShownOption(data, at) ==
  CASE data[at] = 1 -> <<Get(data, at + 4, 2), Get(data, at + 6, 2)>>
    [] data[at] = 2 -> <<Get(data, at + 4, 1), Get(data, at + 6, 4)>>
    [] data[at] = 3 -> <<Get(data, at + 4, 8)>>
    [] data[at] = 5 -> [i \in 1 .. Get(data, at + 4, 2) |->
                          <<Get(data, at + 2 + 4 * i, 2), Get(data, at + 4 + 4 * i, 2)>>]
    [] OTHER -> <<>>

\* The optional headers follow each other by the length each one carries.  Mutant of
\* NextOption: the length does not count the first four bytes.
NextOptionFurther(data, at) == at + 4 + Get(data, at + 2, 2)

NextOption(data, at) == at + Get(data, at + 2, 2)

ShowNext(data, before) ==
  [at |-> NextOption(data, before.at),
   opt |-> Append(before.opt, ShownOption(data, before.at))]

ShownOptions(data, cnt) ==
  LET after[n \in 0 .. cnt] ==
        IF n = 0 THEN [at |-> HeaderSize + 1, opt |-> <<>>] ELSE ShowNext(data, after[n - 1])
  IN after[cnt]

Dissected(data) ==
  LET opts == ShownOptions(data, data[1] % Nibble)
  IN [version |-> data[1] \div Nibble, ifcsrc |-> data[2] \div Nibble,
      ifcdst |-> data[2] % Nibble, flags |-> ShownFlags(Get(data, 3, 2)),
      words |-> [i \in 1 .. 9 |-> Get(data, 1 + 2 * i, 2)],
      sentTS |-> Get(data, 21, 8), opt |-> opts.opt,
      data |-> SubSeq(data, opts.at, Len(data))]

-----------------------------------------------------------------------------
(* The checksum (RFC 1071) over 16-bit words as the machine reads them.      *)

WordCnt == ByteCnt * ByteCnt

\* while(sum >> 16): the carries are added until none is left.
Fold[n \in Nat] == IF n < WordCnt THEN n ELSE Fold[(n % WordCnt) + (n \div WordCnt)]

\* Mutant of Folded: the carries are dropped.
FoldedNot(n) == n % WordCnt

Folded(n) == Fold[n]

\* The sum of the words, the odd byte at the end counting as it is.
WordSum(bytes) ==
  LET half == Len(bytes) \div 2
      sum[k \in 0 .. half] ==
        IF k = 0 THEN 0 ELSE sum[k - 1] + bytes[2 * k - 1] + ByteCnt * bytes[2 * k]
  IN sum[half] + IF Len(bytes) % 2 = 1 THEN bytes[Len(bytes)] ELSE 0

Checksum(bytes) == WordCnt - 1 - Folded(WordSum(bytes))

\* udp4_checksum: addresses, protocol, length, ports, length, a checksum of 0, and
\* the payload padded to whole words.
PseudoHeader(ip, udp, check) ==
  Put(ip.src, 4) \o Put(ip.dst, 4) \o <<0, 17 % ByteCnt>> \o Put(udp.len, 2)
  \o Put(udp.source, 2) \o Put(udp.dest, 2) \o Put(udp.len, 2) \o check

Padded(payload) == IF Len(payload) % 2 = 1 THEN payload \o <<0>> ELSE payload

Udp4Checksum(ip, udp, payload) ==
  Checksum(PseudoHeader(ip, udp, <<0, 0>>) \o Padded(payload))

-----------------------------------------------------------------------------
(* What the two ends rely on.                                                *)

\* How a packet's fields look to the receiver: cut to their width, the optional
\* headers and the flows of each READ header in the opposite order.
Turned(o) == [o EXCEPT !.info = IF o.type = "READ" THEN Reverse(@) ELSE @]
Arrived(pkt) ==
  [pkt EXCEPT !.version = @ % Nibble, !.ifcsrc = @ % Nibble, !.ifcdst = @ % Nibble,
              !.opt = Reverse([i \in DOMAIN @ |-> Turned(@[i])])]

\* decodeHeader gives back what encodeHeader wrote, as long as the optional headers
\* can be counted; the data end where they ended.
RoundTrip(pkt) ==
  Len(pkt.opt) < Nibble /\ EncodeHeader(pkt) # Failed =>
    DecodeHeader(EncodeHeader(pkt)) = Arrived(pkt)

\* The dissector shows the packet that was sent: all of it but the type of an
\* interface and changes of interfaces, which it does not know.
Shown(o) == CASE o.type = "IP" -> <<o.info[1], o.info[3]>>
              [] o.type = "CHANGE" -> <<>>
              [] OTHER -> o.info

DissectorAgrees(pkt) ==
  Len(pkt.opt) < Nibble /\ EncodeHeader(pkt) # Failed =>
    Dissected(EncodeHeader(pkt)) =
      [version |-> pkt.version % Nibble, ifcsrc |-> pkt.ifcsrc % Nibble,
       ifcdst |-> pkt.ifcdst % Nibble,
       flags |-> {f \in ToSet(FlagName) : (pkt.flag \div FlagBit(f)) % 2 = 1},
       words |-> Words(pkt),
       sentTS |-> pkt.sentTS, opt |-> [i \in DOMAIN pkt.opt |-> Shown(pkt.opt[i])],
       data |-> pkt.data]

\* A receiver that adds up all words, the checksum among them, gets all ones.
ChecksumVerifies(ip, udp, payload) ==
  LET c == Udp4Checksum(ip, udp, payload)
      machine == <<c % ByteCnt, c \div ByteCnt>>
  IN Fold[WordSum(PseudoHeader(ip, udp, machine) \o Padded(payload))] = WordCnt - 1
=============================================================================
