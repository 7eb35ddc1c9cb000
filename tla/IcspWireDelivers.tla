-------------------------- MODULE IcspWireDelivers --------------------------
(***************************************************************************)
(* A connection loses, changes and reorders nothing.  However the reads    *)
(* cut the byte stream, the read loop finds the master's packets; a packet *)
(* decodes to the message it was built from; and where calls of the RC4    *)
(* provider do not overlap, what one side encrypts the other decrypts.     *)
(* For any byte width of at least 3 bits, any key, salts, threads and      *)
(* messages that fit the length field.                                     *)
(***************************************************************************)
EXTENDS IcspWireProofs, Rc4Proofs, SequenceTheorems

\* The length field of a packet, encrypted or not, holds the size of every message.
PayloadsFit ==
    \A data \in Payloads :
        SaltLength + Len(data) + PacketLengthMin < CharsInByte * CharsInByte

Messages == {Message(id, data) : id \in Bytes, data \in Payloads}

\* p is a packet in which the master sent m.
Carries(p, m) ==
    \/ p = RawData(m)
    \/ /\ encrypted
       /\ \E salt \in Salts : p = EncryptedRawData(salt, MasterCipher(salt, RawData(m)))

\* c says where in B each of the packets q ends.
Cut(q, c, B) ==
    /\ c \in [0 .. Len(q) -> Nat]
    /\ c[0] = 0 /\ c[Len(q)] = Len(B)
    /\ \A i, k \in 0 .. Len(q) : i <= k => c[i] <= c[k]
    /\ \A i \in 1 .. Len(q) : c[i] = c[i - 1] + Len(q[i])
    /\ \A i \in 1 .. Len(q) : \A k \in 1 .. Len(q[i]) : B[c[i - 1] + k] = q[i][k]

\* B is the packets q, one after the other.
Joined(q, B) == \E c : Cut(q, c, B)

\* The bytes collected and those on the way are the packets q of the messages that
\* the master sent after the first n.
Flight(q, n) ==
    /\ q \in Seq(Seq(Bytes)) /\ n \in Nat
    /\ Len(sentIn) = n + Len(q)
    /\ Joined(q, lBytes \o stream)
    /\ \A i \in 1 .. Len(q) : Carries(q[i], sentIn[n + i])

SenderPC == {"idle", "load", "built", "encrypt"}
ReaderPC == {"read", "parse", "decrypt", "ended"}

\* What a thread holds where it is.
PlaceInv ==
    /\ pc[Reader] \in ReaderPC
    /\ \A t \in Senders :
          /\ pc[t] \in SenderPC
          /\ pc[t] \in {"built", "encrypt"} => sending[t].msg \in Messages
          /\ pc[t] = "encrypt" => sending[t].salt \in Salts
    /\ sending = [t \in Senders |-> [msg |-> sending[t].msg, salt |-> sending[t].salt]]
    /\ sentIn \in Seq(Messages)

FlightInv == \E q, n : Flight(q, n)

TypeInv == TypeOK /\ PlaceInv /\ FlightInv

\* The call of thread t has made done bytes of its data from those of orig, and the
\* provider's box is where the master's would be.
Halfway(t, orig) ==
    /\ Len(block[t].data) = Len(orig)
    /\ \A k \in 1 .. Len(orig) :
          block[t].data[k] =
              IF k <= block[t].done
                THEN Xor(orig[k], Word(MasterBox(block[t].salt, Len(orig))[k]))
                ELSE orig[k]
    /\ Box = MasterBox(block[t].salt, Len(orig))[block[t].done]

\* A sender encrypts the message it has built, with the salt it will write.
EncryptInv ==
    \A t \in Senders : pc[t] = "encrypt" =>
        /\ block[t].salt = sending[t].salt
        /\ Halfway(t, RawData(sending[t].msg))

\* The read loop decrypts the first message not yet handed on.
DecryptInv ==
    pc[Reader] = "decrypt" =>
        /\ block[Reader].salt \in Salts
        /\ Halfway(Reader, MasterCipher(block[Reader].salt,
                                        RawData(sentIn[Len(received) + 1])))

\* The messages taken off the stream: those handed on and the one being decrypted.
Taken == Len(received) + (IF pc[Reader] = "decrypt" THEN 1 ELSE 0)

OrderInv ==
    /\ received \in Seq(Messages)
    /\ pc[Reader] # "ended"
    /\ Len(received) <= Len(sentIn)
    /\ \A i \in 1 .. Len(received) : received[i] = sentIn[i]
    /\ \E q : Flight(q, Taken)

\* What has been written can be read.
WrittenInv == written \in Seq([msg : Messages, bytes : Seq(Bytes)]) /\ SentReadable

DeliverInv == IInv /\ TypeInv /\ EncryptInv /\ DecryptInv /\ OrderInv /\ WrittenInv

-----------------------------------------------------------------------------
(***************************************************************************)
(* Packets.                                                                *)
(***************************************************************************)

\* The checksum of bytes is a byte.
LEMMA ChecksumType ==
    ASSUME NEW bytes \in Seq(Bytes), bytes # <<>>
    PROVE  Checksum(bytes) \in Bytes
  <1> DEFINE N == Len(bytes)
             Add(x, k) == (x + bytes[k]) % CharsInByte
  <1>1. N \in Nat /\ N \in 1 .. N
    OBVIOUS
  <1>2. ASSUME NEW x \in Nat, NEW k \in 1 .. N
        PROVE  Add(x, k) \in Bytes
    <2>1. bytes[k] \in Nat
      BY WireConstants, BytesType
    <2>2. x + bytes[k] \in Nat
      BY <2>1
    <2>3. QED
      BY <2>2, ByteOf, WireConstants
  <1> HIDE DEF N, Add
  <1>3. PICK step : step = [k \in Nat |-> [x \in Nat |->
             IF k \in 1 .. N THEN Add(x, k) ELSE x]]
    OBVIOUS
  <1>4. step \in [Nat -> [Nat -> Nat]]
    <2>1. Bytes \subseteq Nat
      BY BytesType, WireConstants
    <2>2. \A x \in Nat : \A k \in 1 .. N : Add(x, k) \in Nat
      BY <1>2, <2>1
    <2>3. QED
      BY <1>3, <2>2
  <1>5. PICK zero \in Nat : zero = 0
    OBVIOUS
  <1>6. PICK f : Goes(f, N, Nat, zero, step)
    BY <1>1, <1>4, Recursion
  <1>7. ASSUME NEW k \in 1 .. N
        PROVE  f[k] = (f[k - 1] + bytes[k]) % CharsInByte
    <2>1. PICK X : X = Nat
      OBVIOUS
    <2>2. Goes(f, N, X, zero, step)
      BY <1>6, <2>1
    <2>3. f[k] = step[k][f[k - 1]] /\ k \in Nat /\ f[k - 1] \in X
      BY <1>1, <2>2, GoesOn
    <2>4. QED
      BY <1>3, <2>1, <2>3 DEF Add
  <1> DEFINE sum[n \in 0 .. Len(bytes)] ==
                IF n = 0 THEN 0 ELSE (sum[n - 1] + bytes[n]) % CharsInByte
  <1>8. f = [n \in 0 .. Len(bytes) |->
                IF n = 0 THEN 0 ELSE (f[n - 1] + bytes[n]) % CharsInByte]
    <2>1. f = [n \in 0 .. N |-> f[n]] /\ f[0] = 0
      BY <1>5, <1>6 DEF Goes
    <2>2. \A n \in 0 .. N : n # 0 => n \in 1 .. N
      BY <1>1
    <2>3. \A n \in 0 .. N :
             f[n] = IF n = 0 THEN 0 ELSE (f[n - 1] + bytes[n]) % CharsInByte
      BY <1>7, <2>1, <2>2, Zenon
    <2>4. QED
      BY <2>1, <2>3, Zenon DEF N
  <1>9. sum = [n \in 0 .. Len(bytes) |->
                IF n = 0 THEN 0 ELSE (sum[n - 1] + bytes[n]) % CharsInByte]
    BY <1>8, Zenon
  <1> HIDE DEF sum
  <1>10. \A n \in 0 .. N :
            sum[n] = IF n = 0 THEN 0 ELSE (sum[n - 1] + bytes[n]) % CharsInByte
    BY <1>9, Zenon DEF N
  <1>11. sum \in [0 .. N -> Nat]
    <2>1. \A k \in 1 .. N : k \in 0 .. N /\ k # 0
      BY <1>1
    <2>2. sum[0] = zero
      BY <1>1, <1>5, <1>10
    <2>3. \A k \in 1 .. N : sum[k - 1] \in Nat => sum[k] \in Nat
      <3>1. Bytes \subseteq Nat
        BY BytesType, WireConstants
      <3>2. \A k \in 1 .. N : sum[k] = (sum[k - 1] + bytes[k]) % CharsInByte
        BY <1>10, <2>1, Zenon
      <3>3. QED
        BY <1>2, <3>1, <3>2 DEF Add
    <2>4. sum = [n \in 0 .. N |-> sum[n]]
      BY <1>9, Zenon DEF N
    <2>5. sum[0] \in Nat
      BY <2>2
    <2>6. QED
      BY <1>1, <2>3, <2>4, <2>5, RecursionType
  <1>12. sum[N] \in Bytes
    <2>1. N \in 0 .. N /\ N # 0 /\ N - 1 \in 0 .. N
      BY <1>1
    <2>2. sum[N] = (sum[N - 1] + bytes[N]) % CharsInByte
      BY <1>10, <2>1, Zenon
    <2>3. sum[N - 1] \in Nat
      BY <1>11, <2>1
    <2>4. QED
      BY <1>1, <1>2, <2>2, <2>3 DEF Add
  <1>13. QED
    BY <1>12 DEF Checksum, sum, N

\* A number that fits two bytes is the two bytes that are written for it.
LEMMA TwoBytes ==
    ASSUME NEW n \in Nat, n < CharsInByte * CharsInByte
    PROVE  /\ n \div CharsInByte \in Bytes /\ n % CharsInByte \in Bytes
           /\ (n \div CharsInByte) * CharsInByte + (n % CharsInByte) = n
  <1>1. PICK c \in Nat \ {0} : c = CharsInByte
    BY BytesType, WireConstants
  <1>2. n % c \in 0 .. c - 1 /\ n \div c \in Nat /\ (n \div c) * c + (n % c) = n
    OBVIOUS
  <1>3. n \div c < c
    <2>1. PICK d \in Nat : d = n \div c
      BY <1>2
    <2>2. d * c <= n /\ n < c * c
      BY <1>1, <1>2, <2>1
    <2>3. d >= c => d * c >= c * c
      OBVIOUS
    <2>4. QED
      BY <2>1, <2>2, <2>3
  <1>4. QED
    BY <1>1, <1>2, <1>3 DEF Bytes

\* p is bytes with this protocol, length field and content.
IsPacket(p, protocol, n, content) ==
    /\ p \in Seq(Bytes) /\ Len(p) = Len(content) + 4
    /\ p[1] = protocol /\ DataLength(p) = n
    /\ \A k \in 1 .. Len(content) : p[k + 3] = content[k]

\* A packet: its size, its length field, and its content where the reader looks for it.
LEMMA PacketShape ==
    ASSUME NEW protocol \in Bytes, NEW n \in Nat, n < CharsInByte * CharsInByte,
           NEW content \in Seq(Bytes)
    PROVE  IsPacket(Packet(protocol, n, content), protocol, n, content)
  <1> DEFINE p == Packet(protocol, n, content)
  <1>1. PICK hi \in Bytes, lo \in Bytes :
            hi = n \div CharsInByte /\ lo = n % CharsInByte /\ hi * CharsInByte + lo = n
    BY TwoBytes
  <1>2. PICK z \in Bytes : z = 0
    BY BytesType, WireConstants
  <1>3. PICK raw : raw = <<protocol, hi, lo>> \o content \o <<z>>
    OBVIOUS
  <1>4. /\ raw \in Seq(Bytes) /\ Len(raw) = Len(content) + 4
        /\ raw[1] = protocol /\ raw[2] = hi /\ raw[3] = lo
        /\ \A k \in 1 .. Len(content) : raw[k + 3] = content[k]
    <2>1. PICK head : head = <<protocol, hi, lo>>
      OBVIOUS
    <2>2. head \in Seq(Bytes) /\ Len(head) = 3
          /\ head[1] = protocol /\ head[2] = hi /\ head[3] = lo
      BY <2>1
    <2>3. PICK most : most = head \o content
      OBVIOUS
    <2>4. /\ most \in Seq(Bytes) /\ Len(most) = Len(content) + 3
          /\ most[1] = protocol /\ most[2] = hi /\ most[3] = lo
          /\ \A k \in 1 .. Len(content) : most[k + 3] = content[k]
      <3>1. /\ most \in Seq(Bytes) /\ Len(most) = 3 + Len(content)
            /\ \A k \in 1 .. 3 + Len(content) :
                  most[k] = IF k <= 3 THEN head[k] ELSE content[k - 3]
        <4>1. head \in Seq(Bytes)
          BY <2>2
        <4>2. /\ most \in Seq(Bytes) /\ Len(most) = Len(head) + Len(content)
              /\ \A k \in 1 .. Len(head) + Len(content) :
                    most[k] = IF k <= Len(head) THEN head[k] ELSE content[k - Len(head)]
          BY <2>3, <4>1, ConcatProperties, Zenon
        <4>3. Len(head) = 3
          BY <2>2
        <4>4. QED
          BY <4>2, <4>3
      <3>2. most[1] = head[1] /\ most[2] = head[2] /\ most[3] = head[3]
        BY <3>1
      <3>3. ASSUME NEW k \in 1 .. Len(content)
            PROVE  most[k + 3] = content[k]
        <4>1. k + 3 \in 1 .. 3 + Len(content) /\ ~(k + 3 <= 3) /\ (k + 3) - 3 = k
          OBVIOUS
        <4>2. QED
          BY <3>1, <4>1
      <3>4. QED
        BY <2>2, <3>1, <3>2, <3>3
    <2>5. raw = most \o <<z>>
      BY <1>3, <2>1, <2>3
    <2>6. QED
      BY <2>4, <2>5
  <1>5. PICK x \in Bytes : x = Checksum(raw)
    <2>1. raw # <<>>
      BY <1>4
    <2>2. QED
      BY <1>4, <2>1, ChecksumType
  <1>6. p = [raw EXCEPT ![Len(raw)] = x]
    BY <1>1, <1>2, <1>3, <1>5 DEF Packet, WithChecksum
  <1> HIDE DEF p
  <1>7. Len(raw) \in 1 .. Len(raw)
    BY <1>4
  <1>8. /\ p \in Seq(Bytes) /\ Len(p) = Len(raw)
        /\ \A k \in 1 .. Len(raw) : p[k] = IF k = Len(raw) THEN x ELSE raw[k]
    BY <1>4, <1>6, <1>7, ExceptSeq
  <1>9. \A k \in 1 .. Len(raw) : k # Len(raw) => p[k] = raw[k]
    BY <1>8
  <1>10. p[1] = protocol /\ p[2] = hi /\ p[3] = lo
    <2>1. /\ 1 \in 1 .. Len(raw) /\ 2 \in 1 .. Len(raw) /\ 3 \in 1 .. Len(raw)
          /\ 1 # Len(raw) /\ 2 # Len(raw) /\ 3 # Len(raw)
      BY <1>4
    <2>2. p[1] = raw[1] /\ p[2] = raw[2] /\ p[3] = raw[3]
      BY <1>9, <2>1
    <2>3. QED
      BY <1>4, <2>2
  <1>11. \A k \in 1 .. Len(content) : p[k + 3] = content[k]
    BY <1>4, <1>9
  <1>12. IsPacket(p, protocol, n, content)
    BY <1>1, <1>4, <1>8, <1>10, <1>11 DEF DataLength, IsPacket
  <1>13. QED
    BY <1>12 DEF p

\* Sequences of the same bytes are equal.
LEMMA SameBytes ==
    ASSUME NEW s \in Seq(Bytes), NEW t \in Seq(Bytes), Len(s) = Len(t),
           \A k \in 1 .. Len(s) : s[k] = t[k]
    PROVE  s = t
  BY SeqEqual

\* The piece of a sequence of bytes from a to b.
LEMMA Piece ==
    ASSUME NEW s \in Seq(Bytes), NEW a \in Nat \ {0}, NEW b \in Nat,
           a <= b + 1, b <= Len(s)
    PROVE  /\ SubSeq(s, a, b) \in Seq(Bytes)
           /\ Len(SubSeq(s, a, b)) = b - a + 1
           /\ \A k \in 1 .. b - a + 1 : SubSeq(s, a, b)[k] = s[k + a - 1]
  <1>1. \A k \in a .. b : s[k] \in Bytes
    OBVIOUS
  <1>2. /\ SubSeq(s, a, b) \in Seq(Bytes)
        /\ Len(SubSeq(s, a, b)) = IF a <= b THEN b - a + 1 ELSE 0
        /\ \A k \in 1 .. b - a + 1 : SubSeq(s, a, b)[k] = s[a + k - 1]
    BY <1>1, SubSeqProperties
  <1>3. QED
    BY <1>2

\* The content of a packet is found where the reader looks for it.
LEMMA ContentPiece ==
    ASSUME NEW s \in Seq(Bytes), NEW t \in Seq(Bytes), NEW a \in Nat \ {0},
           a + Len(t) - 1 <= Len(s), \A k \in 1 .. Len(t) : s[k + a - 1] = t[k]
    PROVE  SubSeq(s, a, a + Len(t) - 1) = t
  <1>1. PICK l \in Nat : l = Len(t)
    OBVIOUS
  <1>2. PICK b \in Nat : b = a + l - 1
    BY <1>1
  <1>3. a <= b + 1 /\ b <= Len(s) /\ b - a + 1 = l
    BY <1>1, <1>2
  <1>4. /\ SubSeq(s, a, b) \in Seq(Bytes) /\ Len(SubSeq(s, a, b)) = l
        /\ \A k \in 1 .. l : SubSeq(s, a, b)[k] = s[k + a - 1]
    BY <1>3, Piece
  <1>5. SubSeq(s, a, b) = t
    BY <1>1, <1>4, SameBytes
  <1>6. QED
    BY <1>1, <1>2, <1>5

\* What a message is, and that its size fits the length field.
LEMMA MessageFits ==
    ASSUME PayloadsFit, NEW m \in Messages
    PROVE  /\ m = Message(m.id, m.data) /\ m.id \in Bytes
           /\ m.data \in Payloads /\ m.data \in Seq(Bytes)
           /\ SaltLength + Len(m.data) + 5 < CharsInByte * CharsInByte
  <1>1. PICK id \in Bytes, data \in Payloads : m = Message(id, data)
    BY DEF Messages
  <1>2. m.id = id /\ m.data = data
    BY <1>1 DEF Message
  <1>3. data \in Seq(Bytes)
    BY WireConstants
  <1>4. QED
    BY <1>1, <1>2, <1>3 DEF PayloadsFit, PacketLengthMin

\* Parsing a serialised message gives the message.
LEMMA RawShape ==
    ASSUME PayloadsFit, NEW m \in Messages
    PROVE  /\ RawData(m) \in Seq(Bytes) /\ Len(RawData(m)) = Len(m.data) + 5
           /\ RawData(m)[1] = ProtocolValue
           /\ DataLength(RawData(m)) + 4 = Len(RawData(m))
           /\ FromData(RawData(m)) = m
  <1>1. /\ m = Message(m.id, m.data) /\ m.id \in Bytes /\ m.data \in Seq(Bytes)
        /\ SaltLength + Len(m.data) + 5 < CharsInByte * CharsInByte
    BY MessageFits
  <1>2. PICK l \in Nat : l = Len(m.data)
    BY <1>1
  <1>3. l + 1 < CharsInByte * CharsInByte
    <2>1. PICK cc \in Nat : cc = CharsInByte * CharsInByte
      BY BytesType, WireConstants
    <2>2. SaltLength \in Nat /\ SaltLength + l + 5 < cc
      BY <1>1, <1>2, <2>1, WireConstants
    <2>3. QED
      BY <2>1, <2>2
  <1>4. UShort(PacketLengthMin + Len(m.data) - 4) = l + 1
    <2>1. PICK cc \in Nat \ {0} : cc = CharsInByte * CharsInByte
      BY BytesType, WireConstants
    <2>2. (l + 1) % cc = l + 1
      BY <1>3, <2>1
    <2>3. PacketLengthMin + Len(m.data) - 4 = l + 1
      BY <1>2 DEF PacketLengthMin
    <2>4. QED
      BY <2>1, <2>2, <2>3 DEF UShort
  <1>5. PICK content : content = <<m.id>> \o m.data
    OBVIOUS
  <1>6. /\ content \in Seq(Bytes) /\ Len(content) = l + 1 /\ content[1] = m.id
        /\ \A k \in 1 .. l : content[k + 1] = m.data[k]
    BY <1>1, <1>2, <1>5
  <1>7. PICK p : p = Packet(ProtocolValue, l + 1, content)
    OBVIOUS
  <1>8. RawData(m) = p
    BY <1>4, <1>5, <1>7 DEF RawData
  <1>9. ProtocolValue \in Bytes
    BY WireConstants, Power2Type DEF ProtocolValue, Bytes, CharsInByte
  <1>10. /\ p \in Seq(Bytes) /\ Len(p) = Len(content) + 4
         /\ p[1] = ProtocolValue /\ DataLength(p) = l + 1
         /\ \A k \in 1 .. Len(content) : p[k + 3] = content[k]
    <2>1. l + 1 \in Nat
      OBVIOUS
    <2>2. content \in Seq(Bytes)
      BY <1>6
    <2>3. IsPacket(p, ProtocolValue, l + 1, content)
      BY <1>3, <1>7, <1>9, <2>1, <2>2, PacketShape
    <2>4. QED
      BY <2>3 DEF IsPacket
  <1>11. p[4] = m.id
    <2>1. 1 \in 1 .. Len(content) /\ 1 + 3 = 4
      BY <1>6
    <2>2. p[1 + 3] = content[1]
      BY <1>10, <2>1
    <2>3. QED
      BY <1>6, <2>1, <2>2
  <1>12. SubSeq(p, 5, Len(p) - 1) = m.data
    <2>1. ASSUME NEW k \in 1 .. Len(m.data)
          PROVE  p[k + 5 - 1] = m.data[k]
      <3>1. k + 1 \in 1 .. Len(content) /\ (k + 1) + 3 = k + 5 - 1 /\ k \in 1 .. l
        BY <1>2, <1>6
      <3>2. p[(k + 1) + 3] = content[k + 1] /\ content[k + 1] = m.data[k]
        BY <1>6, <1>10, <3>1
      <3>3. QED
        BY <3>1, <3>2
    <2>2. 5 + Len(m.data) - 1 <= Len(p) /\ 5 + Len(m.data) - 1 = Len(p) - 1
      BY <1>2, <1>6, <1>10
    <2>3. SubSeq(p, 5, 5 + Len(m.data) - 1) = m.data
      <3>1. PICK a \in Nat \ {0} : a = 5
        OBVIOUS
      <3>2. SubSeq(p, a, a + Len(m.data) - 1) = m.data
        <4>1. a + Len(m.data) - 1 <= Len(p)
              /\ \A k \in 1 .. Len(m.data) : p[k + a - 1] = m.data[k]
          BY <2>1, <2>2, <3>1
        <4>2. p \in Seq(Bytes) /\ m.data \in Seq(Bytes)
          BY <1>1, <1>10
        <4>3. QED
          BY <4>1, <4>2, ContentPiece
      <3>3. QED
        BY <3>1, <3>2
    <2>4. QED
      BY <2>2, <2>3
  <1>13. FromData(p) = m
    <2>1. Len(p) >= PacketLengthMin /\ DataLength(p) + 3 < Len(p)
      BY <1>6, <1>10 DEF PacketLengthMin
    <2>2. FromData(p) = [ok |-> TRUE, id |-> p[4], data |-> SubSeq(p, 5, Len(p) - 1)]
      BY <1>10, <2>1 DEF FromData
    <2>3. FromData(p) = Message(m.id, m.data)
      BY <1>11, <1>12, <2>2 DEF Message
    <2>4. QED
      BY <1>1, <2>3
  <1>14. Len(p) = Len(m.data) + 5 /\ DataLength(p) + 4 = Len(p)
    BY <1>2, <1>6, <1>10
  <1>15. QED
    BY <1>8, <1>10, <1>13, <1>14

\* An encrypted packet holds its salt and the encrypted data.
LEMMA EncryptedShape ==
    ASSUME PayloadsFit, NEW m \in Messages, NEW salt \in Salts, NEW cipher \in Seq(Bytes),
           Len(cipher) = Len(RawData(m)), NEW p, p = EncryptedRawData(salt, cipher)
    PROVE  /\ p \in Seq(Bytes) /\ Len(p) >= PacketLengthMin
           /\ p[1] = EncryptedProtocolValue
           /\ DataLength(p) + 4 = Len(p)
           /\ Salt(p) = salt /\ EncryptedData(p) = cipher
  <1>1. /\ m.data \in Seq(Bytes)
        /\ SaltLength + Len(m.data) + 5 < CharsInByte * CharsInByte
    BY MessageFits
  <1>2. SaltLength \in Nat /\ salt \in Seq(Bytes) /\ Len(salt) = SaltLength
    <2>1. SaltLength \in Nat /\ salt \in [1 .. SaltLength -> Bytes]
      BY WireConstants
    <2>2. QED
      BY <2>1
  <1>3. PICK n \in Nat : n = SaltLength + Len(cipher)
    BY <1>2
  <1>4. n < CharsInByte * CharsInByte
    <2>1. Len(cipher) = Len(m.data) + 5
      BY RawShape
    <2>2. n = SaltLength + Len(m.data) + 5
      BY <1>1, <1>2, <1>3, <2>1
    <2>3. QED
      BY <1>1, <2>2
  <1>5. UShort(EncryptedPacketLengthMin + Len(cipher) - 4) = n
    <2>1. PICK cc \in Nat \ {0} : cc = CharsInByte * CharsInByte
      BY BytesType, WireConstants
    <2>2. n % cc = n
      BY <1>4, <2>1
    <2>3. EncryptedPacketLengthMin + Len(cipher) - 4 = n
      BY <1>2, <1>3 DEF EncryptedPacketLengthMin
    <2>4. QED
      BY <2>1, <2>2, <2>3 DEF UShort
  <1>6. PICK content : content = salt \o cipher
    OBVIOUS
  <1>7. /\ content \in Seq(Bytes) /\ Len(content) = n
        /\ \A k \in 1 .. n : content[k] = IF k <= SaltLength THEN salt[k]
                                          ELSE cipher[k - SaltLength]
    <2>1. /\ content \in Seq(Bytes) /\ Len(content) = Len(salt) + Len(cipher)
          /\ \A k \in 1 .. Len(salt) + Len(cipher) :
                content[k] = IF k <= Len(salt) THEN salt[k] ELSE cipher[k - Len(salt)]
      <3>1. salt \in Seq(Bytes)
        BY <1>2
      <3>2. QED
        BY <1>6, <3>1, ConcatProperties, Zenon
    <2>2. QED
      BY <1>2, <1>3, <2>1
  <1>8. p = Packet(EncryptedProtocolValue, n, content)
    BY <1>5, <1>6 DEF EncryptedRawData
  <1>9. EncryptedProtocolValue \in Bytes
    BY WireConstants, Power2Type DEF EncryptedProtocolValue, Bytes, CharsInByte
  <1>10. /\ p \in Seq(Bytes) /\ Len(p) = Len(content) + 4
         /\ p[1] = EncryptedProtocolValue /\ DataLength(p) = n
         /\ \A k \in 1 .. Len(content) : p[k + 3] = content[k]
    <2>1. content \in Seq(Bytes)
      BY <1>7
    <2>2. IsPacket(p, EncryptedProtocolValue, n, content)
      BY <1>4, <1>8, <1>9, <2>1, PacketShape
    <2>3. QED
      BY <2>2 DEF IsPacket
  <1>11. Salt(p) = salt
    <2>1. PICK a \in Nat \ {0} : a = 4
      OBVIOUS
    <2>2. ASSUME NEW k \in 1 .. Len(salt)
          PROVE  p[k + a - 1] = salt[k]
      <3>1. k \in 1 .. Len(content) /\ k \in 1 .. n /\ k <= SaltLength /\ k + 3 = k + a - 1
        BY <1>2, <1>3, <1>7, <2>1
      <3>2. p[k + 3] = content[k] /\ content[k] = salt[k]
        BY <1>7, <1>10, <3>1
      <3>3. QED
        BY <3>1, <3>2
    <2>3. a + Len(salt) - 1 <= Len(p) /\ a + Len(salt) - 1 = 3 + SaltLength
      BY <1>2, <1>3, <1>7, <1>10, <2>1
    <2>4. p \in Seq(Bytes) /\ salt \in Seq(Bytes)
      BY <1>2, <1>10
    <2>5. SubSeq(p, a, a + Len(salt) - 1) = salt
      BY <2>2, <2>3, <2>4, ContentPiece
    <2>6. QED
      BY <2>1, <2>3, <2>5 DEF Salt
  <1>12. EncryptedData(p) = cipher
    <2>1. PICK a \in Nat \ {0} : a = 4 + SaltLength
      BY <1>2
    <2>2. ASSUME NEW k \in 1 .. Len(cipher)
          PROVE  p[k + a - 1] = cipher[k]
      <3>1. /\ k + SaltLength \in 1 .. Len(content) /\ k + SaltLength \in 1 .. n
            /\ ~(k + SaltLength <= SaltLength) /\ (k + SaltLength) + 3 = k + a - 1
            /\ (k + SaltLength) - SaltLength = k
        BY <1>2, <1>3, <1>7, <2>1
      <3>2. p[(k + SaltLength) + 3] = content[k + SaltLength]
            /\ content[k + SaltLength] = cipher[k]
        BY <1>7, <1>10, <3>1
      <3>3. QED
        BY <3>1, <3>2
    <2>3. a + Len(cipher) - 1 <= Len(p) /\ a + Len(cipher) - 1 = DataLength(p) + 3
      BY <1>2, <1>3, <1>7, <1>10, <2>1
    <2>4. p \in Seq(Bytes)
      BY <1>10
    <2>5. SubSeq(p, a, a + Len(cipher) - 1) = cipher
      BY <2>2, <2>3, <2>4, ContentPiece
    <2>6. QED
      BY <2>1, <2>3, <2>5 DEF EncryptedData
  <1>13. Len(p) >= PacketLengthMin
    <2>1. Len(cipher) = Len(m.data) + 5
      BY RawShape
    <2>2. QED
      BY <1>1, <1>2, <1>3, <1>7, <1>10, <2>1 DEF PacketLengthMin
  <1>14. QED
    BY <1>7, <1>10, <1>11, <1>12, <1>13

-----------------------------------------------------------------------------
(***************************************************************************)
(* The cipher.                                                             *)
(***************************************************************************)

\* The box a salted call starts from.
FirstBox(salt) == [S |-> UpdatePrivateKey(mKeyValueLast, salt), i |-> 0, j |-> 0]

\* It is a box.
LEMMA FirstBoxType ==
    ASSUME NEW salt \in Seq(Bytes)
    PROVE  FirstBox(salt) \in Boxes
  <1>1. mKeyValueLast \in [Bytes -> Bytes]
    BY SetKeyType, WireConstants DEF mKeyValueLast
  <1>2. UpdatePrivateKey(mKeyValueLast, salt) \in [Bytes -> Bytes]
    BY <1>1, SaltedType, WireConstants
  <1>3. QED
    BY <1>2, BytesType, WireConstants DEF FirstBox, Boxes

\* The master's box goes from the salted key by the generator.
LEMMA MasterBoxGoes ==
    ASSUME NEW salt \in Seq(Bytes), NEW n \in Nat
    PROVE  /\ MasterBox(salt, n) \in [0 .. n -> Boxes]
           /\ MasterBox(salt, n)[0] = FirstBox(salt)
           /\ \A k \in 1 .. n : MasterBox(salt, n)[k] = PRGA(MasterBox(salt, n)[k - 1])
  <1>1. \A box \in Boxes : PRGA(box) \in Boxes
    BY GeneratorType, WireConstants
  <1>2. PICK step : step = [k \in Nat |-> [box \in Boxes |-> PRGA(box)]]
    OBVIOUS
  <1>3. step \in [Nat -> [Boxes -> Boxes]]
    BY <1>1, <1>2
  <1>4. FirstBox(salt) \in Boxes
    BY FirstBoxType
  <1>5. PICK f : Goes(f, n, Boxes, FirstBox(salt), step)
    BY <1>3, <1>4, Recursion
  <1>6. ASSUME NEW k \in 1 .. n
        PROVE  f[k] = PRGA(f[k - 1])
    <2>1. f[k] = step[k][f[k - 1]] /\ k \in Nat /\ f[k - 1] \in Boxes
      BY <1>5 DEF Goes
    <2>2. QED
      BY <1>2, <2>1
  <1>7. f = [k \in 0 .. n |-> IF k = 0 THEN FirstBox(salt) ELSE PRGA(f[k - 1])]
    <2>1. f = [k \in 0 .. n |-> f[k]] /\ f[0] = FirstBox(salt)
      BY <1>5 DEF Goes
    <2>2. \A k \in 0 .. n : k # 0 => k \in 1 .. n
      OBVIOUS
    <2>3. \A k \in 0 .. n : f[k] = IF k = 0 THEN FirstBox(salt) ELSE PRGA(f[k - 1])
      BY <1>6, <2>1, <2>2, Zenon
    <2>4. QED
      BY <2>1, <2>3, Zenon
  <1> DEFINE box == MasterBox(salt, n)
  <1>8. box = CHOOSE g : g = [k \in 0 .. n |-> IF k = 0 THEN FirstBox(salt)
                                               ELSE PRGA(g[k - 1])]
    BY DEF MasterBox, FirstBox
  <1> HIDE DEF box
  <1>9. box = [k \in 0 .. n |-> IF k = 0 THEN FirstBox(salt) ELSE PRGA(box[k - 1])]
    BY <1>7, <1>8, Zenon
  <1>10. /\ box = [k \in 0 .. n |-> box[k]]
         /\ \A k \in 0 .. n : box[k] = IF k = 0 THEN FirstBox(salt) ELSE PRGA(box[k - 1])
    BY <1>9, Zenon
  <1>11. box[0] = FirstBox(salt) /\ \A k \in 1 .. n : box[k] = PRGA(box[k - 1])
    <2>1. 0 \in 0 .. n /\ \A k \in 1 .. n : k \in 0 .. n /\ k # 0
      OBVIOUS
    <2>2. QED
      BY <1>10, <2>1, Zenon
  <1>12. box \in [0 .. n -> Boxes]
    <2>1. box[0] \in Boxes /\ \A k \in 1 .. n : box[k - 1] \in Boxes => box[k] \in Boxes
      BY <1>1, <1>4, <1>11
    <2>2. QED
      BY <1>10, <2>1, RecursionType
  <1>13. QED
    BY <1>11, <1>12 DEF box

\* The keystream is bytes.
LEMMA KeystreamType ==
    ASSUME NEW salt \in Seq(Bytes), NEW n \in Nat, NEW k \in 1 .. n
    PROVE  Word(MasterBox(salt, n)[k]) \in Bytes
  <1>1. k \in 0 .. n
    OBVIOUS
  <1>2. MasterBox(salt, n) \in [0 .. n -> Boxes]
    BY MasterBoxGoes
  <1>3. MasterBox(salt, n)[k] \in Boxes
    BY <1>1, <1>2
  <1>4. QED
    BY <1>3, GeneratorType, WireConstants

\* What the master encrypts has the size of the data; byte by byte it is exclusive or.
LEMMA CipherType ==
    ASSUME NEW salt \in Seq(Bytes), NEW data \in Seq(Bytes)
    PROVE  /\ MasterCipher(salt, data) \in Seq(Bytes)
           /\ Len(MasterCipher(salt, data)) = Len(data)
           /\ \A k \in 1 .. Len(data) :
                 MasterCipher(salt, data)[k]
                    = Xor(data[k], Word(MasterBox(salt, Len(data))[k]))
  <1>1. PICK n \in Nat : n = Len(data)
    OBVIOUS
  <1>2. PICK c : c = [k \in 1 .. n |-> Xor(data[k], Word(MasterBox(salt, n)[k]))]
    OBVIOUS
  <1>3. \A k \in 1 .. n : Xor(data[k], Word(MasterBox(salt, n)[k])) \in Bytes
    <2>1. ASSUME NEW k \in 1 .. n
          PROVE  Xor(data[k], Word(MasterBox(salt, n)[k])) \in Bytes
      <3>1. data[k] \in Bytes
        BY <1>1
      <3>2. Word(MasterBox(salt, n)[k]) \in Bytes
        BY KeystreamType
      <3>3. QED
        BY <3>1, <3>2, XorUndoes, WireConstants
    <2>2. QED
      BY <2>1
  <1>4. c \in Seq(Bytes) /\ Len(c) = n
        /\ \A k \in 1 .. n : c[k] = Xor(data[k], Word(MasterBox(salt, n)[k]))
    BY <1>2, <1>3
  <1>5. MasterCipher(salt, data) = c
    BY <1>1, <1>2 DEF MasterCipher
  <1>6. QED
    BY <1>1, <1>4, <1>5

\* Encrypting twice with the same salt gives the data back.
LEMMA CipherUndoes ==
    ASSUME NEW salt \in Seq(Bytes), NEW data \in Seq(Bytes)
    PROVE  MasterCipher(salt, MasterCipher(salt, data)) = data
  <1>1. PICK c : c = MasterCipher(salt, data)
    OBVIOUS
  <1>2. PICK n \in Nat : n = Len(data)
    OBVIOUS
  <1>3. /\ c \in Seq(Bytes) /\ Len(c) = n
        /\ \A k \in 1 .. n : c[k] = Xor(data[k], Word(MasterBox(salt, n)[k]))
    BY <1>1, <1>2, CipherType
  <1>4. PICK d : d = MasterCipher(salt, c)
    OBVIOUS
  <1>5. /\ d \in Seq(Bytes) /\ Len(d) = Len(c)
        /\ \A k \in 1 .. Len(c) : d[k] = Xor(c[k], Word(MasterBox(salt, Len(c))[k]))
    <2>1. c \in Seq(Bytes)
      BY <1>3
    <2>2. QED
      BY <1>4, <2>1, CipherType
  <1>6. ASSUME NEW k \in 1 .. n
        PROVE  d[k] = data[k]
    <2>1. PICK w : w = Word(MasterBox(salt, n)[k])
      OBVIOUS
    <2>2. w \in Bytes
      BY <2>1, KeystreamType
    <2>3. data[k] \in Bytes
      BY <1>2
    <2>4. d[k] = Xor(Xor(data[k], w), w)
      BY <1>3, <1>5, <2>1
    <2>5. QED
      BY <2>2, <2>3, <2>4, XorUndoes, WireConstants
  <1>7. d = data
    BY <1>2, <1>3, <1>5, <1>6, SameBytes
  <1>8. QED
    BY <1>1, <1>4, <1>7

-----------------------------------------------------------------------------
(***************************************************************************)
(* Packets one after the other.                                            *)
(***************************************************************************)

\* No packets, no bytes.
LEMMA JoinedEmpty == Joined(<<>>, <<>>)
  <1>1. PICK c : c = [i \in 0 .. 0 |-> 0]
    OBVIOUS
  <1>2. Cut(<<>>, c, <<>>)
    BY <1>1 DEF Cut
  <1>3. QED
    BY <1>2 DEF Joined

\* A packet more behind the bytes of the others.
LEMMA JoinedAppend ==
    ASSUME NEW q \in Seq(Seq(Bytes)), NEW B \in Seq(Bytes), Joined(q, B),
           NEW p \in Seq(Bytes)
    PROVE  Joined(Append(q, p), B \o p)
  <1>1. PICK c : Cut(q, c, B)
    BY DEF Joined
  <1>2. PICK l \in Nat : l = Len(q)
    OBVIOUS
  <1>3. PICK r : r = Append(q, p)
    OBVIOUS
  <1>4. r \in Seq(Seq(Bytes)) /\ Len(r) = l + 1 /\ r[l + 1] = p
        /\ \A i \in 1 .. l : r[i] = q[i]
    BY <1>2, <1>3
  <1>5. PICK D : D = B \o p
    OBVIOUS
  <1>6. /\ Len(D) = Len(B) + Len(p)
        /\ \A k \in 1 .. Len(B) : D[k] = B[k]
        /\ \A k \in 1 .. Len(p) : D[Len(B) + k] = p[k]
    <2>1. /\ Len(D) = Len(B) + Len(p)
          /\ \A i \in 1 .. Len(B) + Len(p) :
                D[i] = IF i <= Len(B) THEN B[i] ELSE p[i - Len(B)]
      BY <1>5, ConcatProperties, Zenon
    <2>2. Len(B) \in Nat /\ Len(p) \in Nat
      OBVIOUS
    <2>3. ASSUME NEW k \in 1 .. Len(p)
          PROVE  D[Len(B) + k] = p[k]
      <3>1. /\ Len(B) + k \in 1 .. Len(B) + Len(p) /\ ~(Len(B) + k <= Len(B))
            /\ (Len(B) + k) - Len(B) = k
        BY <2>2
      <3>2. QED
        BY <2>1, <3>1
    <2>4. QED
      BY <2>1, <2>2, <2>3
  <1>7. /\ c \in [0 .. l -> Nat] /\ c[0] = 0 /\ c[l] = Len(B)
        /\ \A i, k \in 0 .. l : i <= k => c[i] <= c[k]
        /\ \A i \in 1 .. l : c[i] = c[i - 1] + Len(q[i])
        /\ \A i \in 1 .. l : \A k \in 1 .. Len(q[i]) : B[c[i - 1] + k] = q[i][k]
    BY <1>1, <1>2 DEF Cut
  <1>8. PICK e : e = [i \in 0 .. l + 1 |-> IF i = l + 1 THEN Len(D) ELSE c[i]]
    OBVIOUS
  <1>9. /\ e[l + 1] = Len(D) /\ \A i \in 0 .. l : e[i] = c[i]
        /\ e \in [0 .. l + 1 -> Nat]
    BY <1>6, <1>7, <1>8
  <1>10. \A i \in 0 .. l : c[i] <= Len(B) /\ c[i] \in Nat
    <2>1. ASSUME NEW i \in 0 .. l
          PROVE  c[i] <= Len(B) /\ c[i] \in Nat
      <3>1. l \in 0 .. l /\ i <= l
        OBVIOUS
      <3>2. c[i] <= c[l] /\ c[i] \in Nat
        BY <1>7, <3>1
      <3>3. QED
        BY <1>7, <3>2
    <2>2. QED
      BY <2>1
  <1>11. \A i, k \in 0 .. l + 1 : i <= k => e[i] <= e[k]
    <2>1. SUFFICES ASSUME NEW i \in 0 .. l + 1, NEW k \in 0 .. l + 1, i <= k
                   PROVE  e[i] <= e[k]
      OBVIOUS
    <2>2. CASE k = l + 1
      <3>1. Len(B) \in Nat /\ Len(p) \in Nat /\ Len(D) = Len(B) + Len(p)
        BY <1>6
      <3>2. e[k] = Len(D)
        BY <1>9, <2>2
      <3>3. CASE i = l + 1
        BY <3>1, <3>2, <3>3, <2>2
      <3>4. CASE i \in 0 .. l
        <4>1. e[i] = c[i] /\ c[i] <= Len(B) /\ c[i] \in Nat
          BY <1>9, <1>10, <3>4
        <4>2. QED
          BY <3>1, <3>2, <4>1
      <3>5. QED
        BY <3>3, <3>4
    <2>3. CASE k \in 0 .. l /\ i \in 0 .. l
      BY <1>7, <1>9, <2>1, <2>3
    <2>4. QED
      BY <2>1, <2>2, <2>3
  <1>12. \A i \in 1 .. l + 1 : e[i] = e[i - 1] + Len(r[i])
    <2>1. ASSUME NEW i \in 1 .. l
          PROVE  e[i] = e[i - 1] + Len(r[i])
      <3>1. i \in 0 .. l /\ i - 1 \in 0 .. l
        OBVIOUS
      <3>2. QED
        BY <1>4, <1>7, <1>9, <3>1
    <2>2. e[l + 1] = e[(l + 1) - 1] + Len(r[l + 1])
      <3>1. (l + 1) - 1 = l /\ l \in 0 .. l
        OBVIOUS
      <3>2. QED
        BY <1>4, <1>6, <1>7, <1>9, <3>1
    <2>3. \A i \in 1 .. l + 1 : i = l + 1 \/ i \in 1 .. l
      OBVIOUS
    <2>4. QED
      BY <2>1, <2>2, <2>3
  <1>13. ASSUME NEW i \in 1 .. l + 1, NEW k \in 1 .. Len(r[i])
         PROVE  D[e[i - 1] + k] = r[i][k]
    <2>1. CASE i = l + 1
      <3>1. i - 1 = l /\ l \in 0 .. l /\ r[i] = p
        BY <1>4, <2>1
      <3>2. e[i - 1] = Len(B)
        BY <1>7, <1>9, <3>1
      <3>3. QED
        BY <1>6, <3>1, <3>2
    <2>2. CASE i \in 1 .. l
      <3>1. i \in 0 .. l /\ i - 1 \in 0 .. l /\ r[i] = q[i]
        BY <1>4, <2>2
      <3>2. e[i - 1] = c[i - 1] /\ c[i - 1] \in Nat /\ c[i] <= Len(B)
            /\ c[i] = c[i - 1] + Len(q[i])
        BY <1>7, <1>9, <1>10, <2>2, <3>1
      <3>3. k \in 1 .. Len(q[i]) /\ q[i] \in Seq(Bytes)
        BY <1>2, <2>2, <3>1
      <3>4. c[i - 1] + k \in 1 .. Len(B)
        BY <3>2, <3>3
      <3>5. D[c[i - 1] + k] = B[c[i - 1] + k]
        BY <1>6, <3>4
      <3>6. B[c[i - 1] + k] = q[i][k]
        BY <1>7, <2>2, <3>3
      <3>7. QED
        BY <3>1, <3>2, <3>5, <3>6
    <2>3. QED
      BY <2>1, <2>2
  <1>14. e[0] = 0
    BY <1>7, <1>9
  <1>15. Cut(r, e, D)
    BY <1>4, <1>9, <1>11, <1>12, <1>13, <1>14 DEF Cut
  <1>16. QED
    BY <1>3, <1>5, <1>15 DEF Joined

\* The bytes begin with those of the first packet; without it the others are joined.
LEMMA JoinedTail ==
    ASSUME NEW q \in Seq(Seq(Bytes)), q # <<>>, NEW B \in Seq(Bytes), Joined(q, B)
    PROVE  /\ Len(q[1]) <= Len(B)
           /\ \A k \in 1 .. Len(q[1]) : B[k] = q[1][k]
           /\ Joined(Tail(q), SubSeq(B, Len(q[1]) + 1, Len(B)))
  <1>1. PICK c : Cut(q, c, B)
    BY DEF Joined
  <1>2. PICK l \in Nat \ {0} : l = Len(q)
    OBVIOUS
  <1>3. /\ c \in [0 .. l -> Nat] /\ c[0] = 0 /\ c[l] = Len(B)
        /\ \A i, k \in 0 .. l : i <= k => c[i] <= c[k]
        /\ \A i \in 1 .. l : c[i] = c[i - 1] + Len(q[i])
        /\ \A i \in 1 .. l : \A k \in 1 .. Len(q[i]) : B[c[i - 1] + k] = q[i][k]
    BY <1>1, <1>2 DEF Cut
  <1>4. PICK n \in Nat : n = Len(q[1])
    BY <1>2
  <1>5. c[1] = n /\ n <= Len(B) /\ \A k \in 1 .. n : B[k] = q[1][k]
    <2>1. 1 \in 1 .. l /\ 1 - 1 = 0 /\ 1 \in 0 .. l /\ l \in 0 .. l /\ 1 <= l
      OBVIOUS
    <2>2. c[1] = c[1 - 1] + Len(q[1]) /\ c[1] <= c[l]
      BY <1>3, <2>1
    <2>3. \A k \in 1 .. Len(q[1]) : B[c[1 - 1] + k] = q[1][k]
      BY <1>3, <2>1
    <2>4. c[1 - 1] = 0 /\ c[l] = Len(B)
      BY <1>3, <2>1
    <2>5. c[1] = n /\ n <= Len(B)
      BY <1>4, <2>2, <2>4
    <2>6. ASSUME NEW k \in 1 .. n
          PROVE  B[k] = q[1][k]
      <3>1. k \in 1 .. Len(q[1]) /\ c[1 - 1] + k = k
        BY <1>4, <2>4
      <3>2. QED
        BY <2>3, <3>1
    <2>7. QED
      BY <2>5, <2>6
  <1>6. PICK r : r = Tail(q)
    OBVIOUS
  <1>7. r \in Seq(Seq(Bytes)) /\ Len(r) = l - 1 /\ \A i \in 1 .. l - 1 : r[i] = q[i + 1]
    <2>1. /\ Tail(q) \in Seq(Seq(Bytes)) /\ Len(Tail(q)) = Len(q) - 1
          /\ \A i \in 1 .. Len(Tail(q)) : Tail(q)[i] = q[i + 1]
      BY HeadTailProperties
    <2>2. QED
      BY <1>2, <1>6, <2>1
  <1>8. PICK D : D = SubSeq(B, n + 1, Len(B))
    OBVIOUS
  <1>9. Len(D) = Len(B) - n /\ \A k \in 1 .. Len(B) - n : D[k] = B[k + n]
    <2>1. n + 1 \in Nat \ {0} /\ Len(B) \in Nat /\ n + 1 <= Len(B) + 1 /\ Len(B) <= Len(B)
          /\ Len(B) - (n + 1) + 1 = Len(B) - n
      BY <1>5
    <2>2. /\ Len(D) = Len(B) - (n + 1) + 1
          /\ \A k \in 1 .. Len(B) - (n + 1) + 1 : D[k] = B[k + (n + 1) - 1]
      BY <1>8, <2>1, Piece
    <2>3. ASSUME NEW k \in 1 .. Len(B) - n
          PROVE  D[k] = B[k + n]
      <3>1. k \in 1 .. Len(B) - (n + 1) + 1 /\ k + (n + 1) - 1 = k + n
        BY <2>1
      <3>2. QED
        BY <2>2, <3>1
    <2>4. QED
      BY <2>1, <2>2, <2>3
  <1>10. PICK e : e = [i \in 0 .. l - 1 |-> c[i + 1] - n]
    OBVIOUS
  <1>11. \A i \in 0 .. l - 1 : i + 1 \in 0 .. l /\ i + 1 \in 1 .. l /\ 1 <= i + 1
    OBVIOUS
  <1>12. \A i \in 0 .. l - 1 : /\ e[i] = c[i + 1] - n /\ c[i + 1] >= n /\ c[i + 1] \in Nat
                               /\ e[i] \in Nat /\ c[i + 1] = e[i] + n
    <2>1. SUFFICES ASSUME NEW i \in 0 .. l - 1
                   PROVE  /\ e[i] = c[i + 1] - n /\ c[i + 1] >= n /\ c[i + 1] \in Nat
                          /\ e[i] \in Nat /\ c[i + 1] = e[i] + n
      OBVIOUS
    <2>2. i + 1 \in 0 .. l /\ 1 <= i + 1 /\ 1 \in 0 .. l
      OBVIOUS
    <2>3. c[1] <= c[i + 1] /\ c[i + 1] \in Nat
      BY <1>3, <2>2
    <2>4. e[i] = c[i + 1] - n
      BY <1>10
    <2>5. QED
      BY <1>5, <2>3, <2>4
  <1>13. e \in [0 .. l - 1 -> Nat]
    BY <1>10, <1>12
  <1>14. e[0] = 0 /\ e[l - 1] = Len(D)
    <2>1. 0 \in 0 .. l - 1 /\ l - 1 \in 0 .. l - 1 /\ 0 + 1 = 1 /\ (l - 1) + 1 = l
      OBVIOUS
    <2>2. e[0] = c[0 + 1] - n /\ e[l - 1] = c[(l - 1) + 1] - n
      BY <1>12, <2>1
    <2>3. QED
      BY <1>3, <1>5, <1>9, <2>1, <2>2, SMTT(30)
  <1>15. \A i, k \in 0 .. l - 1 : i <= k => e[i] <= e[k]
    <2>1. SUFFICES ASSUME NEW i \in 0 .. l - 1, NEW k \in 0 .. l - 1, i <= k
                   PROVE  e[i] <= e[k]
      OBVIOUS
    <2>2. i + 1 \in 0 .. l /\ k + 1 \in 0 .. l /\ i + 1 <= k + 1
      BY <2>1
    <2>3. c[i + 1] <= c[k + 1]
      BY <1>3, <2>2
    <2>4. QED
      BY <1>12, <2>3
  <1>16. ASSUME NEW i \in 1 .. l - 1
         PROVE  e[i] = e[i - 1] + Len(r[i])
    <2>1. /\ i \in 0 .. l - 1 /\ i - 1 \in 0 .. l - 1 /\ (i - 1) + 1 = i
          /\ i + 1 \in 1 .. l /\ (i + 1) - 1 = i
      OBVIOUS
    <2>2. c[i + 1] = c[(i + 1) - 1] + Len(q[i + 1])
      BY <1>3, <2>1
    <2>3. e[i] = c[i + 1] - n /\ c[(i - 1) + 1] = e[i - 1] + n /\ e[i - 1] \in Nat
      BY <1>12, <2>1
    <2>4. q[i + 1] \in Seq(Bytes) /\ r[i] = q[i + 1]
      BY <1>2, <1>7, <2>1
    <2>5. Len(q[i + 1]) \in Nat
      BY <2>4
    <2>6. QED
      BY <2>1, <2>2, <2>3, <2>4, <2>5
  <1>17. ASSUME NEW i \in 1 .. l - 1, NEW k \in 1 .. Len(r[i])
         PROVE  D[e[i - 1] + k] = r[i][k]
    <2>1. /\ i \in 0 .. l - 1 /\ i - 1 \in 0 .. l - 1 /\ (i - 1) + 1 = i
          /\ i + 1 \in 1 .. l /\ (i + 1) - 1 = i /\ l - 1 \in 0 .. l - 1 /\ i <= l - 1
      OBVIOUS
    <2>2. r[i] = q[i + 1] /\ k \in 1 .. Len(q[i + 1]) /\ k \in Nat
      BY <1>7
    <2>3. B[c[(i + 1) - 1] + k] = q[i + 1][k]
      BY <1>3, <2>1, <2>2
    <2>4. c[(i - 1) + 1] = e[i - 1] + n /\ e[i - 1] \in Nat /\ e[i] \in Nat
      BY <1>12, <2>1
    <2>5. e[i - 1] + k \in 1 .. Len(B) - n
      <3>1. e[i] <= e[l - 1]
        BY <1>15, <2>1
      <3>2. e[i] = e[i - 1] + Len(r[i]) /\ Len(r[i]) \in Nat
        BY <1>7, <1>16
      <3>3. e[l - 1] = Len(B) - n /\ Len(B) - n \in Nat
        BY <1>5, <1>9, <1>14
      <3>4. k \in Nat /\ 1 <= k /\ k <= Len(r[i])
        BY <3>2
      <3>5. QED
        BY <2>4, <3>1, <3>2, <3>3, <3>4, SMTT(30)
    <2>6. D[e[i - 1] + k] = B[(e[i - 1] + k) + n]
      BY <1>9, <2>5
    <2>7. (e[i - 1] + k) + n = c[(i + 1) - 1] + k
      BY <2>1, <2>2, <2>4
    <2>8. QED
      BY <2>2, <2>3, <2>6, <2>7
  <1>18. Cut(r, e, D)
    BY <1>7, <1>13, <1>14, <1>15, <1>16, <1>17 DEF Cut
  <1>19. QED
    BY <1>4, <1>5, <1>6, <1>8, <1>18 DEF Joined

\* Where there are bytes there is a packet.
LEMMA JoinedSome ==
    ASSUME NEW q \in Seq(Seq(Bytes)), NEW B \in Seq(Bytes), Joined(q, B), Len(B) > 0
    PROVE  q # <<>>
  BY DEF Joined, Cut

\* A packet of the master: whole, and either the message or the message encrypted.
LEMMA CarriesShape ==
    ASSUME PayloadsFit, NEW m \in Messages, NEW p, Carries(p, m)
    PROVE  /\ p \in Seq(Bytes) /\ Len(p) >= PacketLengthMin
           /\ DataLength(p) + 4 = Len(p)
           /\ \/ p[1] = ProtocolValue /\ p = RawData(m)
              \/ /\ p[1] = EncryptedProtocolValue /\ encrypted
                 /\ Salt(p) \in Salts
                 /\ EncryptedData(p) = MasterCipher(Salt(p), RawData(m))
  <1>1. /\ RawData(m) \in Seq(Bytes) /\ Len(RawData(m)) = Len(m.data) + 5
        /\ RawData(m)[1] = ProtocolValue
        /\ DataLength(RawData(m)) + 4 = Len(RawData(m))
    BY RawShape
  <1>2. CASE p = RawData(m)
    <2>1. Len(m.data) \in Nat
      BY MessageFits
    <2>2. Len(p) >= PacketLengthMin
      BY <1>1, <1>2, <2>1 DEF PacketLengthMin
    <2>3. QED
      BY <1>1, <1>2, <2>2
  <1>3. CASE encrypted /\ \E salt \in Salts :
                p = EncryptedRawData(salt, MasterCipher(salt, RawData(m)))
    <2>1. PICK salt \in Salts : p = EncryptedRawData(salt, MasterCipher(salt, RawData(m)))
      BY <1>3
    <2>2. salt \in Seq(Bytes)
      BY WireConstants
    <2>3. PICK cipher : cipher = MasterCipher(salt, RawData(m))
      OBVIOUS
    <2>4. cipher \in Seq(Bytes) /\ Len(cipher) = Len(RawData(m))
      BY <1>1, <2>2, <2>3, CipherType
    <2>5. p = EncryptedRawData(salt, cipher)
      BY <2>1, <2>3
    <2>6. /\ p \in Seq(Bytes) /\ Len(p) >= PacketLengthMin
          /\ p[1] = EncryptedProtocolValue
          /\ DataLength(p) + 4 = Len(p)
          /\ Salt(p) = salt /\ EncryptedData(p) = cipher
      BY <2>4, <2>5, EncryptedShape
    <2>7. QED
      BY <1>3, <2>3, <2>6
  <1>4. QED
    BY <1>2, <1>3 DEF Carries

-----------------------------------------------------------------------------
(***************************************************************************)
(* The stream.                                                             *)
(***************************************************************************)

\* Once the least size of a packet has been read, its head says what it is.
LEMMA FlightHead ==
    ASSUME PayloadsFit, lBytes \in Seq(Bytes), stream \in Seq(Bytes),
           sentIn \in Seq(Messages), NEW q, NEW n, Flight(q, n),
           Len(lBytes) >= PacketLengthMin
    PROVE  /\ q # <<>> /\ n + 1 \in 1 .. Len(sentIn) /\ sentIn[n + 1] \in Messages
           /\ Carries(q[1], sentIn[n + 1])
           /\ lBytes[1] = q[1][1] /\ PacketSize = Len(q[1]) /\ KnownProtocol
  <1>1. PICK B : B = lBytes \o stream
    OBVIOUS
  <1>2. /\ B \in Seq(Bytes) /\ Len(B) = Len(lBytes) + Len(stream)
        /\ \A k \in 1 .. Len(lBytes) : B[k] = lBytes[k]
    BY <1>1
  <1>3. q \in Seq(Seq(Bytes)) /\ n \in Nat /\ Len(sentIn) = n + Len(q) /\ Joined(q, B)
        /\ \A i \in 1 .. Len(q) : Carries(q[i], sentIn[n + i])
    BY <1>1 DEF Flight
  <1>4. q # <<>>
    <2>1. Len(B) > 0
      BY <1>2 DEF PacketLengthMin
    <2>2. q \in Seq(Seq(Bytes)) /\ B \in Seq(Bytes) /\ Joined(q, B)
      BY <1>2, <1>3
    <2>3. QED
      BY <2>1, <2>2, JoinedSome
  <1>5. 1 \in 1 .. Len(q) /\ n + 1 \in 1 .. Len(sentIn)
    BY <1>3, <1>4
  <1>6. sentIn[n + 1] \in Messages /\ Carries(q[1], sentIn[n + 1])
    BY <1>3, <1>5
  <1>7. /\ q[1] \in Seq(Bytes) /\ Len(q[1]) >= PacketLengthMin
        /\ DataLength(q[1]) + 4 = Len(q[1])
        /\ q[1][1] = ProtocolValue \/ q[1][1] = EncryptedProtocolValue
    BY <1>6, CarriesShape
  <1>8. \A k \in 1 .. Len(q[1]) : B[k] = q[1][k]
    <2>1. q \in Seq(Seq(Bytes)) /\ B \in Seq(Bytes) /\ Joined(q, B)
      BY <1>2, <1>3
    <2>2. QED
      BY <1>4, <2>1, JoinedTail
  <1>9. lBytes[1] = q[1][1] /\ lBytes[2] = q[1][2] /\ lBytes[3] = q[1][3]
    <2>1. /\ 1 \in 1 .. Len(q[1]) /\ 2 \in 1 .. Len(q[1]) /\ 3 \in 1 .. Len(q[1])
          /\ 1 \in 1 .. Len(lBytes) /\ 2 \in 1 .. Len(lBytes) /\ 3 \in 1 .. Len(lBytes)
      BY <1>7 DEF PacketLengthMin
    <2>2. QED
      BY <1>2, <1>8, <2>1
  <1>10. DataLength(lBytes) = DataLength(q[1])
    BY <1>9 DEF DataLength
  <1>11. QED
    BY <1>4, <1>5, <1>6, <1>7, <1>9, <1>10 DEF PacketSize, KnownProtocol

\* A whole packet is taken off: it is the first one under way, and the rest stays.
LEMMA FlightTake ==
    ASSUME PayloadsFit, lBytes \in Seq(Bytes), stream \in Seq(Bytes),
           sentIn \in Seq(Messages), NEW q, NEW n, Flight(q, n), Complete,
           lBytes' = Rest, UNCHANGED <<stream, sentIn, encrypted>>
    PROVE  /\ SubSeq(lBytes, 1, PacketSize) = q[1]
           /\ lBytes' \in Seq(Bytes)
           /\ Flight(Tail(q), n + 1)'
  <1>1. Len(lBytes) >= PacketLengthMin /\ Len(lBytes) >= PacketSize
    BY DEF Complete
  <1>2. /\ q # <<>> /\ n + 1 \in 1 .. Len(sentIn) /\ sentIn[n + 1] \in Messages
        /\ Carries(q[1], sentIn[n + 1]) /\ PacketSize = Len(q[1])
    BY <1>1, FlightHead
  <1>3. PICK B : B = lBytes \o stream
    OBVIOUS
  <1>4. PICK l \in Nat : l = Len(lBytes)
    OBVIOUS
  <1>5. /\ B \in Seq(Bytes) /\ Len(B) = l + Len(stream)
        /\ \A k \in 1 .. l : B[k] = lBytes[k]
        /\ \A k \in 1 .. Len(stream) : B[l + k] = stream[k]
    <2>1. /\ B \in Seq(Bytes) /\ Len(B) = Len(lBytes) + Len(stream)
          /\ \A i \in 1 .. Len(lBytes) + Len(stream) :
                B[i] = IF i <= Len(lBytes) THEN lBytes[i] ELSE stream[i - Len(lBytes)]
      BY <1>3, ConcatProperties, Zenon
    <2>2. ASSUME NEW k \in 1 .. Len(stream)
          PROVE  B[l + k] = stream[k]
      <3>1. /\ l + k \in 1 .. Len(lBytes) + Len(stream) /\ ~(l + k <= Len(lBytes))
            /\ (l + k) - Len(lBytes) = k
        BY <1>4
      <3>2. QED
        BY <2>1, <3>1
    <2>3. ASSUME NEW k \in 1 .. l
          PROVE  B[k] = lBytes[k]
      <3>1. k \in 1 .. Len(lBytes) + Len(stream) /\ k <= Len(lBytes)
        BY <1>4
      <3>2. QED
        BY <2>1, <3>1
    <2>4. B \in Seq(Bytes) /\ Len(B) = l + Len(stream)
      BY <1>4, <2>1
    <2>5. QED
      BY <2>2, <2>3, <2>4
  <1>6. q \in Seq(Seq(Bytes)) /\ n \in Nat /\ Len(sentIn) = n + Len(q) /\ Joined(q, B)
        /\ \A i \in 1 .. Len(q) : Carries(q[i], sentIn[n + i])
    BY <1>3 DEF Flight
  <1>7. q[1] \in Seq(Bytes)
    BY <1>2, <1>6
  <1>8. PICK s \in Nat : s = Len(q[1])
    BY <1>7
  <1>9. /\ s <= Len(B) /\ \A k \in 1 .. s : B[k] = q[1][k]
        /\ Joined(Tail(q), SubSeq(B, s + 1, Len(B)))
    <2>1. q \in Seq(Seq(Bytes)) /\ B \in Seq(Bytes) /\ Joined(q, B) /\ q # <<>>
      BY <1>2, <1>5, <1>6
    <2>2. QED
      BY <1>8, <2>1, JoinedTail
  <1>10. s <= l /\ PacketSize = s
    BY <1>1, <1>2, <1>4, <1>8
  <1>11. SubSeq(lBytes, 1, s) = q[1]
    <2>1. PICK a \in Nat \ {0} : a = 1
      OBVIOUS
    <2>2. ASSUME NEW k \in 1 .. Len(q[1])
          PROVE  lBytes[k + a - 1] = q[1][k]
      <3>1. k + a - 1 = k /\ k \in 1 .. s /\ k \in 1 .. l
        BY <1>8, <1>10, <2>1
      <3>2. QED
        BY <1>5, <1>9, <3>1
    <2>3. a + Len(q[1]) - 1 <= Len(lBytes) /\ a + Len(q[1]) - 1 = s
      BY <1>4, <1>8, <1>10, <2>1
    <2>4. SubSeq(lBytes, a, a + Len(q[1]) - 1) = q[1]
      BY <1>7, <2>2, <2>3, ContentPiece
    <2>5. QED
      BY <2>1, <2>3, <2>4
  <1>12. PICK r : r = Rest
    OBVIOUS
  <1>13. r \in Seq(Bytes) /\ Len(r) = l - s /\ \A k \in 1 .. l - s : r[k] = lBytes[k + s]
    <2>1. r = SubSeq(lBytes, s + 1, l)
      BY <1>4, <1>10, <1>12 DEF Rest
    <2>2. s + 1 \in Nat \ {0} /\ s + 1 <= l + 1 /\ l <= Len(lBytes) /\ l - (s + 1) + 1 = l - s
      BY <1>4, <1>10
    <2>3. /\ r \in Seq(Bytes) /\ Len(r) = l - (s + 1) + 1
          /\ \A k \in 1 .. l - (s + 1) + 1 : r[k] = lBytes[k + (s + 1) - 1]
      BY <2>1, <2>2, Piece
    <2>4. ASSUME NEW k \in 1 .. l - s
          PROVE  r[k] = lBytes[k + s]
      <3>1. k \in 1 .. l - (s + 1) + 1 /\ k + (s + 1) - 1 = k + s
        BY <2>2
      <3>2. QED
        BY <2>3, <3>1
    <2>5. QED
      BY <2>2, <2>3, <2>4
  <1>14. r \o stream = SubSeq(B, s + 1, Len(B))
    <2>1. PICK D : D = SubSeq(B, s + 1, Len(B))
      OBVIOUS
    <2>2. PICK b \in Nat : b = Len(B)
      BY <1>5
    <2>3. D \in Seq(Bytes) /\ Len(D) = b - s /\ \A k \in 1 .. b - s : D[k] = B[k + s]
      <3>1. s + 1 \in Nat \ {0} /\ s + 1 <= b + 1 /\ b <= Len(B) /\ b - (s + 1) + 1 = b - s
        BY <1>9, <2>2
      <3>2. /\ D \in Seq(Bytes) /\ Len(D) = b - (s + 1) + 1
            /\ \A k \in 1 .. b - (s + 1) + 1 : D[k] = B[k + (s + 1) - 1]
        BY <1>5, <2>1, <2>2, <3>1, Piece
      <3>3. ASSUME NEW k \in 1 .. b - s
            PROVE  D[k] = B[k + s]
        <4>1. k \in 1 .. b - (s + 1) + 1 /\ k + (s + 1) - 1 = k + s
          BY <3>1
        <4>2. QED
          BY <3>2, <4>1
      <3>4. QED
        BY <3>1, <3>2, <3>3
    <2>4. PICK E : E = r \o stream
      OBVIOUS
    <2>5. /\ E \in Seq(Bytes) /\ Len(E) = (l - s) + Len(stream)
          /\ \A k \in 1 .. (l - s) + Len(stream) :
                E[k] = IF k <= l - s THEN r[k] ELSE stream[k - (l - s)]
      <3>1. r \in Seq(Bytes)
        BY <1>13
      <3>2. /\ E \in Seq(Bytes) /\ Len(E) = Len(r) + Len(stream)
            /\ \A k \in 1 .. Len(r) + Len(stream) :
                  E[k] = IF k <= Len(r) THEN r[k] ELSE stream[k - Len(r)]
        BY <2>4, <3>1, ConcatProperties, Zenon
      <3>3. Len(r) = l - s
        BY <1>13
      <3>4. QED
        BY <3>2, <3>3
    <2>6. Len(E) = Len(D) /\ b = l + Len(stream) /\ Len(stream) \in Nat
      BY <1>5, <1>10, <2>2, <2>3, <2>5
    <2>7. ASSUME NEW k \in 1 .. b - s
          PROVE  E[k] = D[k]
      <3>1. k \in 1 .. (l - s) + Len(stream)
        BY <2>6
      <3>2. CASE k <= l - s
        <4>1. k \in 1 .. l - s /\ k + s \in 1 .. l
          BY <1>10, <3>2
        <4>2. E[k] = r[k] /\ r[k] = lBytes[k + s] /\ D[k] = B[k + s]
              /\ B[k + s] = lBytes[k + s]
          BY <1>5, <1>13, <2>3, <2>5, <3>1, <3>2, <4>1
        <4>3. QED
          BY <4>2
      <3>3. CASE ~(k <= l - s)
        <4>1. k - (l - s) \in 1 .. Len(stream) /\ l + (k - (l - s)) = k + s
          BY <1>10, <3>1, <3>3
        <4>2. E[k] = stream[k - (l - s)] /\ D[k] = B[k + s]
          BY <2>3, <2>5, <3>1, <3>3
        <4>3. B[l + (k - (l - s))] = stream[k - (l - s)]
          BY <1>5, <4>1
        <4>4. QED
          BY <4>1, <4>2, <4>3
      <3>4. QED
        BY <3>2, <3>3
    <2>8. E = D
      BY <2>3, <2>5, <2>6, <2>7, SameBytes
    <2>9. QED
      BY <2>1, <2>4, <2>8
  <1>15. Joined(Tail(q), lBytes' \o stream')
    BY <1>9, <1>12, <1>14
  <1>16. PICK t : t = Tail(q)
    OBVIOUS
  <1>17. t \in Seq(Seq(Bytes)) /\ Len(t) = Len(q) - 1
         /\ \A i \in 1 .. Len(q) - 1 : t[i] = q[i + 1]
    <2>1. /\ Tail(q) \in Seq(Seq(Bytes)) /\ Len(Tail(q)) = Len(q) - 1
          /\ \A i \in 1 .. Len(Tail(q)) : Tail(q)[i] = q[i + 1]
      BY <1>2, <1>6, HeadTailProperties
    <2>2. QED
      BY <1>16, <2>1
  <1>18. ASSUME NEW i \in 1 .. Len(t)
         PROVE  Carries(t[i], sentIn[(n + 1) + i])'
    <2>1. i + 1 \in 1 .. Len(q) /\ n + (i + 1) = (n + 1) + i /\ t[i] = q[i + 1]
      BY <1>6, <1>17
    <2>2. Carries(q[i + 1], sentIn[n + (i + 1)])
      BY <1>6, <2>1
    <2>3. Carries(t[i], sentIn[(n + 1) + i])
      BY <2>1, <2>2
    <2>4. QED
      BY <2>3 DEF Carries
  <1>19. Len(sentIn) = (n + 1) + Len(t) /\ n + 1 \in Nat
    BY <1>6, <1>17
  <1>20. Flight(t, n + 1)'
    BY <1>15, <1>16, <1>17, <1>18, <1>19 DEF Flight
  <1>21. QED
    BY <1>10, <1>11, <1>12, <1>13, <1>16, <1>20

\* What nobody takes off and nobody adds stays under way.
LEMMA FlightKept ==
    ASSUME NEW q, NEW n, Flight(q, n), lBytes' \o stream' = lBytes \o stream,
           UNCHANGED <<sentIn, encrypted>>
    PROVE  Flight(q, n)'
  <1>1. \A i \in 1 .. Len(q) : Carries(q[i], sentIn[n + i]) => Carries(q[i], sentIn[n + i])'
    BY DEF Carries
  <1>2. QED
    BY <1>1 DEF Flight

\* Reading moves bytes from the stream to lBytes.
LEMMA ReadMoves ==
    ASSUME lBytes \in Seq(Bytes), stream \in Seq(Bytes), NEW n \in 1 .. Len(stream),
           lBytes' = lBytes \o SubSeq(stream, 1, n),
           stream' = SubSeq(stream, n + 1, Len(stream))
    PROVE  lBytes' \in Seq(Bytes) /\ stream' \in Seq(Bytes) /\ lBytes' \o stream' = lBytes \o stream
  <1>1. PICK l \in Nat \ {0} : l = Len(stream)
    OBVIOUS
  <1>2. PICK a, b : a = SubSeq(stream, 1, n) /\ b = SubSeq(stream, n + 1, l)
    OBVIOUS
  <1>3. a \in Seq(Bytes)
    <2>1. 1 \in Nat \ {0} /\ n \in Nat /\ 1 <= n + 1 /\ n <= Len(stream)
      OBVIOUS
    <2>2. QED
      BY <1>2, <2>1, Piece
  <1>4. b \in Seq(Bytes)
    <2>1. n + 1 \in Nat \ {0} /\ l \in Nat /\ n + 1 <= l + 1 /\ l <= Len(stream)
      BY <1>1
    <2>2. QED
      BY <1>2, <2>1, Piece
  <1>5. a \o b = stream
    <2>1. PICK m \in 1 .. Len(stream) + 1 : m = 1
      BY <1>1
    <2>2. n \in m - 1 .. Len(stream) /\ l \in n .. Len(stream)
      BY <1>1, <2>1
    <2>3. SubSeq(stream, m, n) \o SubSeq(stream, n + 1, l) = SubSeq(stream, m, l)
      BY <2>2, ConcatAdjacentSubSeq
    <2>4. SubSeq(stream, 1, Len(stream)) = stream
      BY SubSeqFull
    <2>5. QED
      BY <1>1, <1>2, <2>1, <2>3, <2>4
  <1>6. (lBytes \o a) \o b = lBytes \o (a \o b)
    <2>1. PICK d : d = lBytes \o a
      OBVIOUS
    <2>2. d \o b = lBytes \o (a \o b)
      BY <1>3, <1>4, <2>1, ConcatAssociative, SMTT(30)
    <2>3. QED
      BY <2>1, <2>2
  <1>7. lBytes \o a \in Seq(Bytes)
    BY <1>3, ConcatProperties
  <1>8. QED
    BY <1>1, <1>2, <1>4, <1>5, <1>6, <1>7

\* A message the master makes is one.
LEMMA MasterMessage ==
    ASSUME NEW k \in Nat, NEW data \in Payloads
    PROVE  Message(Increment(k), data) \in Messages
  <1>1. k + 1 \in Nat
    OBVIOUS
  <1>2. Increment(k) \in Bytes
    BY <1>1, ByteOf, WireConstants DEF Increment
  <1>3. QED
    BY <1>2 DEF Messages

\* The master's packet joins those under way.
LEMMA FlightSend ==
    ASSUME PayloadsFit, lBytes \in Seq(Bytes), stream \in Seq(Bytes),
           sentIn \in Seq(Messages), NEW q, NEW n, Flight(q, n),
           NEW m \in Messages, NEW p, Carries(p, m), stream' = stream \o p,
           sentIn' = Append(sentIn, m), UNCHANGED <<lBytes, encrypted>>
    PROVE  stream' \in Seq(Bytes) /\ sentIn' \in Seq(Messages) /\ Flight(Append(q, p), n)'
  <1>1. p \in Seq(Bytes)
    BY CarriesShape
  <1>2. q \in Seq(Seq(Bytes)) /\ n \in Nat /\ Len(sentIn) = n + Len(q)
        /\ Joined(q, lBytes \o stream)
        /\ \A i \in 1 .. Len(q) : Carries(q[i], sentIn[n + i])
    BY DEF Flight
  <1>3. PICK B : B = lBytes \o stream
    OBVIOUS
  <1>4. B \in Seq(Bytes) /\ stream \o p \in Seq(Bytes)
    BY <1>1, <1>3, ConcatProperties
  <1>5. Joined(Append(q, p), B \o p)
    <2>1. q \in Seq(Seq(Bytes)) /\ B \in Seq(Bytes) /\ Joined(q, B)
      BY <1>2, <1>3, <1>4
    <2>2. QED
      BY <1>1, <2>1, JoinedAppend
  <1>6. B \o p = lBytes \o (stream \o p)
    BY <1>1, <1>3, ConcatAssociative
  <1>7. PICK r : r = Append(q, p)
    OBVIOUS
  <1>8. r \in Seq(Seq(Bytes)) /\ Len(r) = Len(q) + 1 /\ r[Len(q) + 1] = p
        /\ \A i \in 1 .. Len(q) : r[i] = q[i]
    BY <1>1, <1>2, <1>7, AppendProperties
  <1>9. /\ sentIn' \in Seq(Messages) /\ Len(sentIn') = Len(sentIn) + 1
        /\ sentIn'[Len(sentIn) + 1] = m
        /\ \A i \in 1 .. Len(sentIn) : sentIn'[i] = sentIn[i]
    BY AppendProperties
  <1>10. ASSUME NEW i \in 1 .. Len(r)
         PROVE  Carries(r[i], sentIn[n + i])'
    <2>1. CASE i \in 1 .. Len(q)
      <3>1. n + i \in 1 .. Len(sentIn)
        BY <1>2, <2>1
      <3>2. r[i] = q[i] /\ sentIn'[n + i] = sentIn[n + i] /\ Carries(q[i], sentIn[n + i])
        BY <1>2, <1>8, <1>9, <2>1, <3>1
      <3>3. QED
        BY <3>2 DEF Carries
    <2>2. CASE i = Len(q) + 1
      <3>1. n + i = Len(sentIn) + 1
        BY <1>2, <2>2
      <3>2. r[i] = p /\ sentIn'[n + i] = m
        BY <1>8, <1>9, <2>2, <3>1
      <3>3. QED
        BY <3>2 DEF Carries
    <2>3. i \in 1 .. Len(q) \/ i = Len(q) + 1
      <3>1. Len(q) \in Nat /\ Len(r) = Len(q) + 1
        BY <1>2, <1>8
      <3>2. QED
        BY <3>1
    <2>4. QED
      BY <2>1, <2>2, <2>3
  <1>11. Len(sentIn') = n + Len(r)
    BY <1>2, <1>8, <1>9
  <1>12. Joined(r, lBytes' \o stream')
    BY <1>5, <1>6, <1>7
  <1>13. Flight(r, n)'
    BY <1>2, <1>8, <1>10, <1>11, <1>12 DEF Flight
  <1>14. QED
    BY <1>4, <1>7, <1>9, <1>13

-----------------------------------------------------------------------------
(***************************************************************************)
(* Types.                                                                  *)
(***************************************************************************)

Calls == [busy : BOOLEAN, salt : Seq(Bytes), data : Seq(Bytes), done : Nat]

\* A call begins with the provider's variables typed, for its thread.
LEMMA BeginType ==
    ASSUME Rc4TypeOK, NEW t \in Threads, NEW data \in Seq(Bytes), NEW salt \in Seq(Bytes),
           BeginBlock(t, data, salt)
    PROVE  /\ Rc4TypeOK'
           /\ block'[t] = [busy |-> TRUE, salt |-> salt, data |-> data, done |-> 0]
           /\ \A u \in Threads \ {t} : block'[u] = block[u]
  <1>1. KeyValue \in [Bytes -> Bytes] /\ block \in [Threads -> Calls]
        /\ \A u \in Threads : block[u].done <= Len(block[u].data)
    BY DEF Rc4TypeOK, Calls
  <1>2. KeyValue' \in [Bytes -> Bytes]
    BY <1>1, SaltedType, WireConstants DEF BeginBlock
  <1>3. mI' \in Bytes /\ mJ' \in Bytes
    BY BytesType, WireConstants DEF BeginBlock
  <1>4. PICK c : c = [busy |-> TRUE, salt |-> salt, data |-> data, done |-> 0]
    OBVIOUS
  <1>5. c \in Calls /\ c.done <= Len(c.data)
    BY <1>4 DEF Calls
  <1>6. block' = [block EXCEPT ![t] = c]
    BY <1>4 DEF BeginBlock
  <1>7. block' \in [Threads -> Calls] /\ block'[t] = c
        /\ \A u \in Threads \ {t} : block'[u] = block[u]
    BY <1>1, <1>5, <1>6
  <1>8. \A u \in Threads : block'[u].done <= Len(block'[u].data)
    BY <1>1, <1>5, <1>7
  <1>9. QED
    BY <1>2, <1>3, <1>4, <1>7, <1>8 DEF Rc4TypeOK, Calls

\* One byte of a call: the box goes one step on, the byte is under its word.
LEMMA ByteType ==
    ASSUME Rc4TypeOK, NEW t \in Threads, TransformByte(t)
    PROVE  /\ Rc4TypeOK' /\ Box \in Boxes /\ Box' = PRGA(Box)
           /\ block'[t].busy = TRUE /\ block[t].busy = TRUE
           /\ block'[t].salt = block[t].salt
           /\ block'[t].done = block[t].done + 1
           /\ block[t].done + 1 \in 1 .. Len(block[t].data)
           /\ Len(block'[t].data) = Len(block[t].data)
           /\ \A k \in 1 .. Len(block[t].data) :
                 block'[t].data[k] = IF k = block[t].done + 1
                                       THEN Xor(block[t].data[k], Word(PRGA(Box)))
                                       ELSE block[t].data[k]
           /\ \A u \in Threads \ {t} : block'[u] = block[u]
  <1>1. KeyValue \in [Bytes -> Bytes] /\ block \in [Threads -> Calls]
        /\ mI \in Bytes /\ mJ \in Bytes
        /\ \A u \in Threads : block[u].done <= Len(block[u].data)
    BY DEF Rc4TypeOK, Calls
  <1>2. Box \in Boxes
    BY <1>1 DEF Box, Boxes
  <1>3. PRGA(Box) \in Boxes /\ Word(PRGA(Box)) \in Bytes
    BY <1>2, GeneratorType, WireConstants
  <1>4. KeyValue' = PRGA(Box).S /\ mI' = PRGA(Box).i /\ mJ' = PRGA(Box).j
    BY DEF TransformByte
  <1>5. Box' = PRGA(Box)
    BY <1>4 DEF Box, PRGA
  <1>6. KeyValue' \in [Bytes -> Bytes] /\ mI' \in Bytes /\ mJ' \in Bytes
    BY <1>3, <1>4 DEF Boxes
  <1>7. PICK old \in Calls : old = block[t]
    BY <1>1
  <1>8. PICK w \in Bytes : w = Word(PRGA(Box))
    BY <1>3
  <1>9. /\ old.data \in Seq(Bytes) /\ old.salt \in Seq(Bytes) /\ old.done \in Nat
        /\ old.busy = TRUE /\ old.done < Len(old.data)
    BY <1>7 DEF TransformByte, Calls
  <1>10. PICK k \in 1 .. Len(old.data) : k = old.done + 1
    BY <1>9
  <1>11. PICK e : e = Xor(old.data[k], w)
    OBVIOUS
  <1>12. e \in Bytes
    <2>1. old.data[k] \in Bytes
      BY <1>9
    <2>2. QED
      BY <1>8, <1>11, <2>1, XorUndoes, WireConstants
  <1>13. PICK d : d = [old.data EXCEPT ![k] = e]
    OBVIOUS
  <1>14. /\ d \in Seq(Bytes) /\ Len(d) = Len(old.data)
         /\ \A i \in 1 .. Len(old.data) : d[i] = IF i = k THEN e ELSE old.data[i]
    BY <1>9, <1>12, <1>13, ExceptSeq
  <1>15. PICK c : c = [busy |-> TRUE, salt |-> old.salt, data |-> d, done |-> k]
    OBVIOUS
  <1>16. c \in Calls /\ c.done <= Len(c.data)
    BY <1>9, <1>10, <1>14, <1>15 DEF Calls
  <1>17. block' = [block EXCEPT ![t] = c]
    <2>1. d = [old.data EXCEPT ![old.done + 1] = Xor(@, w)]
      BY <1>10, <1>11, <1>13
    <2>2. c = [busy |-> TRUE, salt |-> old.salt, data |-> d, done |-> old.done + 1]
      BY <1>10, <1>15
    <2>3. QED
      BY <1>7, <1>8, <2>1, <2>2 DEF TransformByte
  <1>18. block' \in [Threads -> Calls] /\ block'[t] = c
         /\ \A u \in Threads \ {t} : block'[u] = block[u]
    BY <1>1, <1>16, <1>17
  <1>19. \A u \in Threads : block'[u].done <= Len(block'[u].data)
    BY <1>1, <1>16, <1>18
  <1>20. Rc4TypeOK'
    BY <1>6, <1>18, <1>19 DEF Rc4TypeOK, Calls
  <1>21. c.busy = TRUE /\ c.salt = old.salt /\ c.done = k /\ c.data = d
    BY <1>15
  <1>22. QED
    BY <1>2, <1>5, <1>7, <1>8, <1>9, <1>10, <1>11, <1>14, <1>18, <1>20, <1>21

\* The end of a call.
LEMMA EndType ==
    ASSUME Rc4TypeOK, NEW t \in Threads, EndBlock(t)
    PROVE  /\ Rc4TypeOK' /\ block[t].busy = TRUE /\ block[t].done = Len(block[t].data)
           /\ block'[t] = NoBlock
           /\ \A u \in Threads \ {t} : block'[u] = block[u]
  <1>1. block \in [Threads -> Calls]
        /\ \A u \in Threads : block[u].done <= Len(block[u].data)
    BY DEF Rc4TypeOK, Calls
  <1>2. KeyValue' \in [Bytes -> Bytes]
    BY SetKeyType, WireConstants DEF EndBlock, mKeyValueLast
  <1>3. mI' \in Bytes /\ mJ' \in Bytes
    BY BytesType, WireConstants DEF EndBlock
  <1>4. NoBlock \in Calls /\ NoBlock.done <= Len(NoBlock.data)
    BY DEF Calls, NoBlock
  <1>5. block' = [block EXCEPT ![t] = NoBlock]
    BY DEF EndBlock
  <1>6. block' \in [Threads -> Calls] /\ block'[t] = NoBlock
        /\ \A u \in Threads \ {t} : block'[u] = block[u]
    BY <1>1, <1>4, <1>5
  <1>7. \A u \in Threads : block'[u].done <= Len(block'[u].data)
    BY <1>1, <1>4, <1>6
  <1>8. block[t].busy = TRUE /\ block[t].done = Len(block[t].data)
    BY <1>1 DEF EndBlock, Calls
  <1>9. QED
    BY <1>2, <1>3, <1>6, <1>7, <1>8 DEF Rc4TypeOK, Calls

\* At the start.
LEMMA InitType ==
    ASSUME Init
    PROVE  TypeInv
  <1> USE DEF Init
  <1>1. Rc4TypeOK
    <2>1. KeyValue \in [Bytes -> Bytes]
      BY SetKeyType, WireConstants DEF Rc4Init, mKeyValueLast
    <2>2. mI \in Bytes /\ mJ \in Bytes
      BY BytesType, WireConstants DEF Rc4Init
    <2>3. NoBlock \in Calls /\ NoBlock.done <= Len(NoBlock.data)
      BY DEF Calls, NoBlock
    <2>4. QED
      BY <2>1, <2>2, <2>3 DEF Rc4TypeOK, Rc4Init, Calls
  <1>2. uiThread \in BOOLEAN /\ encrypted \in BOOLEAN
    BY WireConstants
  <1>3. pc \in [Threads -> PC]
    BY DEF PC
  <1>4. MsgId \in Bytes /\ loaded \in [Senders -> Bytes]
    BY BytesType, WireConstants
  <1>5. stream \in Seq(Bytes) /\ lBytes \in Seq(Bytes)
    OBVIOUS
  <1>6. \A t \in Threads : block[t].busy <=> pc[t] \in {"encrypt", "decrypt"}
    BY DEF Rc4Init, NoBlock
  <1>7. PlaceInv
    BY WireConstants DEF PlaceInv, ReaderPC, SenderPC, NoMessage
  <1>8. FlightInv
    <2>1. PICK q, n : q = <<>> /\ n = 0
      OBVIOUS
    <2>2. Flight(q, n)
      <3>1. lBytes \o stream = <<>>
        OBVIOUS
      <3>2. QED
        BY <2>1, <3>1, JoinedEmpty DEF Flight
    <2>3. QED
      BY <2>2 DEF FlightInv
  <1>9. QED
    BY <1>1, <1>2, <1>3, <1>4, <1>5, <1>6, <1>7, <1>8 DEF TypeInv, TypeOK

\* A thread goes on to label; the others and their calls stay where they are.
Moves(t, label) ==
    /\ Goto(t, label) /\ label \in PC
    /\ \A u \in Threads \ {t} : block'[u] = block[u]
    /\ block'[t].busy <=> label \in {"encrypt", "decrypt"}

\* The program counters stay typed, and a thread is in a call where it says so.
LEMMA MoveType ==
    ASSUME TypeOK, NEW t \in Threads, NEW label, Moves(t, label)
    PROVE  /\ pc' \in [Threads -> PC] /\ pc'[t] = label
           /\ \A u \in Threads \ {t} : pc'[u] = pc[u]
           /\ \A u \in Threads : block'[u].busy <=> pc'[u] \in {"encrypt", "decrypt"}
  <1>1. pc' \in [Threads -> PC] /\ pc'[t] = label /\ \A u \in Threads \ {t} : pc'[u] = pc[u]
    BY DEF TypeOK, Moves, Goto
  <1>2. ASSUME NEW u \in Threads
        PROVE  block'[u].busy <=> pc'[u] \in {"encrypt", "decrypt"}
    <2>1. CASE u = t
      BY <1>1, <2>1 DEF Moves
    <2>2. CASE u # t
      BY <1>1, <2>2 DEF Moves, TypeOK
    <2>3. QED
      BY <2>1, <2>2
  <1>3. QED
    BY <1>1, <1>2

\* A sender's step keeps what the others hold.
LEMMA SenderPlace ==
    ASSUME TypeOK, PlaceInv, NEW t \in Senders, NEW label \in SenderPC, Moves(t, label),
           NEW m, NEW salt,
           sending' = [sending EXCEPT ![t] = [msg |-> m, salt |-> salt]],
           label \in {"built", "encrypt"} => m \in Messages,
           label = "encrypt" => salt \in Salts,
           UNCHANGED sentIn
    PROVE  PlaceInv'
  <1>1. t \in Threads /\ Reader \in Threads /\ t # Reader
    BY WireConstants
  <1>2. pc'[t] = label /\ \A u \in Threads \ {t} : pc'[u] = pc[u]
    BY <1>1, MoveType
  <1>3. sending = [u \in Senders |-> [msg |-> sending[u].msg, salt |-> sending[u].salt]]
    BY DEF PlaceInv
  <1>4. /\ sending'[t] = [msg |-> m, salt |-> salt]
        /\ \A u \in Senders \ {t} : sending'[u] = sending[u]
        /\ sending' = [u \in Senders |-> sending'[u]]
    BY <1>3
  <1>5. sending'[t].msg = m /\ sending'[t].salt = salt
    BY <1>4
  <1>6. sending' = [u \in Senders |-> [msg |-> sending'[u].msg, salt |-> sending'[u].salt]]
    <2>1. \A u \in Senders : sending'[u] = [msg |-> sending'[u].msg, salt |-> sending'[u].salt]
      BY <1>3, <1>4
    <2>2. QED
      BY <1>4, <2>1
  <1>7. pc'[Reader] \in ReaderPC
    BY <1>1, <1>2 DEF PlaceInv
  <1>8. ASSUME NEW u \in Senders
        PROVE  /\ pc'[u] \in SenderPC
               /\ pc'[u] \in {"built", "encrypt"} => sending'[u].msg \in Messages
               /\ pc'[u] = "encrypt" => sending'[u].salt \in Salts
    <2>1. CASE u = t
      BY <1>2, <1>5, <2>1
    <2>2. CASE u # t
      <3>1. u \in Threads
        BY WireConstants
      <3>2. pc'[u] = pc[u] /\ sending'[u] = sending[u]
        BY <1>2, <1>4, <2>2, <3>1
      <3>3. QED
        BY <3>2 DEF PlaceInv
    <2>3. QED
      BY <2>1, <2>2
  <1>9. QED
    BY <1>6, <1>7, <1>8 DEF PlaceInv

\* The read loop's step keeps what the senders hold.
LEMMA ReaderPlace ==
    ASSUME TypeOK, PlaceInv, NEW label \in ReaderPC, Moves(Reader, label),
           UNCHANGED <<sending, sentIn>>
    PROVE  PlaceInv'
  <1>1. Reader \in Threads /\ \A u \in Senders : u \in Threads \ {Reader}
    BY WireConstants
  <1>2. pc'[Reader] = label /\ \A u \in Threads \ {Reader} : pc'[u] = pc[u]
    BY <1>1, MoveType
  <1>3. QED
    BY <1>1, <1>2 DEF PlaceInv

\* The packets under way stay so while nobody touches the streams.
LEMMA FlightStill ==
    ASSUME FlightInv, UNCHANGED <<lBytes, stream, sentIn, encrypted>>
    PROVE  FlightInv'
  <1>1. PICK q, n : Flight(q, n)
    BY DEF FlightInv
  <1>2. Flight(q, n)'
    BY <1>1, FlightKept
  <1>3. QED
    BY <1>2 DEF FlightInv

\* A sender loads the counter.
LEMMA LoadType ==
    ASSUME TypeInv, NEW t \in Senders, LoadMsgId(t)
    PROVE  TypeInv'
  <1> USE DEF TypeInv
  <1>1. t \in Threads
    BY WireConstants
  <1>2. pc[t] = "idle" /\ ~block[t].busy
    BY <1>1 DEF LoadMsgId, TypeOK
  <1>3. Moves(t, "load")
    BY <1>2 DEF LoadMsgId, Moves, PC, rc4Vars
  <1>4. /\ pc' \in [Threads -> PC]
        /\ \A u \in Threads : block'[u].busy <=> pc'[u] \in {"encrypt", "decrypt"}
    BY <1>1, <1>3, MoveType
  <1>5. TypeOK'
    BY <1>4 DEF TypeOK, Rc4TypeOK, LoadMsgId, rc4Vars, readerVars
  <1>6. PlaceInv'
    <2>1. sending' = [sending EXCEPT ![t] = [msg |-> sending[t].msg, salt |-> sending[t].salt]]
      BY DEF LoadMsgId, PlaceInv
    <2>2. "load" \in SenderPC /\ UNCHANGED sentIn
      BY DEF LoadMsgId, SenderPC
    <2>3. QED
      BY <1>3, <2>1, <2>2, SenderPlace
  <1>7. FlightInv'
    BY FlightStill DEF LoadMsgId, readerVars
  <1>8. QED
    BY <1>5, <1>6, <1>7

\* The ID a sender stores is a byte, the message it has built a message.
LEMMA SerializeType ==
    ASSUME TypeInv, NEW t \in Senders, NEW data \in Payloads, Serialize(t, data)
    PROVE  TypeInv'
  <1> USE DEF TypeInv
  <1>1. t \in Threads
    BY WireConstants
  <1>2. pc[t] = "load" /\ ~block[t].busy
    BY <1>1 DEF Serialize, TypeOK
  <1>3. Moves(t, "built")
    BY <1>2 DEF Serialize, Moves, PC, rc4Vars
  <1>4. /\ pc' \in [Threads -> PC]
        /\ \A u \in Threads : block'[u].busy <=> pc'[u] \in {"encrypt", "decrypt"}
    BY <1>1, <1>3, MoveType
  <1>5. PICK k \in Nat : k = loaded[t]
    <2>1. loaded[t] \in Bytes
      BY DEF TypeOK
    <2>2. QED
      BY <2>1, BytesType, WireConstants
  <1>6. Message(Increment(k), data) \in Messages
    BY MasterMessage
  <1>7. Increment(k) \in Bytes
    <2>1. k + 1 \in Nat
      OBVIOUS
    <2>2. QED
      BY <2>1, ByteOf, WireConstants DEF Increment
  <1>8. TypeOK'
    BY <1>4, <1>5, <1>7 DEF TypeOK, Rc4TypeOK, Serialize, rc4Vars, readerVars
  <1>9. PlaceInv'
    <2>1. sending' = [sending EXCEPT ![t] = [msg |-> Message(Increment(k), data),
                                             salt |-> <<>>]]
      BY <1>5 DEF Serialize
    <2>2. "built" \in SenderPC /\ UNCHANGED sentIn
      BY DEF Serialize, SenderPC
    <2>3. QED
      BY <1>3, <1>6, <2>1, <2>2, SenderPlace
  <1>10. FlightInv'
    BY FlightStill DEF Serialize, readerVars
  <1>11. QED
    BY <1>8, <1>9, <1>10

\* Writing a packet ends the sending.
LEMMA WriteType ==
    ASSUME TypeInv, NEW t \in Senders, NEW bytes, Write(t, bytes),
           Rc4TypeOK', ~block'[t].busy, \A u \in Threads \ {t} : block'[u] = block[u],
           UNCHANGED <<uiThread, encrypted, MsgId, readerVars, sentIn>>
    PROVE  TypeInv'
  <1> USE DEF TypeInv
  <1>1. t \in Threads
    BY WireConstants
  <1>3. Moves(t, "idle")
    BY DEF Write, Moves, PC
  <1>4. /\ pc' \in [Threads -> PC]
        /\ \A u \in Threads : block'[u].busy <=> pc'[u] \in {"encrypt", "decrypt"}
    BY <1>1, <1>3, MoveType
  <1>5. loaded' \in [Senders -> Bytes]
    BY BytesType, WireConstants DEF Write, TypeOK
  <1>6. TypeOK'
    BY <1>4, <1>5 DEF TypeOK, readerVars
  <1>7. PlaceInv'
    <2>1. sending' = [sending EXCEPT ![t] = [msg |-> FromData(<<>>), salt |-> <<>>]]
      BY DEF Write, NoMessage
    <2>2. "idle" \in SenderPC
      BY DEF SenderPC
    <2>3. QED
      BY <1>3, <2>1, <2>2, SenderPlace
  <1>8. FlightInv'
    BY FlightStill DEF readerVars
  <1>9. QED
    BY <1>6, <1>7, <1>8

\* A plain message is written.
LEMMA SendPlainType ==
    ASSUME TypeInv, NEW t \in Senders, SendPlain(t)
    PROVE  TypeInv'
  <1>1. t \in Threads
    BY WireConstants
  <1>2. pc[t] = "built" /\ ~block[t].busy
    BY <1>1 DEF SendPlain, TypeInv, TypeOK
  <1>3. UNCHANGED rc4Vars /\ Rc4TypeOK
    BY DEF SendPlain, TypeInv, TypeOK
  <1>4. Rc4TypeOK' /\ ~block'[t].busy /\ \A u \in Threads \ {t} : block'[u] = block[u]
    BY <1>2, <1>3 DEF rc4Vars, Rc4TypeOK
  <1>5. QED
    BY <1>4, WriteType DEF SendPlain

\* A sender calls TransformBlock with bytes.
LEMMA SendEncryptedType ==
    ASSUME PayloadsFit, TypeInv, NEW t \in Senders, NEW salt \in Salts, SendEncrypted(t, salt)
    PROVE  TypeInv'
  <1> USE DEF TypeInv
  <1>1. t \in Threads
    BY WireConstants
  <1>2. pc[t] = "built" /\ sending[t].msg \in Messages
    BY <1>1 DEF SendEncrypted, PlaceInv
  <1>3. RawData(sending[t].msg) \in Seq(Bytes)
    BY <1>2, RawShape
  <1>4. salt \in Seq(Bytes)
    BY WireConstants
  <1>5. Rc4TypeOK' /\ block'[t].busy = TRUE /\ \A u \in Threads \ {t} : block'[u] = block[u]
    <2>1. BeginBlock(t, RawData(sending[t].msg), salt) /\ Rc4TypeOK
      BY DEF SendEncrypted, TypeOK
    <2>2. /\ Rc4TypeOK' /\ \A u \in Threads \ {t} : block'[u] = block[u]
          /\ block'[t] = [busy |-> TRUE, salt |-> salt,
                           data |-> RawData(sending[t].msg), done |-> 0]
      BY <1>1, <1>3, <1>4, <2>1, BeginType
    <2>3. QED
      BY <2>2
  <1>6. Moves(t, "encrypt")
    BY <1>5 DEF SendEncrypted, Moves, PC
  <1>7. /\ pc' \in [Threads -> PC]
        /\ \A u \in Threads : block'[u].busy <=> pc'[u] \in {"encrypt", "decrypt"}
    BY <1>1, <1>6, MoveType
  <1>8. TypeOK'
    BY <1>5, <1>7 DEF TypeOK, SendEncrypted, readerVars
  <1>9. PlaceInv'
    <2>1. sending' = [sending EXCEPT ![t] = [msg |-> sending[t].msg, salt |-> salt]]
      <3>1. sending' = [sending EXCEPT ![t].salt = salt]
        BY DEF SendEncrypted
      <3>2. sending = [u \in Senders |-> [msg |-> sending[u].msg, salt |-> sending[u].salt]]
        BY DEF PlaceInv
      <3>3. [sending[t] EXCEPT !.salt = salt] = [msg |-> sending[t].msg, salt |-> salt]
        BY <3>2
      <3>4. QED
        BY <3>1, <3>2, <3>3
    <2>2. "encrypt" \in SenderPC /\ UNCHANGED sentIn
      BY DEF SendEncrypted, SenderPC
    <2>3. QED
      BY <1>2, <1>6, <2>1, <2>2, SenderPlace
  <1>10. FlightInv'
    BY FlightStill DEF SendEncrypted, readerVars
  <1>11. QED
    BY <1>8, <1>9, <1>10

\* A byte is transformed, by a sender or the read loop.
LEMMA TransformType ==
    ASSUME TypeInv, NEW t \in Threads, Transform(t)
    PROVE  TypeInv'
  <1> USE DEF TypeInv
  <1>1. TransformByte(t) /\ Rc4TypeOK
    BY DEF Transform, TypeOK
  <1>2. /\ Rc4TypeOK' /\ block'[t].busy = TRUE /\ block[t].busy = TRUE
        /\ \A u \in Threads \ {t} : block'[u] = block[u]
    BY <1>1, ByteType
  <1>3. UNCHANGED <<uiThread, encrypted, pc, senderVars, readerVars, sentIn>>
    BY DEF Transform
  <1>4. \A u \in Threads : block'[u].busy <=> pc'[u] \in {"encrypt", "decrypt"}
    BY <1>2, <1>3 DEF TypeOK
  <1>5. TypeOK'
    BY <1>2, <1>3, <1>4 DEF TypeOK, senderVars, readerVars
  <1>6. PlaceInv'
    BY <1>3 DEF PlaceInv, senderVars
  <1>7. FlightInv'
    BY <1>3, FlightStill DEF readerVars
  <1>8. QED
    BY <1>5, <1>6, <1>7

\* An encrypted message is written.
LEMMA WriteEncryptedType ==
    ASSUME TypeInv, NEW t \in Senders, WriteEncrypted(t)
    PROVE  TypeInv'
  <1>1. t \in Threads
    BY WireConstants
  <1>2. EndBlock(t) /\ Rc4TypeOK
    BY DEF WriteEncrypted, TypeInv, TypeOK
  <1>3. Rc4TypeOK' /\ block'[t] = NoBlock /\ \A u \in Threads \ {t} : block'[u] = block[u]
    BY <1>1, <1>2, EndType
  <1>4. ~block'[t].busy
    BY <1>3 DEF NoBlock
  <1>5. QED
    BY <1>3, <1>4, WriteType DEF WriteEncrypted

\* The read loop reads: bytes move, none is lost.
LEMMA ReadAsyncType ==
    ASSUME TypeInv, NEW n \in 1 .. Len(stream), ReadAsync(n)
    PROVE  TypeInv'
  <1> USE DEF TypeInv
  <1>1. Reader \in Threads
    BY WireConstants
  <1>2. pc[Reader] = "read" /\ ~block[Reader].busy
    BY <1>1 DEF ReadAsync, TypeOK
  <1>3. Moves(Reader, "parse")
    BY <1>2 DEF ReadAsync, Moves, PC, rc4Vars
  <1>4. /\ pc' \in [Threads -> PC]
        /\ \A u \in Threads : block'[u].busy <=> pc'[u] \in {"encrypt", "decrypt"}
    BY <1>1, <1>3, MoveType
  <1>5. /\ lBytes' \in Seq(Bytes) /\ stream' \in Seq(Bytes)
        /\ lBytes' \o stream' = lBytes \o stream
    <2>1. lBytes \in Seq(Bytes) /\ stream \in Seq(Bytes)
      BY DEF TypeOK
    <2>2. QED
      BY <2>1, ReadMoves DEF ReadAsync
  <1>6. TypeOK'
    BY <1>4, <1>5 DEF TypeOK, Rc4TypeOK, ReadAsync, rc4Vars, senderVars
  <1>7. PlaceInv'
    BY <1>3, ReaderPlace DEF ReadAsync, senderVars, ReaderPC
  <1>8. FlightInv'
    <2>1. PICK q, k : Flight(q, k)
      BY DEF FlightInv
    <2>2. UNCHANGED <<sentIn, encrypted>>
      BY DEF ReadAsync
    <2>3. Flight(q, k)'
      BY <1>5, <2>1, <2>2, FlightKept
    <2>4. QED
      BY <2>3 DEF FlightInv
  <1>9. QED
    BY <1>6, <1>7, <1>8

\* The read loop never meets an unknown protocol: it throws nothing away.
LEMMA AwaitKeeps ==
    ASSUME PayloadsFit, TypeInv, AwaitMore
    PROVE  lBytes' = lBytes
  <1>1. PICK q, n : Flight(q, n)
    BY DEF TypeInv, FlightInv
  <1>2. lBytes \in Seq(Bytes) /\ stream \in Seq(Bytes) /\ sentIn \in Seq(Messages)
    BY DEF TypeInv, TypeOK, PlaceInv
  <1>3. Len(lBytes) >= PacketLengthMin => KnownProtocol
    BY <1>1, <1>2, FlightHead
  <1>4. QED
    BY <1>3 DEF AwaitMore

\* The read loop waits for more.
LEMMA AwaitType ==
    ASSUME PayloadsFit, TypeInv, AwaitMore
    PROVE  TypeInv'
  <1>0. lBytes' = lBytes
    BY AwaitKeeps
  <1> USE DEF TypeInv
  <1>1. Reader \in Threads
    BY WireConstants
  <1>2. pc[Reader] = "parse" /\ ~block[Reader].busy
    BY <1>1 DEF AwaitMore, TypeOK
  <1>3. Moves(Reader, "read")
    BY <1>2 DEF AwaitMore, Moves, PC, rc4Vars
  <1>4. /\ pc' \in [Threads -> PC]
        /\ \A u \in Threads : block'[u].busy <=> pc'[u] \in {"encrypt", "decrypt"}
    BY <1>1, <1>3, MoveType
  <1>5. UNCHANGED <<rc4Vars, uiThread, encrypted, senderVars, stream, sentIn>>
    BY DEF AwaitMore
  <1>6. TypeOK'
    BY <1>0, <1>4, <1>5 DEF TypeOK, Rc4TypeOK, rc4Vars, senderVars
  <1>7. PlaceInv'
    BY <1>3, <1>5, ReaderPlace DEF senderVars, ReaderPC
  <1>8. FlightInv'
    BY <1>0, <1>5, FlightStill
  <1>9. QED
    BY <1>6, <1>7, <1>8

\* A whole packet at the head of lBytes is the first one under way: what it is, and
\* what is under way when it has been taken.
LEMMA PacketTaken ==
    ASSUME PayloadsFit, TypeInv, NEW q, NEW n, Flight(q, n), Complete,
           lBytes' = Rest, UNCHANGED <<stream, sentIn, encrypted>>
    PROVE  /\ n \in Nat /\ n + 1 \in 1 .. Len(sentIn) /\ sentIn[n + 1] \in Messages
           /\ Carries(SubSeq(lBytes, 1, PacketSize), sentIn[n + 1])
           /\ SubSeq(lBytes, 1, PacketSize)[1] = lBytes[1]
           /\ lBytes' \in Seq(Bytes)
           /\ Flight(Tail(q), n + 1)'
  <1>1. lBytes \in Seq(Bytes) /\ stream \in Seq(Bytes) /\ sentIn \in Seq(Messages)
    BY DEF TypeInv, TypeOK, PlaceInv
  <1>2. /\ SubSeq(lBytes, 1, PacketSize) = q[1]
        /\ lBytes' \in Seq(Bytes) /\ Flight(Tail(q), n + 1)'
    BY <1>1, FlightTake
  <1>3. Len(lBytes) >= PacketLengthMin
    BY DEF Complete
  <1>4. /\ n + 1 \in 1 .. Len(sentIn) /\ sentIn[n + 1] \in Messages
        /\ Carries(q[1], sentIn[n + 1]) /\ lBytes[1] = q[1][1]
    BY <1>1, <1>3, FlightHead
  <1>5. n \in Nat
    BY DEF Flight
  <1>6. QED
    BY <1>2, <1>4, <1>5

\* The read loop takes a plain packet.
LEMMA PlainPacketType ==
    ASSUME PayloadsFit, TypeInv, PlainPacket
    PROVE  TypeInv'
  <1>1. Reader \in Threads
    BY WireConstants
  <1>2. pc[Reader] = "parse" /\ ~block[Reader].busy
    BY <1>1 DEF PlainPacket, TypeInv, TypeOK
  <1>3. PICK label \in {"parse", "ended"} : Goto(Reader, label)
    BY DEF PlainPacket, HandOn
  <1>4. UNCHANGED <<rc4Vars, uiThread, encrypted, senderVars, stream, sentIn>>
    BY DEF PlainPacket
  <1>5. Moves(Reader, label)
    BY <1>2, <1>3, <1>4 DEF Moves, PC, rc4Vars
  <1>6. /\ pc' \in [Threads -> PC]
        /\ \A u \in Threads : block'[u].busy <=> pc'[u] \in {"encrypt", "decrypt"}
    BY <1>1, <1>5, MoveType DEF TypeInv
  <1>7. PICK q, n : Flight(q, n)
    BY DEF TypeInv, FlightInv
  <1>8. lBytes' \in Seq(Bytes) /\ Flight(Tail(q), n + 1)'
    BY <1>4, <1>7, PacketTaken DEF PlainPacket
  <1>9. TypeOK'
    BY <1>4, <1>6, <1>8 DEF TypeInv, TypeOK, Rc4TypeOK, rc4Vars, senderVars
  <1>10. PlaceInv'
    BY <1>4, <1>5, ReaderPlace DEF TypeInv, senderVars, ReaderPC
  <1>11. FlightInv'
    BY <1>8 DEF FlightInv
  <1>12. QED
    BY <1>9, <1>10, <1>11 DEF TypeInv

\* What the read loop passes to TransformBlock is the salt and the encrypted message.
LEMMA EncryptedTaken ==
    ASSUME PayloadsFit, TypeInv, NEW q, NEW n, Flight(q, n), EncryptedPacket,
           NEW bytes, bytes = SubSeq(lBytes, 1, PacketSize)
    PROVE  /\ encrypted /\ n \in Nat /\ n + 1 \in 1 .. Len(sentIn)
           /\ sentIn[n + 1] \in Messages /\ Salt(bytes) \in Salts
           /\ EncryptedData(bytes) = MasterCipher(Salt(bytes), RawData(sentIn[n + 1]))
           /\ EncryptedData(bytes) \in Seq(Bytes) /\ Salt(bytes) \in Seq(Bytes)
           /\ lBytes' \in Seq(Bytes) /\ Flight(Tail(q), n + 1)'
  <1>1. /\ Complete /\ lBytes[1] = EncryptedProtocolValue /\ lBytes' = Rest
        /\ UNCHANGED <<stream, sentIn, encrypted>>
    BY DEF EncryptedPacket
  <1>2. PICK m \in Messages : m = sentIn[n + 1]
    BY <1>1, PacketTaken
  <1>3. /\ n \in Nat /\ n + 1 \in 1 .. Len(sentIn)
        /\ Carries(bytes, m) /\ bytes[1] = EncryptedProtocolValue
        /\ lBytes' \in Seq(Bytes) /\ Flight(Tail(q), n + 1)'
    BY <1>1, <1>2, PacketTaken
  <1>4. /\ encrypted /\ Salt(bytes) \in Salts
        /\ EncryptedData(bytes) = MasterCipher(Salt(bytes), RawData(m))
    <2>1. \/ bytes[1] = ProtocolValue
          \/ /\ encrypted /\ Salt(bytes) \in Salts
             /\ EncryptedData(bytes) = MasterCipher(Salt(bytes), RawData(m))
      BY <1>3, CarriesShape
    <2>2. EncryptedProtocolValue # ProtocolValue
      BY DEF ProtocolValue, EncryptedProtocolValue
    <2>3. QED
      BY <1>3, <2>1, <2>2, Zenon
  <1>5. Salt(bytes) \in Seq(Bytes) /\ RawData(m) \in Seq(Bytes)
    BY <1>4, RawShape, WireConstants
  <1>6. MasterCipher(Salt(bytes), RawData(m)) \in Seq(Bytes)
    BY <1>5, CipherType
  <1>7. QED
    BY <1>2, <1>3, <1>4, <1>5, <1>6

\* The read loop takes an encrypted packet and calls TransformBlock with bytes.
LEMMA EncryptedPacketType ==
    ASSUME PayloadsFit, TypeInv, EncryptedPacket
    PROVE  TypeInv'
  <1>1. Reader \in Threads
    BY WireConstants
  <1>2. PICK q, n : Flight(q, n)
    BY DEF TypeInv, FlightInv
  <1>3. PICK bytes : bytes = SubSeq(lBytes, 1, PacketSize)
    OBVIOUS
  <1>4. /\ encrypted /\ EncryptedData(bytes) \in Seq(Bytes) /\ Salt(bytes) \in Seq(Bytes)
        /\ lBytes' \in Seq(Bytes) /\ Flight(Tail(q), n + 1)'
    BY <1>2, <1>3, EncryptedTaken
  <1>5. BeginBlock(Reader, EncryptedData(bytes), Salt(bytes)) /\ Goto(Reader, "decrypt")
    BY <1>3, <1>4 DEF EncryptedPacket
  <1>6. UNCHANGED <<uiThread, encrypted, senderVars, stream, sentIn>>
    BY DEF EncryptedPacket
  <1>7. /\ Rc4TypeOK' /\ \A u \in Threads \ {Reader} : block'[u] = block[u]
        /\ block'[Reader].busy = TRUE
    <2>1. Rc4TypeOK
      BY DEF TypeInv, TypeOK
    <2>2. PICK d \in Seq(Bytes), s \in Seq(Bytes) : BeginBlock(Reader, d, s)
      BY <1>4, <1>5
    <2>3. /\ Rc4TypeOK' /\ \A u \in Threads \ {Reader} : block'[u] = block[u]
          /\ block'[Reader] = [busy |-> TRUE, salt |-> s, data |-> d, done |-> 0]
      BY <1>1, <2>1, <2>2, BeginType
    <2>4. QED
      BY <2>3
  <1>8. Moves(Reader, "decrypt")
    BY <1>5, <1>7 DEF Moves, PC
  <1>9. /\ pc' \in [Threads -> PC]
        /\ \A u \in Threads : block'[u].busy <=> pc'[u] \in {"encrypt", "decrypt"}
    BY <1>1, <1>8, MoveType DEF TypeInv
  <1>10. TypeOK'
    BY <1>4, <1>6, <1>7, <1>9 DEF TypeInv, TypeOK, senderVars
  <1>11. PlaceInv'
    BY <1>6, <1>8, ReaderPlace DEF TypeInv, senderVars, ReaderPC
  <1>12. FlightInv'
    BY <1>4 DEF FlightInv
  <1>13. QED
    BY <1>10, <1>11, <1>12 DEF TypeInv

\* The read loop goes on with a decrypted packet, whatever it is.
LEMMA DecryptedType ==
    ASSUME TypeInv, Decrypted
    PROVE  TypeInv'
  <1>1. Reader \in Threads
    BY WireConstants
  <1>2. EndBlock(Reader) /\ Rc4TypeOK
    BY DEF Decrypted, TypeInv, TypeOK
  <1>3. Rc4TypeOK' /\ block'[Reader] = NoBlock
        /\ \A u \in Threads \ {Reader} : block'[u] = block[u]
    BY <1>1, <1>2, EndType
  <1>4. PICK label \in {"parse", "ended"} : Goto(Reader, label)
    BY DEF Decrypted, HandOn
  <1>5. UNCHANGED <<uiThread, encrypted, senderVars, stream, lBytes, sentIn>>
    BY DEF Decrypted
  <1>6. Moves(Reader, label)
    BY <1>3, <1>4 DEF Moves, PC, NoBlock
  <1>7. /\ pc' \in [Threads -> PC]
        /\ \A u \in Threads : block'[u].busy <=> pc'[u] \in {"encrypt", "decrypt"}
    BY <1>1, <1>6, MoveType DEF TypeInv
  <1>8. TypeOK'
    BY <1>3, <1>5, <1>7 DEF TypeInv, TypeOK, senderVars
  <1>9. PlaceInv'
    BY <1>5, <1>6, ReaderPlace DEF TypeInv, senderVars, ReaderPC
  <1>10. FlightInv'
    BY <1>5, FlightStill DEF TypeInv
  <1>11. QED
    BY <1>8, <1>9, <1>10 DEF TypeInv

\* The master sends a message.
LEMMA MasterAdds ==
    ASSUME PayloadsFit, TypeInv, NEW data \in Payloads, MasterSends(data),
           NEW q, NEW n, Flight(q, n)
    PROVE  /\ stream' \in Seq(Bytes) /\ sentIn' \in Seq(Messages)
           /\ \E m \in Messages : sentIn' = Append(sentIn, m)
           /\ \E p : Flight(Append(q, p), n)'
  <1>1. lBytes \in Seq(Bytes) /\ stream \in Seq(Bytes) /\ sentIn \in Seq(Messages)
    BY DEF TypeInv, TypeOK, PlaceInv
  <1>2. PICK m \in Messages : m = Message(Increment(Len(sentIn)), data)
    BY <1>1, MasterMessage
  <1>3. sentIn' = Append(sentIn, m) /\ UNCHANGED <<lBytes, encrypted>>
    BY <1>2 DEF MasterSends
  <1>4. PICK p : Carries(p, m) /\ stream' = stream \o p
    BY <1>2 DEF MasterSends, Carries
  <1>5. stream' \in Seq(Bytes) /\ sentIn' \in Seq(Messages) /\ Flight(Append(q, p), n)'
    BY <1>1, <1>3, <1>4, FlightSend
  <1>6. QED
    BY <1>3, <1>5

\* The master's packets are bytes.
LEMMA MasterSendsType ==
    ASSUME PayloadsFit, TypeInv, NEW data \in Payloads, MasterSends(data)
    PROVE  TypeInv'
  <1>1. PICK q, n : Flight(q, n)
    BY DEF TypeInv, FlightInv
  <1>2. stream' \in Seq(Bytes) /\ sentIn' \in Seq(Messages) /\ \E p : Flight(Append(q, p), n)'
    BY <1>1, MasterAdds
  <1>3. UNCHANGED <<rc4Vars, uiThread, encrypted, pc, senderVars, lBytes>>
    BY DEF MasterSends
  <1>4. TypeOK'
    BY <1>2, <1>3 DEF TypeInv, TypeOK, Rc4TypeOK, rc4Vars, senderVars
  <1>5. PlaceInv'
    BY <1>2, <1>3 DEF TypeInv, PlaceInv, senderVars
  <1>6. FlightInv'
    BY <1>2 DEF FlightInv
  <1>7. QED
    BY <1>4, <1>5, <1>6 DEF TypeInv

\* Every step keeps the types, what threads hold, and the packets whole.
LEMMA TypeStep ==
    ASSUME PayloadsFit, TypeInv, [Next]_vars
    PROVE  TypeInv'
  <1>1. CASE UNCHANGED vars
    <2>1. UNCHANGED <<rc4Vars, uiThread, encrypted, pc, senderVars, readerVars, sentIn>>
      BY <1>1 DEF vars
    <2>2. TypeOK'
      BY <2>1 DEF TypeInv, TypeOK, Rc4TypeOK, rc4Vars, senderVars, readerVars
    <2>3. PlaceInv'
      BY <2>1 DEF TypeInv, PlaceInv, senderVars
    <2>4. FlightInv'
      BY <2>1, FlightStill DEF TypeInv, readerVars
    <2>5. QED
      BY <2>2, <2>3, <2>4 DEF TypeInv
  <1>2. CASE \E t \in Senders : Sender(t)
    <2>1. PICK t \in Senders : Sender(t)
      BY <1>2
    <2>2. t \in Threads
      BY WireConstants
    <2>3. QED
      BY <2>1, <2>2, LoadType, SerializeType, SendPlainType, SendEncryptedType,
         TransformType, WriteEncryptedType DEF Sender
  <1>3. CASE ReadLoop
    <2>1. Reader \in Threads
      BY WireConstants
    <2>2. QED
      BY <1>3, <2>1, ReadAsyncType, AwaitType, PlainPacketType, EncryptedPacketType,
         TransformType, DecryptedType DEF ReadLoop
  <1>4. CASE \E data \in Payloads : MasterSends(data)
    BY <1>4, MasterSendsType
  <1>5. QED
    BY <1>1, <1>2, <1>3, <1>4 DEF Next

\* In every session, overlapping calls included, what is read, written and kept are
\* bytes and messages: no index leaves a packet, no ID its byte, the provider's box
\* stays a box, and a thread is in TransformBlock exactly where it says so.
THEOREM TypeCorrect == PayloadsFit /\ Spec => []TypeOK
  <1> SUFFICES ASSUME PayloadsFit
               PROVE  Spec => []TypeOK
    OBVIOUS
  <1>1. Init => TypeInv
    BY InitType
  <1>2. TypeInv /\ [Next]_vars => TypeInv'
    BY TypeStep
  <1>3. TypeInv => TypeOK
    BY DEF TypeInv
  <1>4. QED
    BY <1>1, <1>2, <1>3, PTL DEF Spec

-----------------------------------------------------------------------------
(***************************************************************************)
(* Calls of the provider.                                                  *)
(***************************************************************************)

\* A call starts where the master's box does: nobody else has salted the key.
LEMMA HalfwayStart ==
    ASSUME IInv, Rc4TypeOK, NEW t \in Threads, encrypted, pc[t] \notin Resting,
           NEW data \in Seq(Bytes), NEW salt \in Seq(Bytes), BeginBlock(t, data, salt)
    PROVE  block'[t].salt = salt /\ Halfway(t, data)'
  <1>1. \A u \in Threads : ~block[u].busy
    BY FreshKey DEF BeginBlock
  <1>2. KeyValue = mKeyValueLast
    BY <1>1 DEF IInv, KeyInv
  <1>3. block'[t] = [busy |-> TRUE, salt |-> salt, data |-> data, done |-> 0]
    BY BeginType
  <1>4. block'[t].salt = salt /\ block'[t].data = data /\ block'[t].done = 0
    BY <1>3
  <1>5. Box' = FirstBox(salt)
    BY <1>2 DEF BeginBlock, Box, FirstBox
  <1>6. PICK n \in Nat : n = Len(data)
    OBVIOUS
  <1>7. MasterBox(salt, n)[0] = FirstBox(salt)
    BY MasterBoxGoes
  <1>8. ASSUME NEW k \in 1 .. n
        PROVE  ~(k <= 0)
    OBVIOUS
  <1>9. QED
    BY <1>4, <1>5, <1>6, <1>7, <1>8 DEF Halfway

\* A byte more: the box goes on like the master's.
LEMMA HalfwayByte ==
    ASSUME Rc4TypeOK, NEW t \in Threads, TransformByte(t), NEW orig \in Seq(Bytes),
           Halfway(t, orig)
    PROVE  block'[t].salt = block[t].salt /\ Halfway(t, orig)'
  <1>1. PICK n \in Nat : n = Len(orig)
    OBVIOUS
  <1>2. PICK salt \in Seq(Bytes) : salt = block[t].salt
    BY DEF Rc4TypeOK
  <1>3. PICK k \in Nat : k = block[t].done
    BY DEF Rc4TypeOK
  <1>4. PICK d : d = block[t].data
    OBVIOUS
  <1>5. PICK mb : mb = MasterBox(salt, n)
    OBVIOUS
  <1>6. /\ Len(d) = n
        /\ \A i \in 1 .. n : d[i] = IF i <= k THEN Xor(orig[i], Word(mb[i])) ELSE orig[i]
        /\ Box = mb[k]
    BY <1>1, <1>2, <1>3, <1>4, <1>5 DEF Halfway
  <1>7. /\ Box' = PRGA(Box) /\ block'[t].salt = salt /\ block'[t].done = k + 1
        /\ k + 1 \in 1 .. n /\ Len(block'[t].data) = n
        /\ \A i \in 1 .. n : block'[t].data[i] =
               IF i = k + 1 THEN Xor(d[i], Word(PRGA(Box))) ELSE d[i]
    BY <1>2, <1>3, <1>4, <1>6, ByteType
  <1>8. mb[k + 1] = PRGA(Box)
    <2>1. \A i \in 1 .. n : mb[i] = PRGA(mb[i - 1])
      BY <1>5, MasterBoxGoes
    <2>2. (k + 1) - 1 = k
      OBVIOUS
    <2>3. QED
      BY <1>6, <1>7, <2>1, <2>2
  <1>9. ASSUME NEW i \in 1 .. n
        PROVE  block'[t].data[i] = IF i <= k + 1 THEN Xor(orig[i], Word(mb[i])) ELSE orig[i]
    <2>1. CASE i = k + 1
      <3>1. ~(i <= k) /\ i <= k + 1
        BY <2>1
      <3>2. d[i] = orig[i]
        BY <1>6, <3>1
      <3>3. QED
        BY <1>7, <1>8, <2>1, <3>1, <3>2
    <2>2. CASE i # k + 1
      <3>1. i <= k <=> i <= k + 1
        BY <2>2
      <3>2. QED
        BY <1>6, <1>7, <2>2, <3>1
    <2>3. QED
      BY <2>1, <2>2
  <1>10. Box' = mb[k + 1]
    BY <1>7, <1>8
  <1>11. QED
    BY <1>1, <1>2, <1>5, <1>7, <1>9, <1>10 DEF Halfway

\* A call that has done all bytes has encrypted them as the master would.
LEMMA HalfwayEnd ==
    ASSUME Rc4TypeOK, NEW t \in Threads, NEW orig \in Seq(Bytes), Halfway(t, orig),
           block[t].done = Len(block[t].data)
    PROVE  block[t].data = MasterCipher(block[t].salt, orig)
  <1>1. PICK n \in Nat : n = Len(orig)
    OBVIOUS
  <1>2. PICK salt \in Seq(Bytes) : salt = block[t].salt
    BY DEF Rc4TypeOK
  <1>3. PICK d \in Seq(Bytes) : d = block[t].data
    BY DEF Rc4TypeOK
  <1>4. /\ Len(d) = n /\ block[t].done = n
        /\ \A i \in 1 .. n : d[i] = IF i <= n THEN Xor(orig[i], Word(MasterBox(salt, n)[i]))
                                    ELSE orig[i]
    BY <1>1, <1>2, <1>3 DEF Halfway
  <1>5. \A i \in 1 .. n : d[i] = Xor(orig[i], Word(MasterBox(salt, n)[i]))
    BY <1>4
  <1>6. PICK c : c = MasterCipher(salt, orig)
    OBVIOUS
  <1>7. /\ c \in Seq(Bytes) /\ Len(c) = n
        /\ \A i \in 1 .. n : c[i] = Xor(orig[i], Word(MasterBox(salt, n)[i]))
    BY <1>1, <1>6, CipherType
  <1>8. d = c
    BY <1>4, <1>5, <1>7, SameBytes
  <1>9. QED
    BY <1>2, <1>3, <1>6, <1>8

\* While a thread is in a call nobody else touches the provider.
LEMMA CallKept ==
    ASSUME IInv, TypeOK, TypeOK', Next, NEW u \in Threads,
           pc[u] \in InCall, pc'[u] = pc[u]
    PROVE  UNCHANGED rc4Vars \/ TransformByte(u)
  <1>1. block[u].busy /\ block'[u].busy
    BY DEF TypeOK, InCall
  <1>2. PICK t \in Threads : Rc4Step(t)
    BY StepShape
  <1>3. CASE t = u
    <2>1. ~ \E data, salt : BeginBlock(t, data, salt)
      BY <1>1, <1>3 DEF BeginBlock
    <2>2. ~ EndBlock(t)
      <3>1. SUFFICES ASSUME EndBlock(t)
                     PROVE  FALSE
        OBVIOUS
      <3>2. Rc4TypeOK
        BY DEF TypeOK
      <3>3. block'[t] = NoBlock
        BY <3>1, <3>2, EndType
      <3>4. QED
        BY <1>1, <1>3, <3>3 DEF NoBlock
    <2>3. QED
      BY <1>2, <1>3, <2>1, <2>2 DEF Rc4Step
  <1>4. CASE t # u
    <2>1. ~block[t].busy
      BY <1>1, <1>4, OneCall
    <2>2. ~(encrypted /\ pc[t] \notin Resting)
      BY <1>1, <1>4, FreshKey
    <2>3. QED
      BY <1>2, <2>1, <2>2 DEF Rc4Step, TransformByte, EndBlock
  <1>5. QED
    BY <1>3, <1>4

\* A call under way stays halfway.
LEMMA HalfwayStep ==
    ASSUME IInv, TypeOK, TypeOK', Next, NEW u \in Threads, pc[u] \in InCall, pc'[u] = pc[u],
           NEW orig \in Seq(Bytes), Halfway(u, orig)
    PROVE  block'[u].salt = block[u].salt /\ Halfway(u, orig)'
  <1>1. CASE UNCHANGED rc4Vars
    BY <1>1 DEF rc4Vars, Halfway, Box
  <1>2. CASE TransformByte(u)
    <2>1. Rc4TypeOK
      BY DEF TypeOK
    <2>2. QED
      BY <1>2, <2>1, HalfwayByte
  <1>3. QED
    BY <1>1, <1>2, CallKept

-----------------------------------------------------------------------------
(***************************************************************************)
(* Sending.                                                                *)
(***************************************************************************)

\* A step of one thread leaves the others where they are.
LEMMA OthersStay ==
    ASSUME TypeOK, NEW t \in Threads, NEW label, Goto(t, label)
    PROVE  pc'[t] = label /\ \A u \in Threads \ {t} : pc'[u] = pc[u]
  BY DEF TypeOK, Goto

\* A sender that encrypts has just begun, or goes on with the same message.
LEMMA SenderShape ==
    ASSUME TypeInv, Next, NEW u \in Senders, pc'[u] = "encrypt"
    PROVE  \/ pc[u] = "encrypt" /\ sending'[u] = sending[u]
           \/ \E salt \in Salts : SendEncrypted(u, salt)
  <1>1. TypeOK /\ u \in Threads /\ Reader \in Threads /\ u # Reader
        /\ sending = [t \in Senders |-> sending[t]]
    BY WireConstants DEF TypeInv, PlaceInv
  <1>2. ASSUME NEW t \in Senders, Sender(t)
        PROVE  \/ pc[u] = "encrypt" /\ sending'[u] = sending[u]
               \/ \E salt \in Salts : SendEncrypted(u, salt)
    <2>1. t \in Threads
      BY WireConstants
    <2>2. CASE LoadMsgId(t)
      BY <1>1, <2>1, <2>2, OthersStay DEF LoadMsgId
    <2>3. CASE \E data \in Payloads : Serialize(t, data)
      BY <1>1, <2>1, <2>3, OthersStay DEF Serialize
    <2>4. CASE SendPlain(t)
      BY <1>1, <2>1, <2>4, OthersStay DEF SendPlain, Write
    <2>5. CASE \E salt \in Salts : SendEncrypted(t, salt)
      <3>1. CASE t = u
        BY <2>5, <3>1
      <3>2. CASE t # u
        BY <1>1, <2>1, <2>5, <3>2, OthersStay DEF SendEncrypted
      <3>3. QED
        BY <3>1, <3>2
    <2>6. CASE Transform(t)
      BY <2>6 DEF Transform, senderVars
    <2>7. CASE WriteEncrypted(t)
      BY <1>1, <2>1, <2>7, OthersStay DEF WriteEncrypted, Write
    <2>8. QED
      BY <1>2, <2>2, <2>3, <2>4, <2>5, <2>6, <2>7 DEF Sender
  <1>3. CASE ReadLoop
    <2>1. UNCHANGED sending
      BY <1>3 DEF ReadLoop, ReadAsync, AwaitMore, PlainPacket, EncryptedPacket, Transform,
                  Decrypted, senderVars
    <2>2. (\E label : Goto(Reader, label)) \/ UNCHANGED pc
      BY <1>3 DEF ReadLoop, ReadAsync, AwaitMore, PlainPacket, EncryptedPacket, Transform,
                  Decrypted, HandOn
    <2>3. pc'[u] = pc[u]
      BY <1>1, <2>2, OthersStay
    <2>4. QED
      BY <2>1, <2>3
  <1>4. CASE \E data \in Payloads : MasterSends(data)
    BY <1>4 DEF MasterSends, senderVars
  <1>5. QED
    BY <1>2, <1>3, <1>4 DEF Next

\* What a sender encrypts stays what it has built.
LEMMA EncryptStep ==
    ASSUME PayloadsFit, IInv, TypeInv, TypeInv', EncryptInv, Next
    PROVE  EncryptInv'
  <1> SUFFICES ASSUME NEW u \in Senders, pc'[u] = "encrypt"
               PROVE  /\ block'[u].salt = sending'[u].salt
                      /\ Halfway(u, RawData(sending[u].msg))'
    BY DEF EncryptInv
  <1>1. u \in Threads /\ TypeOK /\ TypeOK' /\ Rc4TypeOK
    BY WireConstants DEF TypeInv, TypeOK
  <1>2. CASE pc[u] = "encrypt" /\ sending'[u] = sending[u]
    <2>1. sending[u].msg \in Messages
      BY <1>2 DEF TypeInv, PlaceInv
    <2>2. PICK orig \in Seq(Bytes) : orig = RawData(sending[u].msg)
      BY <2>1, RawShape
    <2>3. block[u].salt = sending[u].salt /\ Halfway(u, orig)
      BY <1>2, <2>2 DEF EncryptInv
    <2>4. pc[u] \in InCall /\ pc'[u] = pc[u]
      BY <1>2 DEF InCall
    <2>5. block'[u].salt = block[u].salt /\ Halfway(u, orig)'
      BY <1>1, <2>3, <2>4, HalfwayStep
    <2>6. orig = RawData(sending'[u].msg)
      BY <1>2, <2>2
    <2>7. QED
      BY <1>2, <2>3, <2>5, <2>6
  <1>3. CASE \E salt \in Salts : SendEncrypted(u, salt)
    <2>1. PICK salt \in Salts : SendEncrypted(u, salt)
      BY <1>3
    <2>2. pc[u] = "built" /\ sending[u].msg \in Messages /\ encrypted
      BY <2>1 DEF SendEncrypted, TypeInv, PlaceInv
    <2>3. PICK orig \in Seq(Bytes) : orig = RawData(sending[u].msg)
      BY <2>2, RawShape
    <2>4. salt \in Seq(Bytes) /\ pc[u] \notin Resting
      BY <2>2, WireConstants DEF Resting
    <2>5. BeginBlock(u, orig, salt)
      BY <2>1, <2>3 DEF SendEncrypted
    <2>6. block'[u].salt = salt /\ Halfway(u, orig)'
      BY <1>1, <2>2, <2>4, <2>5, HalfwayStart
    <2>7. sending'[u].msg = sending[u].msg /\ sending'[u].salt = salt
      <3>1. sending' = [sending EXCEPT ![u].salt = salt]
        BY <2>1 DEF SendEncrypted
      <3>2. sending = [t \in Senders |-> [msg |-> sending[t].msg, salt |-> sending[t].salt]]
        BY DEF TypeInv, PlaceInv
      <3>3. sending'[u] = [sending[u] EXCEPT !.salt = salt]
        BY <3>1, <3>2
      <3>4. sending[u] = [msg |-> sending[u].msg, salt |-> sending[u].salt]
        BY <3>2
      <3>5. QED
        BY <3>3, <3>4
    <2>8. orig = RawData(sending'[u].msg)
      BY <2>3, <2>7
    <2>9. QED
      BY <2>6, <2>7, <2>8
  <1>4. QED
    BY <1>2, <1>3, SenderShape

\* A packet that can be read more.
LEMMA WrittenMore ==
    ASSUME WrittenInv, NEW m \in Messages, NEW p \in Seq(Bytes), MasterReads(p) = m,
           written' = Append(written, [msg |-> m, bytes |-> p])
    PROVE  WrittenInv'
  <1>1. PICK X : X = [msg : Messages, bytes : Seq(Bytes)]
    OBVIOUS
  <1>2. PICK x \in X : x = [msg |-> m, bytes |-> p]
    BY <1>1
  <1>3. written \in Seq(X)
    BY <1>1 DEF WrittenInv
  <1>4. /\ written' \in Seq(X) /\ Len(written') = Len(written) + 1
        /\ \A i \in 1 .. Len(written) : written'[i] = written[i]
        /\ written'[Len(written) + 1] = x
    BY <1>2, <1>3, AppendProperties
  <1>5. Len(written) \in Nat /\ DOMAIN written = 1 .. Len(written)
        /\ DOMAIN written' = 1 .. Len(written) + 1
    BY <1>3, <1>4, LenProperties
  <1>6. ASSUME NEW i \in 1 .. Len(written) + 1
        PROVE  MasterReads(written'[i].bytes) = written'[i].msg
    <2>1. CASE i \in 1 .. Len(written)
      BY <1>4, <1>5, <2>1 DEF WrittenInv, SentReadable
    <2>2. CASE i = Len(written) + 1
      BY <1>2, <1>4, <2>2
    <2>3. QED
      BY <1>5, <2>1, <2>2
  <1>7. QED
    BY <1>1, <1>4, <1>5, <1>6 DEF WrittenInv, SentReadable

\* The packets written are a message, or a message encrypted as the master would.
LEMMA WrittenStep ==
    ASSUME PayloadsFit, TypeInv, EncryptInv, WrittenInv, Next
    PROVE  WrittenInv'
  <1>1. ASSUME NEW t \in Senders, SendPlain(t)
        PROVE  WrittenInv'
    <2>1. PICK m \in Messages : m = sending[t].msg
      BY <1>1 DEF SendPlain, TypeInv, PlaceInv
    <2>2. PICK p : p = RawData(m)
      OBVIOUS
    <2>3. p \in Seq(Bytes) /\ p[1] = ProtocolValue /\ FromData(p) = m
      BY <2>2, RawShape
    <2>4. MasterReads(p) = m
      BY <2>3 DEF MasterReads
    <2>5. written' = Append(written, [msg |-> m, bytes |-> p])
      BY <1>1, <2>1, <2>2 DEF SendPlain, Write
    <2>6. QED
      BY <2>3, <2>4, <2>5, WrittenMore
  <1>2. ASSUME NEW t \in Senders, WriteEncrypted(t)
        PROVE  WrittenInv'
    <2>1. t \in Threads /\ Rc4TypeOK /\ pc[t] = "encrypt" /\ EndBlock(t)
      BY <1>2, WireConstants DEF WriteEncrypted, TypeInv, TypeOK
    <2>2. PICK m \in Messages : m = sending[t].msg
      BY <2>1 DEF TypeInv, PlaceInv
    <2>3. PICK salt \in Salts : salt = sending[t].salt
      BY <2>1 DEF TypeInv, PlaceInv
    <2>4. PICK orig \in Seq(Bytes) : orig = RawData(m)
      BY RawShape
    <2>5. block[t].salt = salt /\ Halfway(t, orig)
      BY <2>1, <2>2, <2>3, <2>4 DEF EncryptInv
    <2>6. block[t].done = Len(block[t].data)
      BY <2>1 DEF EndBlock
    <2>7. PICK c : c = block[t].data
      OBVIOUS
    <2>8. c = MasterCipher(salt, orig)
      BY <2>1, <2>5, <2>6, <2>7, HalfwayEnd
    <2>9. salt \in Seq(Bytes)
      BY WireConstants
    <2>10. c \in Seq(Bytes) /\ Len(c) = Len(orig)
      BY <2>8, <2>9, CipherType
    <2>11. MasterCipher(salt, c) = orig
      BY <2>8, <2>9, CipherUndoes
    <2>12. PICK p : p = EncryptedRawData(salt, c)
      OBVIOUS
    <2>13. /\ p \in Seq(Bytes) /\ p[1] = EncryptedProtocolValue
           /\ Salt(p) = salt /\ EncryptedData(p) = c
      BY <2>4, <2>10, <2>12, EncryptedShape
    <2>14. p[1] # ProtocolValue
      BY <2>13 DEF ProtocolValue, EncryptedProtocolValue
    <2>15. MasterReads(p) = FromData(orig)
      BY <2>11, <2>13, <2>14 DEF MasterReads
    <2>16. MasterReads(p) = m
      BY <2>4, <2>15, RawShape
    <2>17. written' = Append(written, [msg |-> m, bytes |-> p])
      BY <1>2, <2>2, <2>3, <2>7, <2>12 DEF WriteEncrypted, Write
    <2>18. QED
      BY <2>13, <2>16, <2>17, WrittenMore
  <1>3. CASE UNCHANGED written
    BY <1>3 DEF WrittenInv, SentReadable
  <1>4. QED
    BY <1>1, <1>2, <1>3
       DEF Next, Sender, ReadLoop, LoadMsgId, Serialize, SendEncrypted, Transform,
           ReadAsync, AwaitMore, PlainPacket, EncryptedPacket, Decrypted, MasterSends,
           senderVars

-----------------------------------------------------------------------------
(***************************************************************************)
(* Receiving.                                                              *)
(***************************************************************************)

\* A step that neither takes a packet off the stream, nor hands a message on, nor
\* adds one.
Quiet ==
    /\ UNCHANGED <<received, sentIn, encrypted>>
    /\ lBytes' \o stream' = lBytes \o stream
    /\ \/ pc'[Reader] = pc[Reader]
       \/ pc[Reader] \in {"read", "parse"} /\ pc'[Reader] \in {"read", "parse"}

\* Every other step is one of these.
LEMMA ReaderShape ==
    ASSUME PayloadsFit, TypeInv, Next
    PROVE  \/ Quiet \/ PlainPacket \/ EncryptedPacket \/ Decrypted
           \/ \E data \in Payloads : MasterSends(data)
  <1>1. TypeOK /\ Reader \in Threads /\ lBytes \in Seq(Bytes) /\ stream \in Seq(Bytes)
    BY WireConstants DEF TypeInv, TypeOK
  <1>2. ASSUME NEW t \in Senders, Sender(t)
        PROVE  Quiet
    <2>1. t \in Threads /\ Reader \in Threads \ {t}
      BY WireConstants
    <2>2. (\E label : Goto(t, label)) \/ UNCHANGED pc
      BY <1>2 DEF Sender, LoadMsgId, Serialize, SendPlain, SendEncrypted, Transform,
                  WriteEncrypted, Write
    <2>3. pc'[Reader] = pc[Reader]
      BY <1>1, <2>1, <2>2, OthersStay
    <2>4. UNCHANGED <<readerVars, sentIn, encrypted>>
      BY <1>2 DEF Sender, LoadMsgId, Serialize, SendPlain, SendEncrypted, Transform,
                  WriteEncrypted
    <2>5. QED
      BY <2>3, <2>4 DEF Quiet, readerVars
  <1>3. ASSUME NEW n \in 1 .. Len(stream), ReadAsync(n)
        PROVE  Quiet
    <2>1. lBytes' \o stream' = lBytes \o stream
      BY <1>1, <1>3, ReadMoves DEF ReadAsync
    <2>2. pc[Reader] = "read" /\ pc'[Reader] = "parse"
      BY <1>1, <1>3, OthersStay DEF ReadAsync
    <2>3. QED
      BY <1>3, <2>1, <2>2 DEF Quiet, ReadAsync
  <1>4. ASSUME AwaitMore
        PROVE  Quiet
    <2>1. lBytes' = lBytes /\ stream' = stream
      BY <1>4, AwaitKeeps DEF AwaitMore
    <2>2. pc[Reader] = "parse" /\ pc'[Reader] = "read"
      BY <1>1, <1>4, OthersStay DEF AwaitMore
    <2>3. QED
      BY <1>4, <2>1, <2>2 DEF Quiet, AwaitMore
  <1>5. ASSUME Transform(Reader)
        PROVE  Quiet
    BY <1>5 DEF Quiet, Transform, readerVars
  <1>6. QED
    BY <1>2, <1>3, <1>4, <1>5 DEF Next, ReadLoop

\* OnDataReceived with a message.
LEMMA HandedOn ==
    ASSUME TypeOK, NEW m \in Messages, HandOn(m)
    PROVE  received' = Append(received, m) /\ pc'[Reader] = "parse"
  <1>1. m.ok = TRUE
    BY DEF Messages, Message
  <1>2. received' = Append(received, m) /\ Goto(Reader, "parse")
    BY <1>1 DEF HandOn
  <1>3. Reader \in Threads
    BY WireConstants
  <1>4. QED
    BY <1>2, <1>3, OthersStay

\* A plain packet hands on the first message not yet handed on.
LEMMA PlainHandsOn ==
    ASSUME PayloadsFit, TypeInv, NEW q, NEW n, Flight(q, n), PlainPacket
    PROVE  /\ n \in Nat /\ n + 1 \in 1 .. Len(sentIn) /\ sentIn[n + 1] \in Messages
           /\ received' = Append(received, sentIn[n + 1]) /\ pc'[Reader] = "parse"
           /\ Flight(Tail(q), n + 1)'
  <1>1. /\ Complete /\ lBytes[1] = ProtocolValue /\ lBytes' = Rest
        /\ UNCHANGED <<stream, sentIn, encrypted>>
    BY DEF PlainPacket
  <1>2. PICK bytes : bytes = SubSeq(lBytes, 1, PacketSize)
    OBVIOUS
  <1>3. PICK m \in Messages : m = sentIn[n + 1]
    BY <1>1, PacketTaken
  <1>4. /\ n \in Nat /\ n + 1 \in 1 .. Len(sentIn)
        /\ Carries(bytes, m) /\ bytes[1] = ProtocolValue /\ Flight(Tail(q), n + 1)'
    BY <1>1, <1>2, <1>3, PacketTaken
  <1>5. bytes = RawData(m)
    <2>1. bytes = RawData(m) \/ bytes[1] = EncryptedProtocolValue
      BY <1>4, CarriesShape
    <2>2. EncryptedProtocolValue # ProtocolValue
      BY DEF ProtocolValue, EncryptedProtocolValue
    <2>3. QED
      BY <1>4, <2>1, <2>2, Zenon
  <1>6. FromData(bytes) = m
    BY <1>5, RawShape
  <1>7. HandOn(m) /\ TypeOK
    BY <1>2, <1>6 DEF PlainPacket, TypeInv
  <1>8. received' = Append(received, m) /\ pc'[Reader] = "parse"
    BY <1>7, HandedOn
  <1>9. QED
    BY <1>3, <1>4, <1>8

\* A decrypted packet does, too.
LEMMA DecryptedHandsOn ==
    ASSUME PayloadsFit, TypeInv, DecryptInv, NEW m \in Messages,
           m = sentIn[Len(received) + 1], Decrypted
    PROVE  received' = Append(received, m) /\ pc'[Reader] = "parse"
  <1>1. Reader \in Threads /\ TypeOK /\ Rc4TypeOK /\ pc[Reader] = "decrypt" /\ EndBlock(Reader)
    BY WireConstants DEF TypeInv, TypeOK, Decrypted
  <1>2. PICK raw \in Seq(Bytes) : raw = RawData(m)
    BY RawShape
  <1>3. PICK salt \in Salts : salt = block[Reader].salt
    BY <1>1 DEF DecryptInv
  <1>4. salt \in Seq(Bytes)
    BY WireConstants
  <1>5. PICK orig \in Seq(Bytes) : orig = MasterCipher(salt, raw)
    BY <1>4, CipherType
  <1>6. Halfway(Reader, orig)
    BY <1>1, <1>2, <1>3, <1>5 DEF DecryptInv
  <1>7. block[Reader].done = Len(block[Reader].data)
    BY <1>1 DEF EndBlock
  <1>8. block[Reader].data = MasterCipher(salt, orig)
    BY <1>1, <1>3, <1>6, <1>7, HalfwayEnd
  <1>9. MasterCipher(salt, orig) = raw
    BY <1>4, <1>5, CipherUndoes
  <1>10. FromData(raw) = m
    BY <1>2, RawShape
  <1>11. HandOn(m)
    BY <1>8, <1>9, <1>10 DEF Decrypted
  <1>12. QED
    BY <1>1, <1>11, HandedOn

\* The prefix grows by the next message.
LEMMA ReceivedMore ==
    ASSUME NEW n, n = Len(received), received \in Seq(Messages), sentIn \in Seq(Messages),
           n + 1 \in 1 .. Len(sentIn), \A i \in 1 .. n : received[i] = sentIn[i],
           received' = Append(received, sentIn[n + 1]), UNCHANGED sentIn
    PROVE  /\ received' \in Seq(Messages) /\ Len(received') = n + 1
           /\ Len(received') <= Len(sentIn')
           /\ \A i \in 1 .. Len(received') : received'[i] = sentIn'[i]
  <1>1. PICK m \in Messages : m = sentIn[n + 1]
    OBVIOUS
  <1>2. n \in Nat /\ Len(sentIn) \in Nat
    OBVIOUS
  <1>3. /\ received' \in Seq(Messages) /\ Len(received') = n + 1
        /\ received'[n + 1] = m
        /\ \A i \in 1 .. n : received'[i] = received[i]
    BY <1>1, AppendProperties
  <1>4. ASSUME NEW i \in 1 .. n + 1
        PROVE  received'[i] = sentIn'[i]
    <2>1. CASE i \in 1 .. n
      BY <1>3, <2>1
    <2>2. CASE i = n + 1
      BY <1>1, <1>3, <2>2
    <2>3. QED
      BY <1>2, <2>1, <2>2
  <1>5. QED
    BY <1>2, <1>3, <1>4

\* The first messages the master sent have been handed on, one may be decrypted, the
\* others are under way.
LEMMA OrderStep ==
    ASSUME PayloadsFit, TypeInv, DecryptInv, OrderInv, Next
    PROVE  OrderInv'
  <1>1. PICK q : Flight(q, Taken)
    BY DEF OrderInv
  <1>2. /\ received \in Seq(Messages) /\ pc[Reader] # "ended"
        /\ Len(received) <= Len(sentIn)
        /\ \A i \in 1 .. Len(received) : received[i] = sentIn[i]
        /\ sentIn \in Seq(Messages) /\ TypeOK
    BY DEF OrderInv, TypeInv, PlaceInv
  <1>3. PICK r \in Nat : r = Len(received)
    BY <1>2
  <1>4. PICK n : n = Taken
    OBVIOUS
  <1>5. Flight(q, n)
    BY <1>1, <1>4
  <1>6. CASE Quiet
    <2>1. pc'[Reader] # "ended" /\ Taken' = n
      BY <1>2, <1>4, <1>6 DEF Quiet, Taken
    <2>2. Flight(q, n)'
      BY <1>5, <1>6, FlightKept DEF Quiet
    <2>3. Flight(q, Taken)'
      BY <2>1, <2>2 DEF Flight
    <2>4. QED
      BY <1>2, <1>6, <2>1, <2>3 DEF OrderInv, Quiet
  <1>7. CASE PlainPacket
    <2>1. n = r
      BY <1>3, <1>4, <1>7 DEF PlainPacket, Taken
    <2>2. /\ r + 1 \in 1 .. Len(sentIn) /\ received' = Append(received, sentIn[r + 1])
          /\ pc'[Reader] = "parse" /\ Flight(Tail(q), r + 1)'
      BY <1>5, <1>7, <2>1, PlainHandsOn
    <2>3. UNCHANGED sentIn
      BY <1>7 DEF PlainPacket
    <2>4. /\ received' \in Seq(Messages) /\ Len(received') = r + 1
          /\ Len(received') <= Len(sentIn')
          /\ \A i \in 1 .. Len(received') : received'[i] = sentIn'[i]
      BY <1>2, <1>3, <2>2, <2>3, ReceivedMore
    <2>5. Taken' = r + 1
      BY <2>2, <2>4 DEF Taken
    <2>6. Flight(Tail(q), Taken)'
      BY <2>2, <2>5 DEF Flight
    <2>7. QED
      BY <2>2, <2>4, <2>6 DEF OrderInv
  <1>8. CASE EncryptedPacket
    <2>1. n = r
      BY <1>3, <1>4, <1>8 DEF EncryptedPacket, Taken
    <2>2. PICK bytes : bytes = SubSeq(lBytes, 1, PacketSize)
      OBVIOUS
    <2>3. encrypted /\ Flight(Tail(q), r + 1)'
      BY <1>5, <1>8, <2>1, <2>2, EncryptedTaken
    <2>4. Reader \in Threads /\ Goto(Reader, "decrypt")
      BY <1>8, <2>3, WireConstants DEF EncryptedPacket
    <2>5. pc'[Reader] = "decrypt"
      BY <1>2, <2>4, OthersStay
    <2>6. UNCHANGED <<received, sentIn>>
      BY <1>8 DEF EncryptedPacket
    <2>7. Taken' = r + 1
      BY <1>3, <2>5, <2>6 DEF Taken
    <2>8. Flight(Tail(q), Taken)'
      BY <2>3, <2>7 DEF Flight
    <2>9. QED
      BY <1>2, <2>5, <2>6, <2>8 DEF OrderInv
  <1>9. CASE Decrypted
    <2>1. n = r + 1
      BY <1>3, <1>4, <1>9 DEF Decrypted, Taken
    <2>2. r + 1 \in 1 .. Len(sentIn)
      <3>1. q \in Seq(Seq(Bytes)) /\ Len(sentIn) = n + Len(q)
        BY <1>5 DEF Flight
      <3>2. QED
        BY <2>1, <3>1
    <2>3. PICK m \in Messages : m = sentIn[r + 1]
      BY <1>2, <2>2
    <2>4. received' = Append(received, m) /\ pc'[Reader] = "parse"
      BY <1>3, <1>9, <2>3, DecryptedHandsOn
    <2>5. UNCHANGED <<sentIn, lBytes, stream, encrypted>>
      BY <1>9 DEF Decrypted
    <2>6. /\ received' \in Seq(Messages) /\ Len(received') = r + 1
          /\ Len(received') <= Len(sentIn')
          /\ \A i \in 1 .. Len(received') : received'[i] = sentIn'[i]
      BY <1>2, <1>3, <2>2, <2>3, <2>4, <2>5, ReceivedMore
    <2>7. Taken' = n
      BY <2>1, <2>4, <2>6 DEF Taken
    <2>8. Flight(q, n)'
      BY <1>5, <2>5, FlightKept
    <2>9. Flight(q, Taken)'
      BY <2>7, <2>8 DEF Flight
    <2>10. QED
      BY <2>4, <2>6, <2>9 DEF OrderInv
  <1>10. CASE \E data \in Payloads : MasterSends(data)
    <2>1. PICK data \in Payloads : MasterSends(data)
      BY <1>10
    <2>2. PICK m \in Messages : sentIn' = Append(sentIn, m)
      BY <1>5, <2>1, MasterAdds
    <2>3. PICK p : Flight(Append(q, p), n)'
      BY <1>5, <2>1, MasterAdds
    <2>4. UNCHANGED <<pc, received>>
      BY <2>1 DEF MasterSends
    <2>5. Taken' = n
      BY <1>4, <2>4 DEF Taken
    <2>6. Flight(Append(q, p), Taken)'
      BY <2>3, <2>5 DEF Flight
    <2>7. Len(sentIn') = Len(sentIn) + 1 /\ \A i \in 1 .. Len(sentIn) : sentIn'[i] = sentIn[i]
      BY <1>2, <2>2, AppendProperties
    <2>8. Len(received) <= Len(sentIn') /\ \A i \in 1 .. Len(received) : received[i] = sentIn'[i]
      BY <1>2, <2>7
    <2>9. QED
      BY <1>2, <2>4, <2>6, <2>8 DEF OrderInv
  <1>11. QED
    BY <1>6, <1>7, <1>8, <1>9, <1>10, ReaderShape

\* What the read loop decrypts stays the first message not yet handed on.
LEMMA DecryptStep ==
    ASSUME PayloadsFit, IInv, TypeInv, TypeInv', DecryptInv, OrderInv, Next
    PROVE  DecryptInv'
  <1> SUFFICES ASSUME pc'[Reader] = "decrypt"
               PROVE  /\ block'[Reader].salt \in Salts
                      /\ Halfway(Reader, MasterCipher(block[Reader].salt,
                                             RawData(sentIn[Len(received) + 1])))'
    BY DEF DecryptInv
  <1>1. /\ Reader \in Threads /\ TypeOK /\ TypeOK' /\ Rc4TypeOK
        /\ received \in Seq(Messages) /\ sentIn \in Seq(Messages)
    BY WireConstants DEF TypeInv, TypeOK, OrderInv, PlaceInv
  <1>2. PICK q : Flight(q, Taken)
    BY DEF OrderInv
  <1>3. PICK r \in Nat : r = Len(received)
    BY <1>1
  <1>4. CASE pc[Reader] = "decrypt"
    <2>1. Taken = r + 1
      BY <1>3, <1>4 DEF Taken
    <2>2. r + 1 \in 1 .. Len(sentIn)
      <3>1. q \in Seq(Seq(Bytes)) /\ Len(sentIn) = Taken + Len(q)
        BY <1>2 DEF Flight
      <3>2. QED
        BY <2>1, <3>1
    <2>3. PICK m \in Messages : m = sentIn[r + 1]
      BY <1>1, <2>2
    <2>4. PICK salt \in Salts : salt = block[Reader].salt
      BY <1>4 DEF DecryptInv
    <2>5. PICK raw \in Seq(Bytes) : raw = RawData(m)
      BY RawShape
    <2>6. PICK orig \in Seq(Bytes) : orig = MasterCipher(salt, raw)
      <3>1. salt \in Seq(Bytes)
        BY WireConstants
      <3>2. QED
        BY <3>1, CipherType
    <2>7. Halfway(Reader, orig)
      BY <1>3, <1>4, <2>3, <2>4, <2>5, <2>6 DEF DecryptInv
    <2>8. pc[Reader] \in InCall /\ pc'[Reader] = pc[Reader]
      BY <1>4 DEF InCall
    <2>9. block'[Reader].salt = salt /\ Halfway(Reader, orig)'
      BY <1>1, <2>4, <2>7, <2>8, HalfwayStep
    <2>10. received' = received /\ sentIn'[r + 1] = m
      <3>1. CASE Quiet
        BY <2>3, <3>1 DEF Quiet
      <3>2. CASE PlainPacket \/ EncryptedPacket
        BY <1>4, <3>2 DEF PlainPacket, EncryptedPacket
      <3>3. CASE Decrypted
        <4>1. pc'[Reader] = "parse"
          BY <1>3, <2>3, <3>3, DecryptedHandsOn
        <4>2. QED
          BY <4>1
      <3>4. CASE \E data \in Payloads : MasterSends(data)
        <4>1. PICK data \in Payloads : MasterSends(data)
          BY <3>4
        <4>2. PICK x \in Messages : sentIn' = Append(sentIn, x)
          BY <1>2, <4>1, MasterAdds
        <4>3. \A i \in 1 .. Len(sentIn) : sentIn'[i] = sentIn[i]
          BY <1>1, <4>2, AppendProperties
        <4>4. QED
          BY <2>2, <2>3, <4>1, <4>3 DEF MasterSends
      <3>5. QED
        BY <3>1, <3>2, <3>3, <3>4, ReaderShape
    <2>11. sentIn'[Len(received') + 1] = m
      BY <1>3, <2>10
    <2>12. QED
      BY <2>5, <2>6, <2>9, <2>11
  <1>5. CASE pc[Reader] # "decrypt"
    <2>1. EncryptedPacket
      <3>1. ~Quiet
        BY <1>5 DEF Quiet
      <3>2. ~PlainPacket
        BY <1>2, PlainHandsOn
      <3>3. ~Decrypted
        BY <1>5 DEF Decrypted
      <3>4. ~ \E data \in Payloads : MasterSends(data)
        BY <1>5 DEF MasterSends
      <3>5. QED
        BY <3>1, <3>2, <3>3, <3>4, ReaderShape
    <2>2. Taken = r
      BY <1>3, <1>5 DEF Taken
    <2>3. PICK bytes : bytes = SubSeq(lBytes, 1, PacketSize)
      OBVIOUS
    <2>4. Flight(q, r)
      BY <1>2, <2>2
    <2>5. PICK salt \in Salts : salt = Salt(bytes)
      BY <2>1, <2>3, <2>4, EncryptedTaken
    <2>6. PICK orig \in Seq(Bytes) : orig = EncryptedData(bytes)
      BY <2>1, <2>3, <2>4, EncryptedTaken
    <2>7. encrypted /\ orig = MasterCipher(salt, RawData(sentIn[r + 1])) /\ salt \in Seq(Bytes)
      BY <2>1, <2>3, <2>4, <2>5, <2>6, EncryptedTaken
    <2>8. BeginBlock(Reader, orig, salt) /\ pc[Reader] \notin Resting
      BY <2>1, <2>3, <2>5, <2>6, <2>7 DEF EncryptedPacket, Resting
    <2>9. block'[Reader].salt = salt /\ Halfway(Reader, orig)'
      BY <1>1, <2>7, <2>8, HalfwayStart
    <2>10. UNCHANGED <<received, sentIn>>
      BY <2>1 DEF EncryptedPacket
    <2>11. orig = MasterCipher(block'[Reader].salt, RawData(sentIn'[Len(received') + 1]))
      BY <1>3, <2>7, <2>9, <2>10
    <2>12. QED
      BY <2>9, <2>11
  <1>6. QED
    BY <1>4, <1>5

-----------------------------------------------------------------------------
\* At the start nothing is under way, handed on or written.
LEMMA InitDeliver ==
    ASSUME NoOverlap, Init
    PROVE  DeliverInv
  <1>1. IInv /\ TypeInv
    BY InitInv, InitType
  <1>2. Reader \in Threads /\ \A t \in Senders : t \in Threads /\ t # Reader
    BY WireConstants
  <1>3. pc[Reader] = "read" /\ \A t \in Senders : pc[t] = "idle"
    BY <1>2 DEF Init
  <1>4. EncryptInv /\ DecryptInv
    BY <1>3 DEF EncryptInv, DecryptInv
  <1>5. received = <<>> /\ sentIn = <<>> /\ written = <<>> /\ lBytes \o stream = <<>>
    BY DEF Init
  <1>6. Taken = 0
    BY <1>3, <1>5 DEF Taken
  <1>7. Flight(<<>>, Taken)
    BY <1>5, <1>6, JoinedEmpty DEF Flight
  <1>8. OrderInv
    BY <1>3, <1>5, <1>7 DEF OrderInv
  <1>9. WrittenInv
    BY <1>5 DEF WrittenInv, SentReadable
  <1>10. QED
    BY <1>1, <1>4, <1>8, <1>9 DEF DeliverInv

\* Every step keeps all of it.
LEMMA DeliverStep ==
    ASSUME PayloadsFit, DeliverInv, [Next]_vars
    PROVE  DeliverInv'
  <1> USE DEF DeliverInv
  <1>1. IInv'
    BY StepInv
  <1>2. TypeInv'
    BY TypeStep
  <1>3. CASE Next
    BY <1>1, <1>2, <1>3, EncryptStep, DecryptStep, OrderStep, WrittenStep
  <1>4. CASE UNCHANGED vars
    <2>1. UNCHANGED <<rc4Vars, uiThread, encrypted, pc, senderVars, readerVars, sentIn>>
      BY <1>4 DEF vars
    <2>2. EncryptInv'
      BY <2>1 DEF EncryptInv, Halfway, Box, rc4Vars, senderVars
    <2>3. DecryptInv'
      BY <2>1 DEF DecryptInv, Halfway, Box, rc4Vars, readerVars
    <2>4. OrderInv'
      <3>1. PICK q : Flight(q, Taken)
        BY DEF OrderInv
      <3>2. PICK n : n = Taken
        OBVIOUS
      <3>3. Flight(q, n)'
        BY <2>1, <3>1, <3>2, FlightKept DEF readerVars
      <3>4. Taken' = n
        BY <2>1, <3>2 DEF Taken, readerVars
      <3>5. Flight(q, Taken)'
        BY <3>3, <3>4 DEF Flight
      <3>6. QED
        BY <2>1, <3>5 DEF OrderInv, readerVars
    <2>5. WrittenInv'
      BY <2>1 DEF WrittenInv, SentReadable, senderVars
    <2>6. QED
      BY <1>1, <1>2, <2>2, <2>3, <2>4, <2>5
  <1>5. QED
    BY <1>3, <1>4

\* The invariant of a connection whose calls of TransformBlock do not overlap.
LEMMA DeliverInvariance == NoOverlap /\ PayloadsFit /\ Spec => []DeliverInv
  <1> SUFFICES ASSUME NoOverlap, PayloadsFit
               PROVE  Spec => []DeliverInv
    OBVIOUS
  <1>1. Init => DeliverInv
    BY InitDeliver
  <1>2. DeliverInv /\ [Next]_vars => DeliverInv'
    BY DeliverStep
  <1>3. QED
    BY <1>1, <1>2, PTL DEF Spec

\* Where calls of TransformBlock do not overlap, the master reads every packet a sender
\* writes as the message it was built from (Serialize, ICSPEncryptedMsg, RC4), for any
\* byte width, key, salts, threads and messages that fit the length field.
THEOREM SentCanBeRead == NoOverlap /\ PayloadsFit /\ Spec => []SentReadable
  <1>1. DeliverInv => SentReadable
    BY DEF DeliverInv, WrittenInv
  <1>2. QED
    BY <1>1, DeliverInvariance, PTL

\* A step of the connection is a step of the channel, or none.
LEMMA StepDelivers ==
    ASSUME PayloadsFit, DeliverInv, [Next]_vars
    PROVE  Inbound!Send \/ Inbound!Receive \/ UNCHANGED <<sentIn, received>>
  <1>1. CASE UNCHANGED vars
    BY <1>1 DEF vars, readerVars
  <1>2. CASE Next
    <2>1. TypeInv /\ DecryptInv /\ OrderInv
      BY DEF DeliverInv
    <2>2. PICK q : Flight(q, Taken)
      BY <2>1 DEF OrderInv
    <2>3. received \in Seq(Messages) /\ sentIn \in Seq(Messages)
      BY <2>1 DEF OrderInv, TypeInv, PlaceInv
    <2>4. PICK r \in Nat : r = Len(received)
      BY <2>3
    <2>5. CASE Quiet \/ EncryptedPacket
      BY <2>5 DEF Quiet, EncryptedPacket
    <2>6. CASE PlainPacket
      <3>1. Taken = r
        BY <2>4, <2>6 DEF PlainPacket, Taken
      <3>2. r + 1 \in 1 .. Len(sentIn) /\ received' = Append(received, sentIn[r + 1])
        BY <2>1, <2>2, <2>6, <3>1, PlainHandsOn
      <3>3. r < Len(sentIn) /\ UNCHANGED sentIn
        BY <2>3, <2>6, <3>2 DEF PlainPacket
      <3>4. QED
        BY <2>4, <3>2, <3>3 DEF Inbound!Receive
    <2>7. CASE Decrypted
      <3>1. Taken = r + 1
        BY <2>4, <2>7 DEF Decrypted, Taken
      <3>2. q \in Seq(Seq(Bytes)) /\ Len(sentIn) = Taken + Len(q)
        BY <2>2 DEF Flight
      <3>3. r + 1 \in 1 .. Len(sentIn) /\ r < Len(sentIn)
        BY <3>1, <3>2
      <3>4. PICK m \in Messages : m = sentIn[r + 1]
        BY <2>3, <3>3
      <3>5. received' = Append(received, m)
        BY <2>1, <2>4, <2>7, <3>4, DecryptedHandsOn
      <3>6. UNCHANGED sentIn
        BY <2>7 DEF Decrypted
      <3>7. QED
        BY <2>4, <3>3, <3>4, <3>5, <3>6 DEF Inbound!Receive
    <2>8. CASE \E data \in Payloads : MasterSends(data)
      <3>1. PICK data \in Payloads : MasterSends(data)
        BY <2>8
      <3>2. PICK m \in Messages : sentIn' = Append(sentIn, m)
        BY <2>1, <2>2, <3>1, MasterAdds
      <3>3. Len(sentIn') = Len(sentIn) + 1 /\ sentIn'[Len(sentIn) + 1] = m
        BY <2>3, <3>2, AppendProperties
      <3>4. UNCHANGED received
        BY <3>1 DEF MasterSends
      <3>5. QED
        BY <3>2, <3>3, <3>4 DEF Inbound!Send
    <2>9. QED
      BY <1>2, <2>1, <2>5, <2>6, <2>7, <2>8, ReaderShape
  <1>3. QED
    BY <1>1, <1>2

\* There, too, the connection implements the message channel: however the reads cut
\* the stream (ReadAsync), OnDataReceived gets the messages the master sent, each once,
\* unchanged and in order, and no exception ends the loop.
THEOREM ArrivesInOrder == NoOverlap /\ PayloadsFit /\ Spec => DeliveredInOrder
  <1> SUFFICES ASSUME NoOverlap, PayloadsFit
               PROVE  Spec => DeliveredInOrder
    OBVIOUS
  <1>1. Init => Inbound!Init
    BY DEF Init, Inbound!Init
  <1>2. DeliverInv /\ [Next]_vars => [Inbound!Send \/ Inbound!Receive]_<<sentIn, received>>
    BY StepDelivers
  <1>3. Spec => []DeliverInv
    BY DeliverInvariance
  <1>4. QED
    BY <1>1, <1>2, <1>3, PTL DEF Spec, DeliveredInOrder, Inbound!Spec
=============================================================================
