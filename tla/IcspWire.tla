------------------------------- MODULE IcspWire -------------------------------
(***************************************************************************)
(* One connection of ICSPClient as bytes: messages are serialised          *)
(* (ICSPMsg.Serialize), encrypted when the session is                      *)
(* (ICSPEncryptedMsg), written (SendAsync); the read loop (ReadAsync)      *)
(* collects what arrives, in pieces of any size, cuts it into packets,     *)
(* decrypts and parses them and hands the messages on.  All threads share  *)
(* the RC4 provider of module Rc4 and the counter ICSPMsg.MsgId.           *)
(*                                                                         *)
(* Headers are scaled down: protocol, length (2 bytes), ID (1 byte), data, *)
(* checksum; encrypted: protocol, length, salt, encrypted packet,          *)
(* checksum.  Flags, addresses, hops, command and the fixed fields of the  *)
(* encrypted header are left out.  The master is external.                 *)
(***************************************************************************)
EXTENDS Rc4, FiniteSets

CONSTANTS Senders, Reader,
          Salts,              \* the salts a message may be encrypted with
          SaltLength,         \* 4 in the code
          ReceiveBufferSize,  \* the most that one ReadAsync returns
          Payloads,           \* the data of messages
          Sessions,           \* pairs <<one UI thread?, encrypted?>>
          FirstIds,           \* values MsgId may have when the session begins
          MaxIn, MaxOut       \* bounds: messages of the master, of the client

ASSUME WireConstants ==
    /\ Reader \notin Senders
    /\ Threads = Senders \cup {Reader}
    /\ Width \in Nat /\ Width >= 3   \* the protocol values are bytes
    /\ Key \in Seq(Bytes) /\ Key # <<>>
    /\ SaltLength \in Nat
    /\ Salts \subseteq [1 .. SaltLength -> Bytes]
    /\ Payloads \subseteq Seq(Bytes)
    /\ FirstIds \subseteq Bytes
    /\ Sessions \subseteq BOOLEAN \X BOOLEAN

VARIABLES
    uiThread,    \* window (one thread runs everything) or thread pool?
    encrypted,   \* is there a CryptoProvider, and EncryptionMode RC4 both ways?
    pc,          \* per thread, where it is
    MsgId,
    loaded,      \* the value of MsgId a sender has read for its ++MsgId
    sending,     \* the message, and the salt, a sender is sending
    stream,      \* bytes on the way to the client
    lBytes,
    sentIn,      \* messages the master has sent
    received,    \* messages handed to OnDataReceived
    written      \* the packets written, each with the message it was built from

senderVars == <<MsgId, loaded, sending, written>>
readerVars == <<stream, lBytes, received>>
vars == <<rc4Vars, uiThread, encrypted, pc, senderVars, readerVars, sentIn>>

-----------------------------------------------------------------------------
(***************************************************************************)
(* Packets.                                                                *)
(***************************************************************************)
ProtocolValue == 2
EncryptedProtocolValue == 4
PacketLengthMin == 5                          \* 23 in the code
EncryptedPacketLengthMin == 4 + SaltLength    \* 18 (mode 4) in the code

UShort(x) == x % (CharsInByte * CharsInByte)

\* The sum of all bytes, the last still 0, becomes the last byte.
Checksum(bytes) ==
    LET sum[n \in 0 .. Len(bytes)] ==
            IF n = 0 THEN 0 ELSE (sum[n - 1] + bytes[n]) % CharsInByte
    IN  sum[Len(bytes)]

WithChecksum(bytes) == [bytes EXCEPT ![Len(bytes)] = Checksum(bytes)]

\* A packet of this protocol, size, and content behind the length field.
Packet(protocol, dataLength, content) ==
    WithChecksum(<<protocol, dataLength \div CharsInByte, dataLength % CharsInByte>>
                 \o content \o <<0>>)

RawData(m) ==
    Packet(ProtocolValue, UShort(PacketLengthMin + Len(m.data) - 4), <<m.id>> \o m.data)

EncryptedRawDataShort(salt, cipher) ==
    Packet(EncryptedProtocolValue, UShort(EncryptedPacketLengthMin + Len(cipher) - 5),
           salt \o cipher)

EncryptedRawData(salt, cipher) ==
    Packet(EncryptedProtocolValue, UShort(EncryptedPacketLengthMin + Len(cipher) - 4),
           salt \o cipher)

DataLength(bytes) == bytes[2] * CharsInByte + bytes[3]

\* The master sends the whole salt: for a custom field of less than SaltLength bytes
\* the code has none, and TransformBlock neither salts nor restores.
Salt(bytes) == SubSeq(bytes, 4, 3 + SaltLength)

EncryptedDataAndChecksum(bytes) == SubSeq(bytes, 4 + SaltLength, DataLength(bytes) + 4)

EncryptedData(bytes) == SubSeq(bytes, 4 + SaltLength, DataLength(bytes) + 3)

\* MsgFactory.FromData and the constructor of ICSPMsg: a message, or an exception
\* (too short, wrong protocol, no byte where the checksum should be).  The checksum
\* is not compared.
FromData(bytes) ==
    IF /\ Len(bytes) >= PacketLengthMin
       /\ bytes[1] = ProtocolValue
       /\ DataLength(bytes) + 3 < Len(bytes)
    THEN [ok |-> TRUE, id |-> bytes[4], data |-> SubSeq(bytes, 5, Len(bytes) - 1)]
    ELSE [ok |-> FALSE, id |-> 0, data |-> <<>>]

Message(id, data) == [ok |-> TRUE, id |-> id, data |-> data]

\* The master's RC4, on a box of its own: how it goes on for n bytes from a salt ...
MasterBox(salt, n) ==
    LET box[k \in 0 .. n] ==
            IF k = 0 THEN [S |-> UpdatePrivateKey(mKeyValueLast, salt), i |-> 0, j |-> 0]
            ELSE PRGA(box[k - 1])
    IN  box

\* ... and data under the keystream it gives.
MasterCipher(salt, data) ==
    LET box == MasterBox(salt, Len(data)) IN
    [k \in 1 .. Len(data) |-> Xor(data[k], Word(box[k]))]

MasterReads(bytes) ==
    FromData(IF bytes[1] = ProtocolValue THEN bytes
             ELSE MasterCipher(Salt(bytes), EncryptedData(bytes)))

-----------------------------------------------------------------------------
PC == {"idle", "load", "built", "encrypt", "read", "parse", "decrypt", "ended"}

NoMessage == [msg |-> FromData(<<>>), salt |-> <<>>]

TypeOK ==
    /\ Rc4TypeOK
    /\ uiThread \in BOOLEAN /\ encrypted \in BOOLEAN
    /\ pc \in [Threads -> PC]
    /\ MsgId \in Bytes
    /\ loaded \in [Senders -> Bytes]
    /\ stream \in Seq(Bytes) /\ lBytes \in Seq(Bytes)
    /\ \A t \in Threads : block[t].busy <=> pc[t] \in {"encrypt", "decrypt"}

Init ==
    /\ Rc4Init
    /\ \E s \in Sessions : uiThread = s[1] /\ encrypted = s[2]
    /\ pc = [t \in Threads |-> IF t = Reader THEN "read" ELSE "idle"]
    /\ MsgId \in FirstIds
    /\ loaded = [t \in Senders |-> 0]
    /\ sending = [t \in Senders |-> NoMessage]
    /\ written = <<>>
    /\ stream = <<>> /\ lBytes = <<>> /\ sentIn = <<>> /\ received = <<>>

Goto(t, label) == pc' = [pc EXCEPT ![t] = label]

\* On the UI thread nothing else runs before a thread reaches its next await.
\* (A handler may send, or pump the window's messages with DoEvents, while the read
\* loop is between two packets; never inside a TransformBlock.)
MayRun(t) ==
    uiThread => \A u \in Threads \ {t} : pc[u] \in {"idle", "read", "ended"}

-----------------------------------------------------------------------------
(***************************************************************************)
(* Sending: Serialize, then SendAsync.                                     *)
(***************************************************************************)

\* ID = ++MsgId: the load ...
LoadMsgId(t) ==
    /\ pc[t] = "idle" /\ MayRun(t)
    /\ Len(written) + Cardinality({u \in Senders : pc[u] # "idle"}) < MaxOut
    /\ loaded' = [loaded EXCEPT ![t] = MsgId]
    /\ Goto(t, "load")
    /\ UNCHANGED <<rc4Vars, uiThread, encrypted, MsgId, sending, written,
                   readerVars, sentIn>>

IncrementUnbounded(id) == id + 1

Increment(id) == (id + 1) % CharsInByte

\* ... and the store; the rest of Serialize.
Serialize(t, data) ==
    /\ pc[t] = "load"
    /\ MsgId' = Increment(loaded[t])
    /\ sending' = [sending EXCEPT
                     ![t] = [msg |-> Message(Increment(loaded[t]), data), salt |-> <<>>]]
    /\ Goto(t, "built")
    /\ UNCHANGED <<rc4Vars, uiThread, encrypted, loaded, written, readerVars,
                   sentIn>>

\* mStream.WriteAsync: the packet, whole.
Write(t, bytes) ==
    /\ written' = Append(written, [msg |-> sending[t].msg, bytes |-> bytes])
    /\ sending' = [sending EXCEPT ![t] = NoMessage]
    /\ loaded' = [loaded EXCEPT ![t] = 0]
    /\ Goto(t, "idle")

SendPlain(t) ==
    /\ pc[t] = "built" /\ ~encrypted
    /\ Write(t, RawData(sending[t].msg))
    /\ UNCHANGED <<rc4Vars, uiThread, encrypted, MsgId, readerVars, sentIn>>

\* The constructor of ICSPEncryptedMsg: a random salt, then TransformBlock ...
SendEncrypted(t, salt) ==
    /\ pc[t] = "built" /\ encrypted
    /\ BeginBlock(t, RawData(sending[t].msg), salt)
    /\ sending' = [sending EXCEPT ![t].salt = salt]
    /\ Goto(t, "encrypt")
    /\ UNCHANGED <<uiThread, encrypted, MsgId, loaded, written, readerVars, sentIn>>

\* ... byte by byte, for a sender as for the read loop ...
Transform(t) ==
    /\ TransformByte(t)
    /\ UNCHANGED <<uiThread, encrypted, pc, senderVars, readerVars, sentIn>>

\* ... then the packet around it is written.
WriteEncrypted(t) ==
    /\ pc[t] = "encrypt"
    /\ EndBlock(t)
    /\ Write(t, EncryptedRawData(sending[t].salt, block[t].data))
    /\ UNCHANGED <<uiThread, encrypted, MsgId, readerVars, sentIn>>

-----------------------------------------------------------------------------
(***************************************************************************)
(* The read loop.                                                          *)
(***************************************************************************)

\* mStream.ReadAsync returns n bytes.
ReadAsync(n) ==
    /\ pc[Reader] = "read" /\ MayRun(Reader)
    /\ n <= ReceiveBufferSize
    /\ lBytes' = lBytes \o SubSeq(stream, 1, n)
    /\ stream' = SubSeq(stream, n + 1, Len(stream))
    /\ Goto(Reader, "parse")
    /\ UNCHANGED <<rc4Vars, uiThread, encrypted, senderVars, received, sentIn>>

PacketSize == DataLength(lBytes) + 4

KnownProtocol == lBytes[1] \in {ProtocolValue, EncryptedProtocolValue}

CompleteAndMore ==
    /\ Len(lBytes) >= PacketLengthMin
    /\ KnownProtocol
    /\ Len(lBytes) > PacketSize

\* Is there a whole packet at the head of lBytes?
Complete ==
    /\ Len(lBytes) >= PacketLengthMin
    /\ KnownProtocol
    /\ Len(lBytes) >= PacketSize

\* Wait for more; bytes of an unknown protocol, which the master of this model does
\* not send, are thrown away, all of them.
AwaitMore ==
    /\ pc[Reader] = "parse" /\ ~Complete
    /\ lBytes' = IF Len(lBytes) >= PacketLengthMin /\ ~KnownProtocol THEN <<>> ELSE lBytes
    /\ Goto(Reader, "read")
    /\ UNCHANGED <<rc4Vars, uiThread, encrypted, senderVars, stream, received, sentIn>>

\* OnDataReceived with the message, or the end of the loop by an exception.
HandOn(m) ==
    /\ received' = IF m.ok THEN Append(received, m) ELSE received
    /\ Goto(Reader, IF m.ok THEN "parse" ELSE "ended")

\* lBytes without its first packet.
Rest == SubSeq(lBytes, PacketSize + 1, Len(lBytes))

PlainPacket ==
    /\ pc[Reader] = "parse" /\ Complete /\ lBytes[1] = ProtocolValue
    /\ HandOn(FromData(SubSeq(lBytes, 1, PacketSize)))
    /\ lBytes' = Rest
    /\ UNCHANGED <<rc4Vars, uiThread, encrypted, senderVars, stream, sentIn>>

\* ICSPEncryptedMsg from bytes, GetDecryptedData (the packet is skipped if there is
\* no CryptoProvider) ...
EncryptedPacket ==
    LET bytes == SubSeq(lBytes, 1, PacketSize) IN
    /\ pc[Reader] = "parse" /\ Complete /\ lBytes[1] = EncryptedProtocolValue
    /\ IF encrypted
         THEN /\ BeginBlock(Reader, EncryptedData(bytes), Salt(bytes))
              /\ Goto(Reader, "decrypt")
         ELSE UNCHANGED <<rc4Vars, pc>>
    /\ lBytes' = Rest
    /\ UNCHANGED <<uiThread, encrypted, senderVars, stream, received, sentIn>>

\* ... and FromData on the result.
Decrypted ==
    /\ pc[Reader] = "decrypt"
    /\ EndBlock(Reader)
    /\ HandOn(FromData(block[Reader].data))
    /\ UNCHANGED <<uiThread, encrypted, senderVars, stream, lBytes, sentIn>>

-----------------------------------------------------------------------------
(***************************************************************************)
(* The master sends a message, encrypted or not if the session allows it.  *)
(***************************************************************************)
MasterSends(data) ==
    LET m == Message(Increment(Len(sentIn)), data) IN
    /\ Len(sentIn) < MaxIn
    /\ sentIn' = Append(sentIn, m)
    /\ \/ stream' = stream \o RawData(m)
       \/ /\ encrypted
          /\ \E salt \in Salts :
                stream' = stream \o EncryptedRawData(salt, MasterCipher(salt, RawData(m)))
    /\ UNCHANGED <<rc4Vars, uiThread, encrypted, pc, senderVars, lBytes, received>>

-----------------------------------------------------------------------------
Sender(t) ==
    \/ LoadMsgId(t)
    \/ \E data \in Payloads : Serialize(t, data)
    \/ SendPlain(t)
    \/ \E salt \in Salts : SendEncrypted(t, salt)
    \/ Transform(t)
    \/ WriteEncrypted(t)

ReadLoop ==
    \/ \E n \in 1 .. Len(stream) : ReadAsync(n)
    \/ AwaitMore \/ PlainPacket \/ EncryptedPacket \/ Transform(Reader) \/ Decrypted

Next ==
    \/ \E t \in Senders : Sender(t)
    \/ ReadLoop
    \/ \E data \in Payloads : MasterSends(data)

Spec == Init /\ [][Next]_vars

\* A thread that is under way is run; nobody has to begin to send.
FairSpec ==
    /\ Spec
    /\ WF_vars(ReadLoop)
    /\ \A t \in Senders : WF_vars(pc[t] # "idle" /\ Sender(t))

-----------------------------------------------------------------------------
(***************************************************************************)
(* Properties.                                                             *)
(***************************************************************************)
Inbound == INSTANCE MessageChannel WITH sent <- sentIn, received <- received

\* The connection is a message channel to the client: whatever the boundaries of
\* the reads and however the packets were encrypted, OnDataReceived gets the
\* master's messages, each once, unchanged and in order.
DeliveredInOrder == Inbound!Spec

\* Everything the master sent reaches OnDataReceived: no byte count leaves a packet
\* waiting in lBytes, no packet ends the loop.
AllDelivered == Inbound!Delivered

\* What a sender writes, the master can read: encrypted or not, it decodes to the
\* message that was built.
SentReadable == \A i \in DOMAIN written : MasterReads(written[i].bytes) = written[i].msg

\* TransformBlock works as on a copy of the session's key of its own, although
\* sending threads and the read loop share one provider and its index pointers.
ActsPerCall == PerCall!Spec
===============================================================================
