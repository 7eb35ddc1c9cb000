------------------------ MODULE FileManagerProofs ------------------------
(***************************************************************************)
(* File transfers keep their types, and with one panel written to and one  *)
(* read from what arrives is what was sent: for any files, contents, size  *)
(* of a piece and number of transfers that break off.                      *)
(***************************************************************************)
EXTENDS FileManager, SequenceTheorems, FiniteSetTheorems, TLAPS

\* A file the master has asked to write has a name.
NamedWrites == \A p \in Panels : session[p].phase = "asked" => session[p].name \in Names

\* A directory that has been read has an entry left to send.
EntriesLeft == \A l \in listing : l.read => l.left # <<>>

\* The types, inductively.
TypeInv == TypeOK /\ NamedWrites /\ EntriesLeft

\* An entry of a directory.
Item == [name : AllNames \cup {"?"}, size : Nat]

\* The first piece of some bytes and the others are all of them.
LEMMA Pieces ==
    ASSUME NEW b \in Seq(Byte)
    PROVE  /\ FirstJunk(b) \in Seq(Byte) /\ OtherJunk(b) \in Seq(Byte)
           /\ FirstJunk(b) \o OtherJunk(b) = b
  <1>1. PICK n \in Nat : n = Len(b)
    OBVIOUS
  <1>2. PICK k \in 0 .. n : k = Junk(b)
    BY <1>1, FileConstants DEF Junk
  <1>3. \A i \in 1 .. n : b[i] \in Byte
    BY <1>1
  <1>4. SubSeq(b, 1, k) \in Seq(Byte)
    BY <1>3, SubSeqProperties
  <1>5. SubSeq(b, k + 1, n) \in Seq(Byte)
    BY <1>3, SubSeqProperties
  <1>6. SubSeq(b, 1, k) \o SubSeq(b, k + 1, n) = SubSeq(b, 1, n)
    <2>1. 1 \in 1 .. Len(b) + 1 /\ k \in 1 - 1 .. Len(b) /\ Len(b) \in k .. Len(b)
      BY <1>1
    <2>2. SubSeq(b, 1, k) \o SubSeq(b, k + 1, Len(b)) = SubSeq(b, 1, Len(b))
      BY <2>1, ConcatAdjacentSubSeq
    <2>3. QED
      BY <1>1, <2>2
  <1>7. SubSeq(b, 1, n) = b
    BY <1>1, SubSeqFull
  <1>8. QED
    BY <1>1, <1>2, <1>4, <1>5, <1>6, <1>7 DEF FirstJunk, OtherJunk

\* The document XmlDocument.Save writes is a sequence of bytes.
LEMMA SavedXml ==
    ASSUME NEW b \in Seq(Byte)
    PROVE  SaveXml(b) \in Seq(Byte)
  <1> DEFINE X == {j \in DOMAIN b : b[j] = "x"}
  <1>1. PICK n \in Nat : n = Len(b)
    OBVIOUS
  <1>2. IsFiniteSet(DOMAIN b)
    BY <1>1, FS_Interval
  <1>3. X \subseteq DOMAIN b
    OBVIOUS
  <1>4. IsFiniteSet(X)
    BY <1>2, <1>3, FS_Subset, Zenon
  <1>5. PICK k \in Nat : k = Cardinality(X)
    BY <1>4, FS_CardinalityType
  <1>6. [i \in 1 .. k |-> "x"] \in Seq(Byte)
    BY DEF Byte
  <1>7. "nl" \in Byte
    BY DEF Byte
  <1>8. Append([i \in 1 .. k |-> "x"], "nl") \in Seq(Byte)
    BY <1>6, <1>7, AppendProperties
  <1>9. SaveXml(b) = Append([i \in 1 .. k |-> "x"], "nl")
    BY <1>5 DEF SaveXml
  <1>10. QED
    BY <1>8, <1>9

\* So is whatever TransferFileDataComplete writes.
LEMMA WrittenType ==
    ASSUME NEW n, NEW b \in Seq(Byte)
    PROVE  Written(n, b) \in Seq(Byte)
  <1> DEFINE raw == IF MagicByte(b) = <<"1F", "8B">> THEN Decompress(b) ELSE b
  <1>1. PICK k \in Nat : k = Len(b)
    OBVIOUS
  <1>2. \A i \in 3 .. k : b[i] \in Byte
    BY <1>1
  <1>3. SubSeq(b, 3, k) \in Seq(Byte)
    BY <1>2, SubSeqProperties
  <1>4. raw \in Seq(Byte)
    BY <1>1, <1>3 DEF Decompress
  <1>5. SaveXml(raw) \in Seq(Byte)
    BY <1>4, SavedXml
  <1> HIDE DEF raw
  <1>6. Written(n, b) = b \/ Written(n, b) = SaveXml(raw)
    BY DEF Written, raw
  <1>7. QED
    BY <1>5, <1>6

\* The files of a directory, in the order they are listed.
LEMMA ListedFiles ==
    ASSUME NEW d
    PROVE  FilesOf(d) \in Seq({n \in Names : disk[n] # Null})
  <1> DEFINE F == {n \in Names : disk[n] # Null /\ Home(n) = d}
  <1> DEFINE A1 == {} \cup {"manifest.xma"}
             A2 == A1 \cup {"page.xma"}
             A3 == A2 \cup {"logo.png"}
             A4 == A3 \cup {"version.xma"}
  <1>1. IsFiniteSet(A1)
    BY FS_EmptySet, FS_AddElement, Zenon
  <1>2. IsFiniteSet(A2)
    BY <1>1, FS_AddElement, Zenon
  <1>3. IsFiniteSet(A3)
    BY <1>2, FS_AddElement, Zenon
  <1>4. IsFiniteSet(A4)
    BY <1>3, FS_AddElement, Zenon
  <1>5. F \subseteq A4
    BY FileConstants DEF AllNames
  <1>6. IsFiniteSet(F)
    BY <1>4, <1>5, FS_Subset, Zenon
  <1>7. Cardinality(F) \in Nat /\ ExistsBijection(1 .. Cardinality(F), F)
    BY <1>6, FS_CardinalityType, Zenon
  <1>8. PICK k \in Nat : k = Cardinality(F)
    BY <1>7
  <1>9. \E f \in [1 .. k -> F] : IsInjective(f)
    BY <1>7, <1>8 DEF ExistsBijection, Bijection, Injection
  <1>10. FilesOf(d) = CHOOSE f \in [1 .. k -> F] : IsInjective(f)
    BY <1>8 DEF FilesOf, SetToSeq
  <1>11. FilesOf(d) \in [1 .. k -> F]
    BY <1>9, <1>10, Zenon
  <1>12. FilesOf(d) \in [1 .. k -> {n \in Names : disk[n] # Null}]
    BY <1>11
  <1> HIDE DEF F
  <1>13. QED
    BY <1>8, <1>12
-----------------------------------------------------------------------------
(***************************************************************************)
(* Types.                                                                  *)
(***************************************************************************)

\* The next message to the panel, and what is left in the channel.
LEMMA Received ==
    ASSUME TypeOK, NEW fn, Receive(fn)
    PROVE  /\ toPanel # <<>> /\ toPanel' \in Seq(PanelMsg)
           /\ Msg \in PanelMsg /\ Msg.fn = fn /\ Msg.panel \in Panels
           /\ fn = "FileData" => Msg.bytes \in Seq(Byte)
           /\ fn \in {"SingleFileInfo", "GetFileAccessToken"} => Msg.name \in Names
           /\ fn \in {"DirGet", "DirCreate"} => Msg.dir \in Dirs
  <1>1. toPanel \in Seq(PanelMsg) /\ toPanel # <<>> /\ toPanel' = Tail(toPanel)
    BY DEF TypeOK, Receive
  <1>2. Head(toPanel) \in PanelMsg /\ Tail(toPanel) \in Seq(PanelMsg)
    BY <1>1, HeadTailProperties
  <1>3. Msg \in PanelMsg /\ Msg.fn = fn
    BY <1>2 DEF Msg, Receive
  <1>4. QED
    BY <1>1, <1>2, <1>3 DEF PanelMsg

\* The next message to the master, and what is left in the channel.
LEMMA Answered ==
    ASSUME TypeOK, toMaster # <<>>
    PROVE  /\ Tail(toMaster) \in Seq(MasterMsg)
           /\ Answer \in MasterMsg /\ Answer.panel \in Panels
           /\ Answer.fn = "FileData" => Answer.bytes \in Seq(Byte)
           /\ Asking \in Session
  <1>1. toMaster \in Seq(MasterMsg) /\ session \in [Panels -> Session]
    BY DEF TypeOK
  <1>2. Answer \in MasterMsg /\ Tail(toMaster) \in Seq(MasterMsg)
    BY <1>1, HeadTailProperties DEF Answer
  <1>3. Answer.panel \in Panels /\ (Answer.fn = "FileData" => Answer.bytes \in Seq(Byte))
    BY <1>2 DEF MasterMsg
  <1>4. QED
    BY <1>1, <1>2, <1>3 DEF Asking

\* What is sent joins the channel, or is dropped when offline.
LEMMA Sent ==
    ASSUME TypeOK, NEW m \in MasterMsg, Send(m)
    PROVE  toMaster' \in Seq(MasterMsg)
  <1>1. toMaster \in Seq(MasterMsg)
    BY DEF TypeOK
  <1>2. Append(toMaster, m) \in Seq(MasterMsg)
    BY <1>1, AppendProperties
  <1>3. QED
    BY <1>1, <1>2 DEF Send

\* The short answers.
LEMMA Replied ==
    ASSUME TypeOK, Msg.panel \in Panels,
           NEW fn \in {"SingleFileAck", "SingleFileInfoAck", "Ack", "FileDataCompleteAck",
                       "GetFileAccessTokenAck", "Nak", "FileDataComplete", "GetFile",
                       "DirHeader"},
           Reply(fn)
    PROVE  toMaster' \in Seq(MasterMsg)
  <1>1. [panel |-> Msg.panel, fn |-> fn] \in MasterMsg
    BY DEF MasterMsg
  <1>2. QED
    BY <1>1, Sent DEF Reply

\* SendJunk takes a piece off mBufferSend.
LEMMA JunkSent ==
    ASSUME TypeOK, Msg.panel \in Panels, HasJunk, SendJunk
    PROVE  mBufferSend' \in Seq(Byte) /\ toMaster' \in Seq(MasterMsg)
  <1>1. mBufferSend \in Seq(Byte)
    BY DEF TypeOK, HasJunk
  <1>2. FirstJunk(mBufferSend) \in Seq(Byte) /\ OtherJunk(mBufferSend) \in Seq(Byte)
    BY <1>1, Pieces
  <1>3. [panel |-> Msg.panel, fn |-> "FileData", bytes |-> FirstJunk(mBufferSend)]
          \in MasterMsg
    BY <1>2 DEF MasterMsg
  <1>4. toMaster' \in Seq(MasterMsg)
    BY <1>3, Sent DEF SendJunk
  <1>5. QED
    BY <1>2, <1>4 DEF SendJunk

\* The master begins something: a session of its kind and a message.
LEMMA Begun ==
    ASSUME TypeInv, NEW p \in Panels, NEW m \in PanelMsg, NEW s \in Session,
           s.phase = "asked" => s.name \in Names, Begins(p, m, s)
    PROVE  TypeInv'
  <1> USE DEF Begins, panelVars, diskVars, fileVars, listVars, masterVars
  <1>1. toPanel' \in Seq(PanelMsg)
    BY AppendProperties DEF TypeInv, TypeOK
  <1>2. session' \in [Panels -> Session] /\ NamedWrites'
    BY DEF TypeInv, TypeOK, NamedWrites
  <1>3. ops' \in 0 .. MaxOps
    BY FileConstants DEF TypeInv, TypeOK
  <1>4. EntriesLeft'
    BY DEF TypeInv, EntriesLeft
  <1>5. TypeOK'
    BY <1>1, <1>2, <1>3 DEF TypeInv, TypeOK
  <1>6. QED
    BY <1>2, <1>4, <1>5 DEF TypeInv

\* The master takes an answer.
LEMMA Taken ==
    ASSUME TypeInv, NEW phases, NEW fns, NEW s \in Session, NEW ms \in Seq(PanelMsg),
           s.phase = "asked" => s.name \in Names, Takes(phases, fns, s, ms)
    PROVE  TypeInv'
  <1> USE DEF Takes, panelVars, diskVars, fileVars, listVars, masterVars
  <1>1. Tail(toMaster) \in Seq(MasterMsg) /\ Answer.panel \in Panels
    BY Answered DEF TypeInv
  <1>2. toPanel' \in Seq(PanelMsg)
    BY ConcatProperties DEF TypeInv, TypeOK
  <1>3. session' \in [Panels -> Session] /\ NamedWrites'
    BY <1>1 DEF TypeInv, TypeOK, NamedWrites
  <1>4. EntriesLeft'
    BY DEF TypeInv, EntriesLeft
  <1>5. TypeOK'
    BY <1>1, <1>2, <1>3 DEF TypeInv, TypeOK
  <1>6. QED
    BY <1>3, <1>4, <1>5 DEF TypeInv

\* An idle session.
LEMMA IdleSession == Idle \in Session /\ Idle.phase = "idle"
  BY FileConstants DEF Idle, Session, Phase

\* lItemNo++ wraps.
LEMMA NextIsUShort ==
    ASSUME NEW k \in UShort
    PROVE  NextItemNo(k) \in UShort
  <1>1. UShortMax = 65535
    BY DEF UShortMax
  <1>2. k \in Nat
    BY <1>1 DEF UShort
  <1>3. PICK r \in Nat : r = (k + 1) % 65536 /\ r <= 65535
    BY <1>2
  <1>4. NextItemNo(k) = r
    BY <1>1, <1>3 DEF NextItemNo
  <1>5. r <= UShortMax /\ UShortMax \in Nat
    BY <1>1, <1>3
  <1>6. r \in UShort
    BY <1>5 DEF UShort
  <1>7. QED
    BY <1>4, <1>6

\* The entries of a directory, each a name and a size.
LEMMA ItemsType ==
    ASSUME TypeOK, NEW d
    PROVE  Items(d) \in Seq(Item) /\ Len(Items(d)) \in Nat
  <1> DEFINE S == {n \in Names : disk[n] # Null}
  <1>1. FilesOf(d) \in Seq(S)
    BY ListedFiles
  <1>2. PICK k \in Nat : FilesOf(d) \in [1 .. k -> S]
    BY <1>1, LenProperties
  <1>3. \A n \in S : [name |-> n, size |-> FileSize(n)] \in Item
    BY FileConstants DEF TypeOK, FileSize, Item
  <1>4. Items(d) = [i \in 1 .. k |-> [name |-> FilesOf(d)[i],
                                      size |-> FileSize(FilesOf(d)[i])]]
    BY <1>2 DEF Items
  <1>5. \A i \in 1 .. k : FilesOf(d)[i] \in S
    BY <1>2
  <1> HIDE DEF S
  <1>6. Items(d) \in [1 .. k -> Item]
    BY <1>3, <1>4, <1>5
  <1>7. QED
    BY <1>6

\* A continuation that has read its directory has an entry to send.
LEMMA ReadType ==
    ASSUME TypeOK, NEW l \in Continuation
    PROVE  Read(l) \in Continuation /\ Read(l).left # <<>>
  <1> DEFINE items == Items(l.dir)
             rest  == IF items = <<>> THEN <<[name |-> "?", size |-> 0]>> ELSE items
             first == IF items = <<>> THEN UShortMax ELSE 0
             len   == Len(items)
  <1>1. items \in Seq(Item) /\ len \in Nat
    BY ItemsType
  <1>2. <<[name |-> "?", size |-> 0]>> \in Seq(Item)
    BY DEF Item
  <1>3. rest \in Seq(Item) /\ rest # <<>> /\ first \in UShort
    BY <1>1, <1>2 DEF UShort, UShortMax
  <1>4. Read(l) = [l EXCEPT !.read = TRUE, !.count = len, !.no = first, !.left = rest]
    BY DEF Read
  <1> HIDE DEF items, rest, first, len
  <1>5. l = [left |-> l.left, panel |-> l.panel, no |-> l.no, dir |-> l.dir,
             count |-> l.count, read |-> l.read]
    BY DEF Continuation
  <1>6. Read(l) = [left |-> rest, panel |-> l.panel, no |-> first, dir |-> l.dir,
                   count |-> len, read |-> TRUE]
    BY <1>4, <1>5
  <1>7. l.panel \in Panels /\ l.dir \in Dirs
    BY DEF Continuation
  <1>8. QED
    BY <1>1, <1>3, <1>6, <1>7 DEF Continuation, Item

\* Every step keeps the types.
LEMMA TypeStep ==
    ASSUME TypeInv, [Next]_vars
    PROVE  TypeInv'
  <1> USE DEF diskVars, fileVars, listVars, masterVars
  <1> TypeOK /\ NamedWrites /\ EntriesLeft
    BY DEF TypeInv
  <1>1. CASE TransferSingleFile
    <2>1. toPanel' \in Seq(PanelMsg) /\ Msg.panel \in Panels
      BY <1>1, Received DEF TransferSingleFile
    <2>2. toMaster' \in Seq(MasterMsg)
      BY <1>1, <2>1, Replied DEF TransferSingleFile
    <2>3. UNCHANGED <<disk, dirs, mCurrentFileNameData, mBufferData, mBufferSend,
                      mDictionaryFileSize, listing, connected, session, granted, ops>>
      BY <1>1, Received DEF TransferSingleFile
    <2>4. TypeOK' /\ NamedWrites' /\ EntriesLeft'
      BY <2>1, <2>2, <2>3 DEF TypeOK, NamedWrites, EntriesLeft
    <2>5. QED
      BY <2>4 DEF TypeInv
  <1>2. CASE TransferSingleFileInfo
    <2>1. toPanel' \in Seq(PanelMsg) /\ Msg.panel \in Panels
      BY <1>2, Received DEF TransferSingleFileInfo
    <2>2. toMaster' \in Seq(MasterMsg)
      BY <1>2, <2>1, Replied DEF TransferSingleFileInfo
    <2>3. UNCHANGED <<disk, dirs, mBufferSend, mDictionaryFileSize, listing,
                      connected, session, granted, ops>>
          /\ mCurrentFileNameData' \in Names /\ mBufferData' = <<>>
      BY <1>2, Received DEF TransferSingleFileInfo
    <2>4. TypeOK' /\ NamedWrites' /\ EntriesLeft'
      BY <2>1, <2>2, <2>3 DEF TypeOK, NamedWrites, EntriesLeft
    <2>5. QED
      BY <2>4 DEF TypeInv
  <1>3. CASE TransferFileData
    <2>1. toPanel' \in Seq(PanelMsg) /\ Msg.panel \in Panels /\ Msg.bytes \in Seq(Byte)
      BY <1>3, Received DEF TransferFileData
    <2>2. toMaster' \in Seq(MasterMsg)
      BY <1>3, <2>1, Replied DEF TransferFileData
    <2>3. mBufferData \in Seq(Byte) => mBufferData \o Msg.bytes \in Seq(Byte)
      BY <2>1, ConcatProperties
    <2>4. UNCHANGED <<disk, dirs, mCurrentFileNameData, mBufferSend,
                      mDictionaryFileSize, listing, connected, session, granted, ops>>
          /\ mBufferData' \in Seq(Byte) \cup {Null}
      BY <1>3, <2>3 DEF TransferFileData, TypeOK
    <2>5. TypeOK' /\ NamedWrites' /\ EntriesLeft'
      BY <2>1, <2>2, <2>4 DEF TypeOK, NamedWrites, EntriesLeft
    <2>6. QED
      BY <2>5 DEF TypeInv
  <1>4. CASE TransferFileDataComplete
    <2>1. toPanel' \in Seq(PanelMsg) /\ Msg.panel \in Panels
      BY <1>4, Received DEF TransferFileDataComplete
    <2>2. toMaster' \in Seq(MasterMsg)
      BY <1>4, <2>1, Replied DEF TransferFileDataComplete
    <2>3. mBufferData # Null =>
             Written(mCurrentFileNameData, mBufferData) \in Seq(Byte)
      BY WrittenType DEF TypeOK
    <2>4. disk' \in [Names -> Seq(Byte) \cup {Null}]
      BY <1>4, <2>3 DEF TransferFileDataComplete, TypeOK
    <2>5. UNCHANGED <<dirs, mCurrentFileNameData, mBufferData, mBufferSend,
                      mDictionaryFileSize, listing, connected, session, granted, ops>>
          /\ disk' \in [Names -> Seq(Byte) \cup {Null}]
      BY <1>4, <2>4 DEF TransferFileDataComplete
    <2>6. TypeOK' /\ NamedWrites' /\ EntriesLeft'
      BY <2>1, <2>2, <2>5 DEF TypeOK, NamedWrites, EntriesLeft
    <2>7. QED
      BY <2>6 DEF TypeInv
  <1>5. CASE TransferGetFileAccessToken
    <2>1. toPanel' \in Seq(PanelMsg) /\ Msg.panel \in Panels /\ Msg.name \in Names
      BY <1>5, Received DEF TransferGetFileAccessToken
    <2>2. toMaster' \in Seq(MasterMsg)
      BY <1>5, <2>1, Replied DEF TransferGetFileAccessToken
    <2>3. DefaultVersion \in Seq(Byte)
      BY DEF DefaultVersion, Byte
    <2>4. disk' \in [Names -> Seq(Byte) \cup {Null}]
      BY <1>5, <2>1, <2>3 DEF TransferGetFileAccessToken, WithVersion, TypeOK
    <2>5. /\ granted' \in [Panels -> Seq(Byte) \cup {Null}]
          /\ mBufferSend' \in Seq(Byte) \cup {Null}
      BY <1>5, <2>1, <2>4 DEF TransferGetFileAccessToken, TypeOK
    <2>6. UNCHANGED <<dirs, mCurrentFileNameData, mBufferData,
                      mDictionaryFileSize, listing, connected, session, ops>>
          /\ disk' \in [Names -> Seq(Byte) \cup {Null}]
          /\ granted' \in [Panels -> Seq(Byte) \cup {Null}]
          /\ mBufferSend' \in Seq(Byte) \cup {Null}
      BY <1>5, <2>4, <2>5 DEF TransferGetFileAccessToken
    <2>7. TypeOK' /\ NamedWrites' /\ EntriesLeft'
      BY <2>1, <2>2, <2>6 DEF TypeOK, NamedWrites, EntriesLeft
    <2>8. QED
      BY <2>7 DEF TypeInv
  <1>6. CASE TransferGetFile
    <2>1. toPanel' \in Seq(PanelMsg) /\ Msg.panel \in Panels
      BY <1>6, Received DEF TransferGetFile
    <2>2. HasJunk /\ SendJunk => mBufferSend' \in Seq(Byte)
          /\ toMaster' \in Seq(MasterMsg)
      BY <2>1, JunkSent
    <2>3. ~(HasJunk /\ SendJunk) =>
             /\ mBufferSend' \in Seq(Byte) \cup {Null}
             /\ toMaster' \in Seq(MasterMsg)
      BY <1>6, <2>1, Replied DEF TransferGetFile, TypeOK
    <2>4. toMaster' \in Seq(MasterMsg) /\ mBufferSend' \in Seq(Byte) \cup {Null}
      BY <2>2, <2>3
    <2>5. UNCHANGED <<disk, dirs, mCurrentFileNameData, mBufferData,
                      mDictionaryFileSize, listing, connected, session, granted, ops>>
      BY <1>6 DEF TransferGetFile
    <2>6. TypeOK' /\ NamedWrites' /\ EntriesLeft'
      BY <2>1, <2>4, <2>5 DEF TypeOK, NamedWrites, EntriesLeft
    <2>7. QED
      BY <2>6 DEF TypeInv
  <1>7. CASE Ack
    <2>1. toPanel' \in Seq(PanelMsg) /\ Msg.panel \in Panels
      BY <1>7, Received DEF Ack
    <2>2. HasJunk /\ SendJunk => mBufferSend' \in Seq(Byte)
          /\ toMaster' \in Seq(MasterMsg)
      BY <2>1, JunkSent
    <2>3. ~(HasJunk /\ SendJunk) =>
             /\ mBufferSend' \in Seq(Byte) \cup {Null}
             /\ toMaster' \in Seq(MasterMsg)
      BY <1>7, <2>1, Replied DEF Ack, TypeOK
    <2>4. toMaster' \in Seq(MasterMsg) /\ mBufferSend' \in Seq(Byte) \cup {Null}
      BY <2>2, <2>3
    <2>5. UNCHANGED <<disk, dirs, mCurrentFileNameData, mBufferData,
                      mDictionaryFileSize, listing, connected, session, granted, ops>>
      BY <1>7 DEF Ack
    <2>6. TypeOK' /\ NamedWrites' /\ EntriesLeft'
      BY <2>1, <2>4, <2>5 DEF TypeOK, NamedWrites, EntriesLeft
    <2>7. QED
      BY <2>6 DEF TypeInv
  <1>8. CASE DeleteFile
    <2>1. toPanel' \in Seq(PanelMsg) /\ Msg.panel \in Panels
      BY <1>8, Received DEF DeleteFile
    <2>2. toMaster' \in Seq(MasterMsg)
      BY <1>8, <2>1, Replied DEF DeleteFile
    <2>3. UNCHANGED <<disk, dirs, mCurrentFileNameData, mBufferData, mBufferSend,
                      mDictionaryFileSize, listing, connected, session, granted, ops>>
      BY <1>8, Received DEF DeleteFile
    <2>4. TypeOK' /\ NamedWrites' /\ EntriesLeft'
      BY <2>1, <2>2, <2>3 DEF TypeOK, NamedWrites, EntriesLeft
    <2>5. QED
      BY <2>4 DEF TypeInv
  <1>9. CASE InvalidFileType
    <2>1. toPanel' \in Seq(PanelMsg) /\ Msg.panel \in Panels
      BY <1>9, Received DEF InvalidFileType
    <2>2. toMaster' \in Seq(MasterMsg)
      BY <1>9, <2>1, Replied DEF InvalidFileType
    <2>3. UNCHANGED <<disk, dirs, mCurrentFileNameData, mBufferData, mBufferSend,
                      mDictionaryFileSize, listing, connected, session, granted, ops>>
      BY <1>9, Received DEF InvalidFileType
    <2>4. TypeOK' /\ NamedWrites' /\ EntriesLeft'
      BY <2>1, <2>2, <2>3 DEF TypeOK, NamedWrites, EntriesLeft
    <2>5. QED
      BY <2>4 DEF TypeInv
  <1>10. CASE TransferGetFileAccessTokenAck
    <2>1. toPanel' \in Seq(PanelMsg) /\ Msg.panel \in Panels
      BY <1>10, Received DEF TransferGetFileAccessTokenAck
    <2>2. toMaster' \in Seq(MasterMsg)
      BY <1>10, <2>1, Replied DEF TransferGetFileAccessTokenAck
    <2>3. UNCHANGED <<disk, dirs, mCurrentFileNameData, mBufferData, mBufferSend,
                      mDictionaryFileSize, listing, connected, session, granted, ops>>
      BY <1>10, Received DEF TransferGetFileAccessTokenAck
    <2>4. TypeOK' /\ NamedWrites' /\ EntriesLeft'
      BY <2>1, <2>2, <2>3 DEF TypeOK, NamedWrites, EntriesLeft
    <2>5. QED
      BY <2>4 DEF TypeInv
  <1>11. CASE NotAnswered
    <2>1. toPanel' \in Seq(PanelMsg)
      BY <1>11, Received DEF NotAnswered
    <2>2. toMaster' = toMaster
      BY <1>11 DEF NotAnswered
    <2>3. UNCHANGED <<disk, dirs, mCurrentFileNameData, mBufferData, mBufferSend,
                      mDictionaryFileSize, listing, connected, session, granted, ops>>
      BY <1>11 DEF NotAnswered
    <2>4. TypeOK' /\ NamedWrites' /\ EntriesLeft'
      BY <2>1, <2>2, <2>3 DEF TypeOK, NamedWrites, EntriesLeft
    <2>5. QED
      BY <2>4 DEF TypeInv
  <1>12. CASE CreateDirectory
    <2>1. toPanel' \in Seq(PanelMsg) /\ Msg.panel \in Panels /\ Msg.dir \in Dirs
      BY <1>12, Received DEF CreateDirectory
    <2>2. toMaster' \in Seq(MasterMsg)
      BY <1>12, <2>1, Replied DEF CreateDirectory
    <2>3. UNCHANGED <<disk, mCurrentFileNameData, mBufferData, mBufferSend,
                      mDictionaryFileSize, listing, connected, session, granted, ops>>
          /\ dirs' \subseteq Dirs
      BY <1>12, <2>1 DEF CreateDirectory, TypeOK
    <2>4. TypeOK' /\ NamedWrites' /\ EntriesLeft'
      BY <2>1, <2>2, <2>3 DEF TypeOK, NamedWrites, EntriesLeft
    <2>5. QED
      BY <2>4 DEF TypeInv
  <1>13. CASE GetDirectoryInfo
    <2> DEFINE new == [left |-> <<>>, panel |-> Msg.panel, no |-> 0,
                       dir |-> Msg.dir, count |-> 0, read |-> FALSE]
    <2>1. toPanel' \in Seq(PanelMsg) /\ Msg.panel \in Panels /\ Msg.dir \in Dirs
      BY <1>13, Received DEF GetDirectoryInfo
    <2>2. toMaster' \in Seq(MasterMsg)
      BY <1>13, <2>1, Replied DEF GetDirectoryInfo
    <2>3. new \in Continuation /\ ~new.read
      BY <2>1 DEF Continuation, UShort, UShortMax
    <2>4. mDictionaryFileSize' \subseteq AllNames /\ listing' = listing \cup {new}
      BY <1>13 DEF GetDirectoryInfo, ReadFileSizeFromManifest, TypeOK
    <2> HIDE DEF new
    <2>5. (\A l \in listing' : l \in Continuation) /\ EntriesLeft'
      BY <2>3, <2>4 DEF TypeOK, EntriesLeft
    <2>6. UNCHANGED <<disk, dirs, mCurrentFileNameData, mBufferData, mBufferSend,
                      connected, session, granted, ops>>
      BY <1>13 DEF GetDirectoryInfo
    <2>7. TypeOK' /\ NamedWrites'
      BY <2>1, <2>2, <2>4, <2>5, <2>6 DEF TypeOK, NamedWrites
    <2>8. QED
      BY <2>5, <2>7 DEF TypeInv
  <1>14. ASSUME NEW l \in listing,
               ReadDirectory(l)
        PROVE  TypeInv'
    <2>1. Read(l) \in Continuation /\ Read(l).left # <<>>
      BY ReadType DEF TypeOK
    <2>2. listing' \subseteq listing \cup {Read(l)}
      BY <1>14 DEF ReadDirectory
    <2>3. (\A m \in listing' : m \in Continuation) /\ EntriesLeft'
      BY <2>1, <2>2 DEF TypeOK, EntriesLeft
    <2>4. UNCHANGED <<disk, dirs, mCurrentFileNameData, mBufferData, mBufferSend,
                      mDictionaryFileSize, connected, session, granted, ops, toPanel,
                      toMaster>>
      BY <1>14 DEF ReadDirectory
    <2>5. TypeOK' /\ NamedWrites'
      BY <2>3, <2>4 DEF TypeOK, NamedWrites
    <2>6. QED
      BY <2>3, <2>5 DEF TypeInv
  <1>15. ASSUME NEW l \in listing,
               SendEntry(l)
        PROVE  TypeInv'
    <2> DEFINE item == Head(l.left)
               next == [l EXCEPT !.left = Tail(@), !.no = NextItemNo(@)]
               entry == [name |-> item.name, panel |-> l.panel, no |-> next.no,
                         fn |-> "DirEntry", count |-> l.count, size |-> item.size]
    <2>1. l \in Continuation /\ l.left # <<>> /\ l.left \in Seq(Item)
      BY <1>15 DEF SendEntry, TypeOK, EntriesLeft, Continuation, Item
    <2>2. item \in Item /\ Tail(l.left) \in Seq(Item)
      BY <2>1, HeadTailProperties
    <2>3. NextItemNo(l.no) \in UShort
      BY <2>1, NextIsUShort DEF Continuation
    <2>4. next \in Continuation
      BY <2>1, <2>2, <2>3 DEF Continuation, Item
    <2>5. entry \in MasterMsg
      BY <2>1, <2>2, <2>4 DEF Continuation, Item, MasterMsg
    <2>6. toMaster' \in Seq(MasterMsg)
      BY <1>15, <2>5, Sent DEF SendEntry
    <2>7. listing' = (listing \ {l}) \cup IF next.left = <<>> THEN {} ELSE {next}
      BY <1>15 DEF SendEntry
    <2> HIDE DEF next
    <2>8. (\A m \in listing' : m \in Continuation) /\ EntriesLeft'
      BY <2>4, <2>7 DEF TypeOK, EntriesLeft
    <2>9. UNCHANGED <<disk, dirs, mCurrentFileNameData, mBufferData, mBufferSend,
                      mDictionaryFileSize, connected, session, granted, ops, toPanel>>
      BY <1>15 DEF SendEntry
    <2>10. TypeOK' /\ NamedWrites'
      BY <2>6, <2>8, <2>9 DEF TypeOK, NamedWrites
    <2>11. QED
      BY <2>8, <2>10 DEF TypeInv
  <1>16. CASE MasterNames
    <2> DEFINE s == [Asking EXCEPT !.phase = "writing"]
               m == [name |-> Asking.name, panel |-> Answer.panel,
               fn |-> "SingleFileInfo"]
    <2>1. toMaster # <<>>
      BY <1>16 DEF MasterNames, Takes
    <2>2. Answer.panel \in Panels /\ Asking \in Session
      BY <2>1, Answered
    <2>3. s \in Session /\ s.phase # "asked"
      BY <1>16, <2>2, IdleSession DEF MasterNames, Takes, Session, Phase
    <2>4. m \in PanelMsg
      BY <1>16, <2>2 DEF MasterNames, Takes, PanelMsg, NamedWrites, Asking
    <2>5. <<m>> \in Seq(PanelMsg)
      BY <2>4
    <2>6. QED
      BY <1>16, <2>3, <2>5, Taken DEF MasterNames
  <1>17. CASE MasterSendsJunk
    <2> DEFINE s == [Asking EXCEPT !.left = OtherJunk(@)]
               m == [panel |-> Answer.panel, fn |-> "FileData",
                     bytes |-> FirstJunk(Asking.left)]
    <2>1. toMaster # <<>>
      BY <1>17 DEF MasterSendsJunk, Takes
    <2>2. Answer.panel \in Panels /\ Asking \in Session
      BY <2>1, Answered
    <2>3. Asking.left \in Seq(Byte)
      BY <2>2 DEF Session
    <2>4. OtherJunk(Asking.left) \in Seq(Byte) /\ FirstJunk(Asking.left) \in Seq(Byte)
      BY <2>3, Pieces
    <2>5. s \in Session /\ s.phase # "asked"
      BY <1>17, <2>2, <2>3, <2>4, IdleSession DEF MasterSendsJunk, Takes, Session, Phase
    <2>6. m \in PanelMsg
      BY <1>17, <2>2, <2>3, <2>4 DEF MasterSendsJunk, Takes, PanelMsg, NamedWrites, Asking
    <2>7. <<m>> \in Seq(PanelMsg)
      BY <2>6
    <2>8. QED
      BY <1>17, <2>5, <2>7, Taken DEF MasterSendsJunk
  <1>18. CASE MasterCompletes
    <2> DEFINE s == [Asking EXCEPT !.phase = "closing"]
               m == [panel |-> Answer.panel, fn |-> "FileDataComplete"]
    <2>1. toMaster # <<>>
      BY <1>18 DEF MasterCompletes, Takes
    <2>2. Answer.panel \in Panels /\ Asking \in Session
      BY <2>1, Answered
    <2>3. s \in Session /\ s.phase # "asked"
      BY <1>18, <2>2, IdleSession DEF MasterCompletes, Takes, Session, Phase
    <2>4. m \in PanelMsg
      BY <1>18, <2>2 DEF MasterCompletes, Takes, PanelMsg, NamedWrites, Asking
    <2>5. <<m>> \in Seq(PanelMsg)
      BY <2>4
    <2>6. QED
      BY <1>18, <2>3, <2>5, Taken DEF MasterCompletes
  <1>19. CASE MasterHasWritten
    <2> DEFINE s == Idle
    <2>1. toMaster # <<>>
      BY <1>19 DEF MasterHasWritten, Takes
    <2>2. Answer.panel \in Panels /\ Asking \in Session
      BY <2>1, Answered
    <2>3. s \in Session /\ s.phase # "asked"
      BY <1>19, <2>2, IdleSession DEF MasterHasWritten, Takes, Session, Phase
    <2>4. <<>> \in Seq(PanelMsg)
      OBVIOUS
    <2>5. QED
      BY <1>19, <2>3, <2>4, Taken DEF MasterHasWritten
  <1>20. CASE MasterGets
    <2> DEFINE s == [Asking EXCEPT !.phase = "reading"]
               m == [panel |-> Answer.panel, fn |-> "GetFile"]
    <2>1. toMaster # <<>>
      BY <1>20 DEF MasterGets, Takes
    <2>2. Answer.panel \in Panels /\ Asking \in Session
      BY <2>1, Answered
    <2>3. s \in Session /\ s.phase # "asked"
      BY <1>20, <2>2, IdleSession DEF MasterGets, Takes, Session, Phase
    <2>4. m \in PanelMsg
      BY <1>20, <2>2 DEF MasterGets, Takes, PanelMsg, NamedWrites, Asking
    <2>5. <<m>> \in Seq(PanelMsg)
      BY <2>4
    <2>6. QED
      BY <1>20, <2>3, <2>5, Taken DEF MasterGets
  <1>21. CASE MasterTakesJunk
    <2> DEFINE s == [Asking EXCEPT !.all = @ \o Answer.bytes]
               m == [panel |-> Answer.panel, fn |-> "Ack"]
    <2>1. toMaster # <<>>
      BY <1>21 DEF MasterTakesJunk, Takes
    <2>2. Answer.panel \in Panels /\ Asking \in Session
      BY <2>1, Answered
    <2>3. Answer.bytes \in Seq(Byte) /\ Asking.all \in Seq(Byte)
      BY <1>21, <2>1, <2>2, Answered DEF MasterTakesJunk, Takes, Session
    <2>4. Asking.all \o Answer.bytes \in Seq(Byte)
      BY <2>3, ConcatProperties
    <2>5. s \in Session /\ s.phase # "asked"
      BY <1>21, <2>2, <2>3, <2>4, IdleSession DEF MasterTakesJunk, Takes, Session, Phase
    <2>6. m \in PanelMsg
      BY <1>21, <2>2, <2>3, <2>4 DEF MasterTakesJunk, Takes, PanelMsg, NamedWrites, Asking
    <2>7. <<m>> \in Seq(PanelMsg)
      BY <2>6
    <2>8. QED
      BY <1>21, <2>5, <2>7, Taken DEF MasterTakesJunk
  <1>22. CASE MasterHasRead
    <2> DEFINE s == Idle
               m == [panel |-> Answer.panel, fn |-> "FileDataCompleteAck"]
    <2>1. toMaster # <<>>
      BY <1>22 DEF MasterHasRead, Takes
    <2>2. Answer.panel \in Panels /\ Asking \in Session
      BY <2>1, Answered
    <2>3. s \in Session /\ s.phase # "asked"
      BY <1>22, <2>2, IdleSession DEF MasterHasRead, Takes, Session, Phase
    <2>4. m \in PanelMsg
      BY <1>22, <2>2 DEF MasterHasRead, Takes, PanelMsg, NamedWrites, Asking
    <2>5. <<m>> \in Seq(PanelMsg)
      BY <2>4
    <2>6. QED
      BY <1>22, <2>3, <2>5, Taken DEF MasterHasRead
  <1>23. CASE MasterIsRefused
    <2> DEFINE s == Idle
    <2>1. toMaster # <<>>
      BY <1>23 DEF MasterIsRefused, Takes
    <2>2. Answer.panel \in Panels /\ Asking \in Session
      BY <2>1, Answered
    <2>3. s \in Session /\ s.phase # "asked"
      BY <1>23, <2>2, IdleSession DEF MasterIsRefused, Takes, Session, Phase
    <2>4. <<>> \in Seq(PanelMsg)
      OBVIOUS
    <2>5. QED
      BY <1>23, <2>3, <2>4, Taken DEF MasterIsRefused
  <1>24. CASE MasterTakesEntry
    <2> DEFINE s == IF Answer.fn = "DirEntry" /\ Answer.no = Answer.count THEN Idle
                    ELSE Asking
    <2>1. toMaster # <<>>
      BY <1>24 DEF MasterTakesEntry, Takes
    <2>2. Answer.panel \in Panels /\ Asking \in Session
      BY <2>1, Answered
    <2>3. s \in Session /\ s.phase # "asked"
      BY <1>24, <2>2, IdleSession DEF MasterTakesEntry, Takes, Session, Phase
    <2>4. <<>> \in Seq(PanelMsg)
      OBVIOUS
    <2>5. QED
      BY <1>24, <2>3, <2>4, Taken DEF MasterTakesEntry
  <1>25. CASE MasterIsAnswered
    <2> DEFINE s == Idle
    <2>1. toMaster # <<>>
      BY <1>25 DEF MasterIsAnswered, Takes
    <2>2. Answer.panel \in Panels /\ Asking \in Session
      BY <2>1, Answered
    <2>3. s \in Session /\ s.phase # "asked"
      BY <1>25, <2>2, IdleSession DEF MasterIsAnswered, Takes, Session, Phase
    <2>4. <<>> \in Seq(PanelMsg)
      OBVIOUS
    <2>5. QED
      BY <1>25, <2>3, <2>4, Taken DEF MasterIsAnswered
  <1>26. CASE MasterIgnores
    <2> DEFINE s == Asking
    <2>1. toMaster # <<>>
      BY <1>26 DEF MasterIgnores, Takes
    <2>2. Answer.panel \in Panels /\ Asking \in Session
      BY <2>1, Answered
    <2>3. s \in Session /\ (s.phase = "asked" => s.name \in Names)
      BY <1>26, <2>2 DEF NamedWrites, Asking
    <2>4. <<>> \in Seq(PanelMsg)
      OBVIOUS
    <2>5. QED
      BY <1>26, <2>3, <2>4, Taken DEF MasterIgnores
  <1>27. ASSUME NEW p \in Uploaders, NEW n \in Names, NEW b \in ContentsOf(n),
               MasterWrites(p, n, b)
        PROVE  TypeInv'
    <2> DEFINE s == [phase |-> "asked", name |-> n, left |-> b, all |-> b]
               m == [panel |-> p, fn |-> "SingleFile"]
    <2>1. <<"page.xma">> \in Seq(Byte) /\ <<>> \in Seq(Byte)
      <3>1. "page.xma" \in Byte
        BY DEF Byte, AllNames
      <3>2. <<>> \in Seq(Byte)
        OBVIOUS
      <3>3. QED
        BY <3>1, <3>2
    <2>2. b \in Seq(Byte)
      BY <1>27, <2>1, FileConstants DEF ContentsOf
    <2>3. s \in Session /\ (s.phase = "asked" => s.name \in Names)
      BY <1>27, IdleSession, <2>2 DEF Session, Phase, Idle
    <2>4. m \in PanelMsg /\ p \in Panels
      BY <1>27, FileConstants DEF PanelMsg
    <2>5. QED
      BY <1>27, <2>3, <2>4, Begun DEF MasterWrites
  <1>28. ASSUME NEW p \in Downloaders, NEW n \in Names,
               MasterReads(p, n)
        PROVE  TypeInv'
    <2> DEFINE s == [Idle EXCEPT !.phase = "token", !.name = n]
               m == [name |-> n, panel |-> p, fn |-> "GetFileAccessToken"]
    <2>1. s \in Session /\ (s.phase = "asked" => s.name \in Names)
      BY <1>28, IdleSession DEF Session, Phase, Idle
    <2>2. m \in PanelMsg /\ p \in Panels
      BY <1>28, FileConstants DEF PanelMsg
    <2>3. QED
      BY <1>28, <2>1, <2>2, Begun DEF MasterReads
  <1>29. ASSUME NEW p \in Listers, NEW d \in Dirs,
               MasterLists(p, d)
        PROVE  TypeInv'
    <2> DEFINE s == [Idle EXCEPT !.phase = "listing"]
               m == [panel |-> p, fn |-> "DirGet", dir |-> d]
    <2>1. s \in Session /\ (s.phase = "asked" => s.name \in Names)
      BY <1>29, IdleSession DEF Session, Phase, Idle
    <2>2. m \in PanelMsg /\ p \in Panels
      BY <1>29, FileConstants DEF PanelMsg
    <2>3. QED
      BY <1>29, <2>1, <2>2, Begun DEF MasterLists
  <1>30. ASSUME NEW p \in Uploaders, NEW d \in Dirs,
               MasterTells(p, [panel |-> p, fn |-> "DirCreate", dir |-> d])
        PROVE  TypeInv'
    <2> DEFINE s == [Idle EXCEPT !.phase = "waiting"]
               m == [panel |-> p, fn |-> "DirCreate", dir |-> d]
    <2>1. s \in Session /\ (s.phase = "asked" => s.name \in Names)
      BY <1>30, IdleSession DEF Session, Phase, Idle
    <2>2. m \in PanelMsg /\ p \in Panels
      BY <1>30, FileConstants DEF PanelMsg
    <2>3. QED
      BY <1>30, <2>1, <2>2, Begun DEF MasterTells
  <1>31. ASSUME NEW p \in Listers,
               NEW fn \in {"FileRemove", "FirmwareType", "GetFileAccessTokenAck"},
               MasterTells(p, [panel |-> p, fn |-> fn])
        PROVE  TypeInv'
    <2> DEFINE s == [Idle EXCEPT !.phase = "waiting"]
               m == [panel |-> p, fn |-> fn]
    <2>1. s \in Session /\ (s.phase = "asked" => s.name \in Names)
      BY <1>31, IdleSession DEF Session, Phase, Idle
    <2>2. m \in PanelMsg /\ p \in Panels
      BY <1>31, FileConstants DEF PanelMsg
    <2>3. QED
      BY <1>31, <2>1, <2>2, Begun DEF MasterTells
  <1>32. ASSUME NEW p \in Listers, NEW fn \in {"FilesInitialize", "Nak"},
               MasterNotifies(p, [panel |-> p, fn |-> fn])
        PROVE  TypeInv'
    <2> DEFINE s == Idle
               m == [panel |-> p, fn |-> fn]
    <2>1. s \in Session /\ (s.phase = "asked" => s.name \in Names)
      BY <1>32, IdleSession DEF Session, Phase, Idle
    <2>2. m \in PanelMsg /\ p \in Panels
      BY <1>32, FileConstants DEF PanelMsg
    <2>3. QED
      BY <1>32, <2>1, <2>2, Begun DEF MasterNotifies
  <1>33. CASE Disconnect
    <2>1. session' \in [Panels -> Session] /\ NamedWrites'
      BY <1>33, IdleSession DEF Disconnect, NamedWrites
    <2>2. toPanel' \in Seq(PanelMsg) /\ toMaster' \in Seq(MasterMsg)
      BY <1>33 DEF Disconnect
    <2>3. ops' \in 0 .. MaxOps
      BY <1>33, FileConstants DEF Disconnect, TypeOK
    <2>4. ops' \in 0 .. MaxOps /\ connected' \in BOOLEAN
      BY <1>33, <2>3 DEF Disconnect
    <2>5. UNCHANGED <<disk, dirs, mCurrentFileNameData, mBufferData, mBufferSend,
                      mDictionaryFileSize, listing, granted>>
      BY <1>33 DEF Disconnect, panelVars
    <2>6. TypeOK' /\ EntriesLeft'
      BY <2>1, <2>2, <2>4, <2>5 DEF TypeOK, EntriesLeft
    <2>7. QED
      BY <2>1, <2>6 DEF TypeInv
  <1>34. CASE Reconnect
    <2>1. connected' \in BOOLEAN
      BY <1>34 DEF Reconnect
    <2>2. UNCHANGED <<disk, dirs, mCurrentFileNameData, mBufferData, mBufferSend,
                      mDictionaryFileSize, listing, session, granted, ops, toPanel,
                      toMaster>>
      BY <1>34 DEF Reconnect, panelVars
    <2>3. TypeOK' /\ EntriesLeft' /\ NamedWrites'
      BY <2>1, <2>2 DEF TypeOK, EntriesLeft, NamedWrites
    <2>4. QED
      BY <2>3 DEF TypeInv
  <1>35. CASE UNCHANGED vars
    <2>1. TypeOK' /\ EntriesLeft' /\ NamedWrites'
      BY <1>35 DEF vars, TypeOK, EntriesLeft, NamedWrites
    <2>2. QED
      BY <2>1 DEF TypeInv
  <1>36. QED
    BY <1>1, <1>2, <1>3, <1>4, <1>5, <1>6, <1>7, <1>8, <1>9, <1>10, <1>11, <1>12,
       <1>13, <1>14, <1>15, <1>16, <1>17, <1>18, <1>19, <1>20, <1>21, <1>22, <1>23,
       <1>24, <1>25, <1>26, <1>27, <1>28, <1>29, <1>30, <1>31, <1>32, <1>33, <1>34,
       <1>35
       DEF Next, ProcessMessage, Listing, MasterAnswers, MasterBegins

\* The types at the start.
LEMMA TypeInit ==
    ASSUME Init
    PROVE  TypeInv
  <1>1. TypeOK
    BY FileConstants, IdleSession DEF Init, TypeOK, Dirs
  <1>2. NamedWrites /\ EntriesLeft
    BY IdleSession DEF Init, NamedWrites, EntriesLeft
  <1>3. QED
    BY <1>1, <1>2 DEF TypeInv

\* The FileManager keeps its types: the ushort lItemNo wraps and stays one, and
\* every piece it sends and every file it writes is a sequence of bytes, for any
\* panels, files, contents and size of a piece.
THEOREM TypeCorrect == Spec => []TypeOK
  <1>1. Init => TypeInv
    BY TypeInit
  <1>2. TypeInv /\ [Next]_vars => TypeInv'
    BY TypeStep
  <1>3. TypeInv => TypeOK
    BY DEF TypeInv
  <1>4. QED
    BY <1>1, <1>2, <1>3, PTL DEF Spec

-----------------------------------------------------------------------------
(***************************************************************************)
(* Transfers.  The master does one thing at a time with a panel, so that   *)
(* one message of it, or its answer, is under way.                         *)
(***************************************************************************)
OneUploader   == \A p, q \in Uploaders : p = q
OneDownloader == \A p, q \in Downloaders : p = q

\* The messages the master waits for an answer to, and the answers.
IsRequest(m) ==
    m.fn \in {"SingleFile", "SingleFileInfo", "FileData", "FileDataComplete",
              "GetFileAccessToken", "GetFile", "Ack", "FileRemove", "FirmwareType",
              "GetFileAccessTokenAck", "DirCreate"}
IsAnswer(m) == m.fn \notin {"DirHeader", "DirEntry"}

\* None is under way for panel p.
Clear(p, tp, tm) ==
    /\ \A i \in 1 .. Len(tp) : IsRequest(tp[i]) => tp[i].panel # p
    /\ \A i \in 1 .. Len(tm) : IsAnswer(tm[i]) => tm[i].panel # p

OneOut(tp, tm) ==
    /\ \A i, j \in 1 .. Len(tp) :
          i # j /\ IsRequest(tp[i]) /\ IsRequest(tp[j]) => tp[i].panel # tp[j].panel
    /\ \A i, j \in 1 .. Len(tm) :
          i # j /\ IsAnswer(tm[i]) /\ IsAnswer(tm[j]) => tm[i].panel # tm[j].panel
    /\ \A i \in 1 .. Len(tp), j \in 1 .. Len(tm) :
          IsRequest(tp[i]) /\ IsAnswer(tm[j]) => tp[i].panel # tm[j].panel

\* The file of session s is the one being received.
Receiving(s) ==
    s.phase = "writing" /\ mCurrentFileNameData = s.name /\ mBufferData \in Seq(Byte)

\* The bytes b are on the disk as file n, in the form they are written.
Stored(n, b) == Writes(n, b) => disk[n] = Written(n, b)

\* The file the token was given for, g, is being sent.
Sending(s, g) == s.phase = "reading" /\ mBufferSend \in Seq(Byte) /\ g \in Seq(Byte)

\* Where a transfer is when message m is under way: what has been received, or sent,
\* with what m carries and what is left, is the whole file.
RequestFits(m) ==
    LET s == session[m.panel]
        g == granted[m.panel]
    IN
    \/ m.fn = "SingleFile" /\ s.phase = "asked" /\ s.left = s.all
    \/ m.fn = "SingleFileInfo" /\ s.phase = "writing" /\ m.name = s.name /\ s.left = s.all
    \/ m.fn = "FileData" /\ Receiving(s) /\ (mBufferData \o m.bytes) \o s.left = s.all
    \/ /\ m.fn = "FileDataComplete" /\ s.phase = "closing"
       /\ mCurrentFileNameData = s.name /\ mBufferData = s.all
    \/ m.fn = "GetFileAccessToken" /\ s.phase = "token" /\ s.all = <<>>
    \/ m.fn = "GetFile" /\ Sending(s, g) /\ s.all = <<>> /\ mBufferSend = g
    \/ m.fn = "Ack" /\ Sending(s, g) /\ s.all \o mBufferSend = g
    \/ m.fn = "DirCreate" /\ s.phase = "waiting" /\ m.panel \in Uploaders
    \/ m.fn \in {"FileRemove", "FirmwareType", "GetFileAccessTokenAck"}
       /\ s.phase = "waiting"

AnswerFits(m) ==
    LET s == session[m.panel]
        g == granted[m.panel]
    IN
    \/ m.fn = "SingleFileAck" /\ s.phase = "asked" /\ s.left = s.all
    \/ /\ m.fn \in {"SingleFileInfoAck", "Ack"}
       /\ Receiving(s) /\ mBufferData \o s.left = s.all
    \/ m.fn = "FileDataCompleteAck" /\ s.phase = "closing" /\ Stored(s.name, s.all)
    \/ /\ m.fn = "GetFileAccessTokenAck" /\ s.phase = "token" /\ s.all = <<>>
       /\ mBufferSend = g /\ g \in Seq(Byte)
    \/ m.fn = "FileData" /\ Sending(s, g) /\ (s.all \o m.bytes) \o mBufferSend = g
    \/ m.fn = "FileDataComplete" /\ s.phase = "reading" /\ s.all = g
    \/ m.fn = "Nak" /\ s.phase \in {"token", "reading", "waiting"}
    \/ m.fn \in {"Ack", "GetFile"} /\ s.phase = "waiting"

\* The panels files are written to and read from, and what has been read.
PanelFits(p) ==
    LET s == session[p] IN
    /\ s.phase \in {"asked", "writing", "closing"} => p \in Uploaders /\ s.name \in Names
    /\ s.phase \in {"token", "reading"} => p \in Downloaders
    /\ s.phase = "reading" =>
          /\ granted[p] \in Seq(Byte)
          /\ \E rest \in Seq(Byte) : s.all \o rest = granted[p]

RequestsFit == \A i \in 1 .. Len(toPanel) : IsRequest(toPanel[i]) => RequestFits(toPanel[i])
AnswersFit  == \A i \in 1 .. Len(toMaster) : IsAnswer(toMaster[i]) => AnswerFits(toMaster[i])

\* The inductive invariant.
TransferInv ==
    /\ TypeInv
    /\ OneOut(toPanel, toMaster)
    /\ RequestsFit /\ AnswersFit
    /\ \A p \in Panels : PanelFits(p)

-----------------------------------------------------------------------------
(***************************************************************************)
(* The one message under way.                                              *)
(***************************************************************************)

\* A panel handles the next message.
LEMMA OutHandled ==
    ASSUME NEW tp \in Seq(PanelMsg), NEW tm \in Seq(MasterMsg), OneOut(tp, tm), tp # <<>>
    PROVE  /\ OneOut(Tail(tp), tm)
           /\ IsRequest(Head(tp)) => Clear(Head(tp).panel, Tail(tp), tm)
  <1>1. PICK n \in Nat : n = Len(tp)
    OBVIOUS
  <1>2. n > 0 /\ Head(tp) = tp[1]
    BY <1>1
  <1>3. Len(Tail(tp)) = n - 1 /\ \A i \in 1 .. n - 1 : Tail(tp)[i] = tp[i + 1]
    BY <1>1, HeadTailProperties
  <1>4. \A i \in 1 .. n - 1 : i + 1 \in 1 .. n /\ i + 1 # 1
    OBVIOUS
  <1>5. OneOut(Tail(tp), tm)
    BY <1>1, <1>3, <1>4 DEF OneOut
  <1>6. IsRequest(Head(tp)) => Clear(Head(tp).panel, Tail(tp), tm)
    BY <1>1, <1>2, <1>3, <1>4 DEF OneOut, Clear
  <1>7. QED
    BY <1>5, <1>6

\* The master takes the next answer.
LEMMA OutTaken ==
    ASSUME NEW tp \in Seq(PanelMsg), NEW tm \in Seq(MasterMsg), OneOut(tp, tm), tm # <<>>
    PROVE  /\ OneOut(tp, Tail(tm))
           /\ IsAnswer(Head(tm)) => Clear(Head(tm).panel, tp, Tail(tm))
  <1>1. PICK n \in Nat : n = Len(tm)
    OBVIOUS
  <1>2. n > 0 /\ Head(tm) = tm[1]
    BY <1>1
  <1>3. Len(Tail(tm)) = n - 1 /\ \A i \in 1 .. n - 1 : Tail(tm)[i] = tm[i + 1]
    BY <1>1, HeadTailProperties
  <1>4. \A i \in 1 .. n - 1 : i + 1 \in 1 .. n /\ i + 1 # 1
    OBVIOUS
  <1>5. OneOut(tp, Tail(tm))
    BY <1>1, <1>3, <1>4 DEF OneOut
  <1>6. IsAnswer(Head(tm)) => Clear(Head(tm).panel, tp, Tail(tm))
    BY <1>1, <1>2, <1>3, <1>4 DEF OneOut, Clear
  <1>7. QED
    BY <1>5, <1>6

\* A message is sent to a panel none is under way for.
LEMMA OutAsked ==
    ASSUME NEW tp \in Seq(PanelMsg), NEW tm \in Seq(MasterMsg), OneOut(tp, tm),
           NEW m \in PanelMsg, IsRequest(m) => Clear(m.panel, tp, tm)
    PROVE  OneOut(Append(tp, m), tm)
  <1>1. PICK n \in Nat : n = Len(tp)
    OBVIOUS
  <1>2. /\ Len(Append(tp, m)) = n + 1 /\ Append(tp, m)[n + 1] = m
        /\ \A i \in 1 .. n : Append(tp, m)[i] = tp[i]
    BY <1>1, AppendProperties
  <1>3. \A i \in 1 .. n + 1 : i \in 1 .. n \/ i = n + 1
    OBVIOUS
  <1>4. QED
    BY <1>1, <1>2, <1>3 DEF OneOut, Clear

\* It is answered.
LEMMA OutAnswered ==
    ASSUME NEW tp \in Seq(PanelMsg), NEW tm \in Seq(MasterMsg), OneOut(tp, tm),
           NEW m \in MasterMsg, IsAnswer(m) => Clear(m.panel, tp, tm)
    PROVE  OneOut(tp, Append(tm, m))
  <1>1. PICK n \in Nat : n = Len(tm)
    OBVIOUS
  <1>2. /\ Len(Append(tm, m)) = n + 1 /\ Append(tm, m)[n + 1] = m
        /\ \A i \in 1 .. n : Append(tm, m)[i] = tm[i]
    BY <1>1, AppendProperties
  <1>3. \A i \in 1 .. n + 1 : i \in 1 .. n \/ i = n + 1
    OBVIOUS
  <1>4. QED
    BY <1>1, <1>2, <1>3 DEF OneOut, Clear

-----------------------------------------------------------------------------
(***************************************************************************)
(* What a step with one panel leaves alone of the others.                  *)
(***************************************************************************)
Frame(p) ==
    /\ session'[p] = session[p] /\ granted'[p] = granted[p]
    /\ session[p].phase \in {"writing", "closing"} =>
          UNCHANGED <<mCurrentFileNameData, mBufferData>>
    /\ session[p].phase \in {"token", "reading"} => mBufferSend' = mBufferSend
    /\ session[p].phase = "closing" =>
          \A n \in Names, b \in Seq(Byte) : Stored(n, b) => Stored(n, b)'

\* A message of such a panel goes on to fit.
LEMMA RequestFramed ==
    ASSUME NEW m, RequestFits(m), Frame(m.panel)
    PROVE  RequestFits(m)'
  <1> DEFINE s == session[m.panel]
  <1>1. session'[m.panel] = session[m.panel] /\ granted'[m.panel] = granted[m.panel]
    BY DEF Frame
  <1>2. CASE s.phase \in {"writing", "closing"}
    <2>1. mCurrentFileNameData' = mCurrentFileNameData /\ mBufferData' = mBufferData
      BY <1>2 DEF Frame
    <2>2. QED
      BY <1>1, <1>2, <2>1 DEF RequestFits, Receiving, Sending
  <1>3. CASE s.phase \in {"token", "reading"}
    <2>1. mBufferSend' = mBufferSend
      BY <1>3 DEF Frame
    <2>2. QED
      BY <1>1, <1>3, <2>1 DEF RequestFits, Receiving, Sending
  <1>4. CASE s.phase \in {"asked", "waiting"}
    BY <1>1, <1>4 DEF RequestFits, Receiving, Sending
  <1>5. QED
    BY <1>2, <1>3, <1>4 DEF RequestFits, Receiving, Sending

\* So does an answer.
LEMMA AnswerFramed ==
    ASSUME NEW m, AnswerFits(m), Frame(m.panel), session[m.panel] \in Session,
           PanelFits(m.panel)
    PROVE  AnswerFits(m)'
  <1> DEFINE s == session[m.panel]
  <1>1. CASE m.fn = "FileDataCompleteAck" /\ s.phase = "closing" /\ Stored(s.name, s.all)
    <2>1. PICK n \in Names, b \in Seq(Byte) : n = s.name /\ b = s.all
      BY <1>1 DEF PanelFits, Session
    <2>2. Stored(n, b)'
      BY <1>1, <2>1 DEF Frame
    <2>3. session'[m.panel] = session[m.panel]
      BY DEF Frame
    <2>4. QED
      BY <1>1, <2>1, <2>2, <2>3 DEF AnswerFits
  <1>2. CASE ~(m.fn = "FileDataCompleteAck" /\ s.phase = "closing"
                /\ Stored(s.name, s.all))
    BY <1>2 DEF AnswerFits, Frame, Receiving, Sending
  <1>3. QED
    BY <1>1, <1>2

\* And the panel.
LEMMA PanelFramed ==
    ASSUME NEW p, PanelFits(p), Frame(p)
    PROVE  PanelFits(p)'
  BY DEF PanelFits, Frame

\* Nothing but sessions changes.
LEMMA Still ==
    ASSUME NEW p, session'[p] = session[p],
           UNCHANGED <<disk, dirs, mCurrentFileNameData, mBufferData, mBufferSend,
                       granted>>
    PROVE  Frame(p)
  BY DEF Frame, Stored, Writes

-----------------------------------------------------------------------------
(***************************************************************************)
(* How a step may change the channels: tp and tm are what it leaves of     *)
(* them, of which nothing is a message of the panel q it is about.         *)
(***************************************************************************)
LeftOf(tp, tm) ==
    /\ tp = toPanel \/ (toPanel # <<>> /\ tp = Tail(toPanel))
    /\ tm = toMaster \/ (toMaster # <<>> /\ tm = Tail(toMaster))

\* What is left was there before.
LEMMA LeftFits ==
    ASSUME TransferInv, NEW tp, NEW tm, LeftOf(tp, tm)
    PROVE  /\ tp \in Seq(PanelMsg) /\ tm \in Seq(MasterMsg) /\ OneOut(tp, tm)
           /\ \A i \in 1 .. Len(tp) : IsRequest(tp[i]) => RequestFits(tp[i])
           /\ \A i \in 1 .. Len(tm) : IsAnswer(tm[i]) => AnswerFits(tm[i])
  <1>1. toPanel \in Seq(PanelMsg) /\ toMaster \in Seq(MasterMsg)
    BY DEF TransferInv, TypeInv, TypeOK
  <1>2. OneOut(toPanel, toMaster)
    BY DEF TransferInv
  <1>3. tp \in Seq(PanelMsg) /\ tm \in Seq(MasterMsg)
    BY <1>1, HeadTailProperties DEF LeftOf
  <1>4. OneOut(tp, toMaster)
    BY <1>1, <1>2, OutHandled DEF LeftOf
  <1>5. OneOut(tp, tm)
    BY <1>1, <1>3, <1>4, OutTaken DEF LeftOf
  <1>6. ASSUME NEW i \in 1 .. Len(tp) PROVE \E j \in 1 .. Len(toPanel) : tp[i] = toPanel[j]
    <2>1. PICK n \in Nat : n = Len(toPanel)
      BY <1>1
    <2>2. CASE tp = toPanel
      BY <2>2
    <2>3. CASE toPanel # <<>> /\ tp = Tail(toPanel)
      <3>1. Len(tp) = n - 1 /\ tp[i] = toPanel[i + 1]
        BY <1>1, <2>1, <2>3, HeadTailProperties
      <3>2. i + 1 \in 1 .. n
        BY <3>1
      <3>3. QED
        BY <2>1, <3>1, <3>2
    <2>4. QED
      BY <2>2, <2>3 DEF LeftOf
  <1>7. ASSUME NEW i \in 1 .. Len(tm) PROVE \E j \in 1 .. Len(toMaster) : tm[i] = toMaster[j]
    <2>1. PICK n \in Nat : n = Len(toMaster)
      BY <1>1
    <2>2. CASE tm = toMaster
      BY <2>2
    <2>3. CASE toMaster # <<>> /\ tm = Tail(toMaster)
      <3>1. Len(tm) = n - 1 /\ tm[i] = toMaster[i + 1]
        BY <1>1, <2>1, <2>3, HeadTailProperties
      <3>2. i + 1 \in 1 .. n
        BY <3>1
      <3>3. QED
        BY <2>1, <3>1, <3>2
    <2>4. QED
      BY <2>2, <2>3 DEF LeftOf
  <1>8. \A i \in 1 .. Len(tp) : IsRequest(tp[i]) => RequestFits(tp[i])
    BY <1>6 DEF TransferInv, RequestsFit
  <1>9. \A i \in 1 .. Len(tm) : IsAnswer(tm[i]) => AnswerFits(tm[i])
    BY <1>7 DEF TransferInv, AnswersFit
  <1>10. QED
    BY <1>3, <1>5, <1>8, <1>9

\* What is left goes on to fit when only panel q is concerned, and is not meant.
LEMMA LeftFramed ==
    ASSUME TransferInv, NEW q, NEW tp, NEW tm, LeftOf(tp, tm),
           Clear(q, tp, tm), \A p \in Panels : p # q => Frame(p)
    PROVE  /\ \A i \in 1 .. Len(tp) : IsRequest(tp[i]) => RequestFits(tp[i])'
           /\ \A i \in 1 .. Len(tm) : IsAnswer(tm[i]) => AnswerFits(tm[i])'
  <1>1. /\ tp \in Seq(PanelMsg) /\ tm \in Seq(MasterMsg)
        /\ \A i \in 1 .. Len(tp) : IsRequest(tp[i]) => RequestFits(tp[i])
        /\ \A i \in 1 .. Len(tm) : IsAnswer(tm[i]) => AnswerFits(tm[i])
    BY LeftFits
  <1>2. session \in [Panels -> Session] /\ \A p \in Panels : PanelFits(p)
    BY DEF TransferInv, TypeInv, TypeOK
  <1>3. ASSUME NEW i \in 1 .. Len(tp), IsRequest(tp[i]) PROVE RequestFits(tp[i])'
    <2>1. tp[i] \in PanelMsg
      BY <1>1
    <2>2. PICK m \in PanelMsg : m = tp[i]
      BY <2>1
    <2>3. m.panel \in Panels
      BY DEF PanelMsg
    <2>4. RequestFits(m) /\ Frame(m.panel)
      BY <1>1, <1>3, <2>2, <2>3 DEF Clear
    <2>5. RequestFits(m)'
      BY <2>4, RequestFramed
    <2>6. QED
      BY <2>2, <2>5
  <1>4. ASSUME NEW i \in 1 .. Len(tm), IsAnswer(tm[i]) PROVE AnswerFits(tm[i])'
    <2>1. tm[i] \in MasterMsg
      BY <1>1
    <2>2. PICK m \in MasterMsg : m = tm[i]
      BY <2>1
    <2>3. m.panel \in Panels
      BY DEF MasterMsg
    <2>4. AnswerFits(m) /\ Frame(m.panel)
      BY <1>1, <1>4, <2>2, <2>3 DEF Clear
    <2>5. AnswerFits(m)'
      BY <1>2, <2>3, <2>4, AnswerFramed
    <2>6. QED
      BY <2>2, <2>5
  <1>5. QED
    BY <1>3, <1>4

\* A step about panel q that sends it one message, or none.
LEMMA AskStep ==
    ASSUME TransferInv, TypeInv', NEW q \in Panels, NEW tp, NEW tm, LeftOf(tp, tm),
           Clear(q, tp, tm), \A p \in Panels : p # q => Frame(p), PanelFits(q)',
           toMaster' = tm,
           \/ toPanel' = tp
           \/ \E m \in PanelMsg : /\ toPanel' = Append(tp, m)
                                  /\ IsRequest(m) => m.panel = q /\ RequestFits(m)'
    PROVE  TransferInv'
  <1>1. tp \in Seq(PanelMsg) /\ tm \in Seq(MasterMsg) /\ OneOut(tp, tm)
    BY LeftFits
  <1>2. /\ \A i \in 1 .. Len(tp) : IsRequest(tp[i]) => RequestFits(tp[i])'
        /\ \A i \in 1 .. Len(tm) : IsAnswer(tm[i]) => AnswerFits(tm[i])'
    BY LeftFramed
  <1>3. \A p \in Panels : PanelFits(p)'
    BY PanelFramed DEF TransferInv
  <1>4. /\ OneOut(toPanel', toMaster')
        /\ RequestsFit'
    <2>1. CASE toPanel' = tp
      BY <1>1, <1>2, <2>1 DEF RequestsFit
    <2>2. ASSUME NEW m \in PanelMsg, toPanel' = Append(tp, m),
                 IsRequest(m) => m.panel = q /\ RequestFits(m)'
          PROVE  /\ OneOut(toPanel', toMaster')
                 /\ RequestsFit'
      <3>1. IsRequest(m) => Clear(m.panel, tp, tm)
        BY <2>2
      <3>2. OneOut(Append(tp, m), tm)
        BY <1>1, <3>1, OutAsked
      <3>3. PICK n \in Nat : n = Len(tp)
        BY <1>1
      <3>4. /\ Len(toPanel') = n + 1 /\ toPanel'[n + 1] = m
            /\ \A i \in 1 .. n : toPanel'[i] = tp[i]
        BY <1>1, <2>2, <3>3, AppendProperties
      <3>5. \A i \in 1 .. n + 1 : i \in 1 .. n \/ i = n + 1
        OBVIOUS
      <3>6. QED
        BY <1>2, <2>2, <3>2, <3>3, <3>4, <3>5 DEF RequestsFit
    <2>3. QED
      BY <2>1, <2>2
  <1>5. QED
    BY <1>2, <1>3, <1>4 DEF TransferInv, AnswersFit

\* A step about panel q that sends the master one answer, or none.
LEMMA AnswerStep ==
    ASSUME TransferInv, TypeInv', NEW q \in Panels, NEW tp, NEW tm, LeftOf(tp, tm),
           Clear(q, tp, tm), \A p \in Panels : p # q => Frame(p), PanelFits(q)',
           toPanel' = tp, NEW m \in MasterMsg, m.panel = q, AnswerFits(m)',
           toMaster' = tm \/ toMaster' = Append(tm, m)
    PROVE  TransferInv'
  <1>1. tp \in Seq(PanelMsg) /\ tm \in Seq(MasterMsg) /\ OneOut(tp, tm)
    BY LeftFits
  <1>2. /\ \A i \in 1 .. Len(tp) : IsRequest(tp[i]) => RequestFits(tp[i])'
        /\ \A i \in 1 .. Len(tm) : IsAnswer(tm[i]) => AnswerFits(tm[i])'
    BY LeftFramed
  <1>3. \A p \in Panels : PanelFits(p)'
    BY PanelFramed DEF TransferInv
  <1>4. /\ OneOut(toPanel', toMaster')
        /\ AnswersFit'
    <2>1. CASE toMaster' = tm
      BY <1>1, <1>2, <2>1 DEF AnswersFit
    <2>2. CASE toMaster' = Append(tm, m)
      <3>1. OneOut(tp, Append(tm, m))
        BY <1>1, OutAnswered
      <3>2. PICK n \in Nat : n = Len(tm)
        BY <1>1
      <3>3. /\ Len(toMaster') = n + 1 /\ toMaster'[n + 1] = m
            /\ \A i \in 1 .. n : toMaster'[i] = tm[i]
        BY <1>1, <2>2, <3>2, AppendProperties
      <3>4. \A i \in 1 .. n + 1 : i \in 1 .. n \/ i = n + 1
        OBVIOUS
      <3>5. QED
        BY <1>2, <2>2, <3>1, <3>2, <3>3, <3>4 DEF AnswersFit
    <2>3. QED
      BY <2>1, <2>2
  <1>5. QED
    BY <1>2, <1>3, <1>4 DEF TransferInv, RequestsFit

\* A step no transfer notices: a listing's answer may be sent.
LEMMA QuietStep ==
    ASSUME TransferInv, TypeInv', NEW tp, NEW tm, LeftOf(tp, tm),
           \A p \in Panels : Frame(p), toPanel' = tp,
           \/ toMaster' = tm
           \/ \E m \in MasterMsg : ~IsAnswer(m) /\ toMaster' = Append(tm, m)
    PROVE  TransferInv'
  <1>1. /\ tp \in Seq(PanelMsg) /\ tm \in Seq(MasterMsg) /\ OneOut(tp, tm)
        /\ \A i \in 1 .. Len(tp) : IsRequest(tp[i]) => RequestFits(tp[i])
        /\ \A i \in 1 .. Len(tm) : IsAnswer(tm[i]) => AnswerFits(tm[i])
    BY LeftFits
  <1>2. session \in [Panels -> Session] /\ \A p \in Panels : PanelFits(p)
    BY DEF TransferInv, TypeInv, TypeOK
  <1>3. \A m \in PanelMsg : RequestFits(m) => RequestFits(m)'
    <2>1. \A m \in PanelMsg : m.panel \in Panels
      BY DEF PanelMsg
    <2>2. QED
      BY <2>1, RequestFramed
  <1>4. \A m \in MasterMsg : AnswerFits(m) => AnswerFits(m)'
    <2>1. \A m \in MasterMsg : m.panel \in Panels
      BY DEF MasterMsg
    <2>2. QED
      BY <1>2, <2>1, AnswerFramed
  <1>5. \A i \in 1 .. Len(tp) : tp[i] \in PanelMsg
    BY <1>1
  <1>6. \A i \in 1 .. Len(tm) : tm[i] \in MasterMsg
    BY <1>1
  <1>7. RequestsFit'
    BY <1>1, <1>3, <1>5 DEF RequestsFit
  <1>8. /\ OneOut(toPanel', toMaster')
        /\ AnswersFit'
    <2>1. CASE toMaster' = tm
      BY <1>1, <1>4, <1>6, <2>1 DEF AnswersFit
    <2>2. ASSUME NEW m \in MasterMsg, ~IsAnswer(m), toMaster' = Append(tm, m)
          PROVE  /\ OneOut(toPanel', toMaster')
                 /\ AnswersFit'
      <3>1. OneOut(tp, Append(tm, m))
        BY <1>1, <2>2, OutAnswered
      <3>2. PICK n \in Nat : n = Len(tm)
        BY <1>1
      <3>3. /\ Len(toMaster') = n + 1 /\ toMaster'[n + 1] = m
            /\ \A i \in 1 .. n : toMaster'[i] = tm[i]
        BY <1>1, <2>2, <3>2, AppendProperties
      <3>4. \A i \in 1 .. n + 1 : i \in 1 .. n \/ i = n + 1
        OBVIOUS
      <3>5. QED
        BY <1>1, <1>4, <1>6, <2>2, <3>1, <3>2, <3>3, <3>4 DEF AnswersFit
    <2>3. QED
      BY <2>1, <2>2
  <1>9. \A p \in Panels : PanelFits(p)'
    BY <1>2, PanelFramed
  <1>10. QED
    BY <1>7, <1>8, <1>9 DEF TransferInv

-----------------------------------------------------------------------------
(***************************************************************************)
(* The steps.                                                              *)
(***************************************************************************)

\* The message that is handled fits the session of its panel.
LEMMA Handled ==
    ASSUME TransferInv, NEW fn, Receive(fn)
    PROVE  \E m \in PanelMsg :
              /\ m = Msg /\ m.fn = fn /\ m.panel \in Panels
              /\ IsRequest(m) => RequestFits(m)
              /\ PanelFits(m.panel) /\ session[m.panel] \in Session
              /\ toPanel # <<>> /\ toPanel' = Tail(toPanel)
  <1>1. TypeOK
    BY DEF TransferInv, TypeInv
  <1>2. PICK m \in PanelMsg : m = Msg
    BY <1>1, Received
  <1>3. m.fn = fn /\ m.panel \in Panels /\ toPanel # <<>> /\ toPanel' = Tail(toPanel)
    BY <1>1, <1>2, Received DEF Receive
  <1>4. toPanel \in Seq(PanelMsg) /\ session \in [Panels -> Session]
    BY <1>1 DEF TypeOK
  <1>5. 1 \in 1 .. Len(toPanel) /\ m = toPanel[1]
    BY <1>2, <1>3, <1>4 DEF Msg
  <1>6. IsRequest(m) => RequestFits(m)
    BY <1>5 DEF TransferInv, RequestsFit
  <1>7. PanelFits(m.panel)
    BY <1>3 DEF TransferInv
  <1>8. QED
    BY <1>2, <1>3, <1>4, <1>6, <1>7

\* So does the answer that is taken.
LEMMA Asked ==
    ASSUME TransferInv, toMaster # <<>>
    PROVE  \E a \in MasterMsg :
              /\ a = Answer /\ a.panel \in Panels
              /\ IsAnswer(a) => AnswerFits(a)
              /\ PanelFits(a.panel) /\ session[a.panel] \in Session
  <1>1. TypeOK
    BY DEF TransferInv, TypeInv
  <1>2. PICK a \in MasterMsg : a = Answer
    BY <1>1, Answered
  <1>3. a.panel \in Panels
    BY DEF MasterMsg
  <1>4. toMaster \in Seq(MasterMsg) /\ session \in [Panels -> Session]
    BY <1>1 DEF TypeOK
  <1>5. 1 \in 1 .. Len(toMaster) /\ a = toMaster[1]
    BY <1>2, <1>4 DEF Answer
  <1>6. IsAnswer(a) => AnswerFits(a)
    BY <1>5 DEF TransferInv, AnswersFit
  <1>7. PanelFits(a.panel)
    BY <1>3 DEF TransferInv
  <1>8. QED
    BY <1>2, <1>3, <1>4, <1>6, <1>7

\* Nothing is under way for a panel the master has no question to.
LEMMA IdleClear ==
    ASSUME TransferInv, NEW p, session[p].phase \in {"idle", "listing"},
           NEW tp, NEW tm, LeftOf(tp, tm)
    PROVE  Clear(p, tp, tm)
  <1>1. /\ \A i \in 1 .. Len(tp) : IsRequest(tp[i]) => RequestFits(tp[i])
        /\ \A i \in 1 .. Len(tm) : IsAnswer(tm[i]) => AnswerFits(tm[i])
    BY LeftFits
  <1>2. \A m : RequestFits(m) => m.panel # p
    BY DEF RequestFits, Receiving, Sending
  <1>3. \A m : AnswerFits(m) => m.panel # p
    BY DEF AnswerFits, Receiving, Sending
  <1>4. QED
    BY <1>1, <1>2, <1>3 DEF Clear

\* One panel writes, one panel reads.
LEMMA OthersDoNot ==
    ASSUME TransferInv, NEW p \in Panels, NEW q, p # q
    PROVE  /\ OneUploader /\ q \in Uploaders =>
                 session[p].phase \notin {"asked", "writing", "closing"}
           /\ OneDownloader /\ q \in Downloaders =>
                 session[p].phase \notin {"token", "reading"}
  BY DEF TransferInv, PanelFits, OneUploader, OneDownloader

\* A panel handles message m and answers a.
LEMMA HandlerStep ==
    ASSUME TransferInv, TypeInv', NEW m \in PanelMsg, m = Msg, m.panel \in Panels,
           IsRequest(m), toPanel # <<>>, toPanel' = Tail(toPanel),
           \A p \in Panels : p # m.panel => Frame(p), PanelFits(m.panel)',
           NEW a \in MasterMsg, a.panel = m.panel, AnswerFits(a)', Send(a)
    PROVE  TransferInv'
  <1>1. toPanel \in Seq(PanelMsg) /\ toMaster \in Seq(MasterMsg)
    BY DEF TransferInv, TypeInv, TypeOK
  <1>2. Tail(toPanel) \in Seq(PanelMsg)
    BY <1>1, HeadTailProperties
  <1>3. PICK tp \in Seq(PanelMsg), tm \in Seq(MasterMsg) : tp = Tail(toPanel)
        /\ tm = toMaster
    BY <1>1, <1>2
  <1>4. LeftOf(tp, tm)
    BY <1>3 DEF LeftOf
  <1>5. Clear(m.panel, tp, tm)
    BY <1>1, <1>3, OutHandled DEF TransferInv, Msg
  <1>6. toPanel' = tp /\ (toMaster' = tm \/ toMaster' = Append(tm, a))
    BY <1>3 DEF Send
  <1>7. QED
    BY <1>4, <1>5, <1>6, AnswerStep

\* The master takes answer a, goes on to s and may send the panel a message.
LEMMA MasterStep ==
    ASSUME TransferInv, TypeInv', NEW a \in MasterMsg, a = Answer, a.panel \in Panels,
           IsAnswer(a) \/ session[a.panel].phase \in {"idle", "listing"},
           toMaster # <<>>, toMaster' = Tail(toMaster),
           NEW s \in Session, session' = [session EXCEPT ![a.panel] = s],
           UNCHANGED panelVars, PanelFits(a.panel)',
           \/ toPanel' = toPanel
           \/ \E m \in PanelMsg : /\ toPanel' = Append(toPanel, m)
                                  /\ IsRequest(m) => m.panel = a.panel /\ RequestFits(m)'
    PROVE  TransferInv'
  <1>1. /\ toPanel \in Seq(PanelMsg) /\ toMaster \in Seq(MasterMsg)
        /\ session \in [Panels -> Session]
    BY DEF TransferInv, TypeInv, TypeOK
  <1>2. Tail(toMaster) \in Seq(MasterMsg)
    BY <1>1, HeadTailProperties
  <1>3. PICK tp \in Seq(PanelMsg), tm \in Seq(MasterMsg) : tp = toPanel
        /\ tm = Tail(toMaster)
    BY <1>1, <1>2
  <1>4. LeftOf(tp, tm)
    BY <1>3 DEF LeftOf
  <1>5. Clear(a.panel, tp, tm)
    <2>1. IsAnswer(a) => Clear(a.panel, tp, tm)
      BY <1>1, <1>3, OutTaken DEF TransferInv, Answer
    <2>2. QED
      BY <1>4, <2>1, IdleClear
  <1>6. \A p \in Panels : p # a.panel => Frame(p)
    BY <1>1, Still DEF panelVars, diskVars, fileVars
  <1>7. /\ toMaster' = tm
        /\ \/ toPanel' = tp
           \/ \E m \in PanelMsg : /\ toPanel' = Append(tp, m)
                                  /\ IsRequest(m) => m.panel = a.panel /\ RequestFits(m)'
    BY <1>3
  <1>8. QED
    BY <1>4, <1>5, <1>6, <1>7, AskStep

\* The master begins something with an idle panel.
LEMMA BeginStep ==
    ASSUME TransferInv, TypeInv', NEW p \in Panels, NEW m \in PanelMsg, NEW s \in Session,
           Begins(p, m, s), PanelFits(p)',
           IsRequest(m) => m.panel = p /\ RequestFits(m)'
    PROVE  TransferInv'
  <1>1. /\ toPanel \in Seq(PanelMsg) /\ toMaster \in Seq(MasterMsg)
        /\ session \in [Panels -> Session]
    BY DEF TransferInv, TypeInv, TypeOK
  <1>2. PICK tp \in Seq(PanelMsg), tm \in Seq(MasterMsg) : tp = toPanel /\ tm = toMaster
    BY <1>1
  <1>3. LeftOf(tp, tm)
    BY <1>2 DEF LeftOf
  <1>4. Clear(p, tp, tm)
    BY <1>3, IdleClear DEF Begins
  <1>5. \A q \in Panels : q # p => Frame(q)
    BY <1>1, Still DEF Begins, panelVars, diskVars, fileVars
  <1>6. /\ toMaster' = tm
        /\ \E k \in PanelMsg : /\ toPanel' = Append(tp, k)
                               /\ IsRequest(k) => k.panel = p /\ RequestFits(k)'
    BY <1>2 DEF Begins
  <1>7. QED
    BY <1>3, <1>4, <1>5, <1>6, AskStep

\* A piece of b goes to y and the others stay: nothing is lost.
LEMMA PieceOff ==
    ASSUME NEW y \in Seq(Byte), NEW b \in Seq(Byte)
    PROVE  (y \o FirstJunk(b)) \o OtherJunk(b) = y \o b
  <1>1. \A c, d \in Seq(Byte) : (y \o c) \o d = y \o (c \o d)
    BY ConcatAssociative
  <1>2. /\ FirstJunk(b) \in Seq(Byte) /\ OtherJunk(b) \in Seq(Byte)
        /\ FirstJunk(b) \o OtherJunk(b) = b
    BY Pieces
  <1>3. (y \o FirstJunk(b)) \o OtherJunk(b) = y \o (FirstJunk(b) \o OtherJunk(b))
    BY <1>1, <1>2
  <1>4. QED
    BY <1>2, <1>3, Zenon

\* What has been sent and what is left is the file the token was given for.
LEMMA GetFits ==
    ASSUME NEW m, m.fn \in {"GetFile", "Ack"}, RequestFits(m),
           session[m.panel] \in Session
    PROVE  /\ Sending(session[m.panel], granted[m.panel])
           /\ session[m.panel].all \o mBufferSend = granted[m.panel]
  <1>1. Sending(session[m.panel], granted[m.panel])
    BY DEF RequestFits
  <1>2. mBufferSend \in Seq(Byte)
    BY <1>1 DEF Sending
  <1>3. <<>> \o mBufferSend = mBufferSend
    BY <1>2, ConcatEmptySeq
  <1>4. QED
    BY <1>1, <1>3 DEF RequestFits

\* Every step keeps the invariant.
LEMMA TransferStep ==
    ASSUME OneUploader, OneDownloader, TransferInv, [Next]_vars
    PROVE  TransferInv'
  <1> USE DEF diskVars, fileVars, listVars, masterVars
  <1> TypeInv'
    BY TypeStep DEF TransferInv
  <1>1. CASE TransferSingleFile
    <2>1. PICK m \in PanelMsg :
             /\ m = Msg /\ m.fn = "SingleFile" /\ m.panel \in Panels
             /\ IsRequest(m) => RequestFits(m)
             /\ PanelFits(m.panel) /\ session[m.panel] \in Session
             /\ toPanel # <<>> /\ toPanel' = Tail(toPanel)
      BY <1>1, Handled DEF TransferSingleFile
    <2>2. IsRequest(m) /\ RequestFits(m)
      BY <2>1 DEF IsRequest
    <2>3. PICK s \in Session : s = session[m.panel]
      BY <2>1
    <2> DEFINE a == [panel |-> m.panel, fn |-> "SingleFileAck"]
    <2>4. a \in MasterMsg /\ a.panel = m.panel /\ a.fn = "SingleFileAck" /\ Send(a)
      BY <1>1, <2>1 DEF TransferSingleFile, Reply, MasterMsg
    <2> HIDE DEF a
    <2>5. session' = session
      BY <1>1 DEF TransferSingleFile
    <2>6. \A p \in Panels : Frame(p)
      BY <1>1, Still DEF TransferSingleFile
    <2>7. AnswerFits(a)'
      BY <2>1, <2>2, <2>4, <2>5 DEF RequestFits, AnswerFits
    <2>8. PanelFits(m.panel)'
      BY <2>1, <2>6, PanelFramed
    <2>9. QED
      BY <2>1, <2>2, <2>4, <2>6, <2>7, <2>8, HandlerStep
  <1>2. CASE TransferSingleFileInfo
    <2>1. PICK m \in PanelMsg :
             /\ m = Msg /\ m.fn = "SingleFileInfo" /\ m.panel \in Panels
             /\ IsRequest(m) => RequestFits(m)
             /\ PanelFits(m.panel) /\ session[m.panel] \in Session
             /\ toPanel # <<>> /\ toPanel' = Tail(toPanel)
      BY <1>2, Handled DEF TransferSingleFileInfo
    <2>2. IsRequest(m) /\ RequestFits(m)
      BY <2>1 DEF IsRequest
    <2>3. PICK s \in Session : s = session[m.panel]
      BY <2>1
    <2> DEFINE a == [panel |-> m.panel, fn |-> "SingleFileInfoAck"]
    <2>4. a \in MasterMsg /\ a.panel = m.panel /\ a.fn = "SingleFileInfoAck" /\ Send(a)
      BY <1>2, <2>1 DEF TransferSingleFileInfo, Reply, MasterMsg
    <2> HIDE DEF a
    <2>5. /\ s.phase = "writing" /\ m.name = s.name /\ s.left = s.all
             /\ s.left \in Seq(Byte)
          /\ session' = session /\ granted' = granted
          /\ mCurrentFileNameData' = m.name /\ mBufferData' = <<>>
      BY <1>2, <2>1, <2>2, <2>3 DEF TransferSingleFileInfo, RequestFits, Session
    <2>6. \A p \in Panels : p # m.panel => Frame(p)
      <3>1. m.panel \in Uploaders
        BY <2>1, <2>3, <2>5 DEF PanelFits
      <3>2. \A p \in Panels : p # m.panel =>
               session[p].phase \notin {"asked", "writing", "closing"}
        BY <3>1, OthersDoNot
      <3>3. UNCHANGED <<session, granted, mBufferSend>>
        BY <1>2 DEF TransferSingleFileInfo
      <3>4. QED
        BY <3>2, <3>3 DEF Frame
    <2>7. <<>> \o s.left = s.all /\ <<>> \in Seq(Byte)
      BY <2>5, ConcatEmptySeq
    <2>8. AnswerFits(a)'
      BY <2>3, <2>4, <2>5, <2>7 DEF AnswerFits, Receiving
    <2>9. PanelFits(m.panel)'
      BY <2>1, <2>5 DEF PanelFits
    <2>10. QED
      BY <2>1, <2>2, <2>4, <2>6, <2>8, <2>9, HandlerStep
  <1>3. CASE TransferFileData
    <2>1. PICK m \in PanelMsg :
             /\ m = Msg /\ m.fn = "FileData" /\ m.panel \in Panels
             /\ IsRequest(m) => RequestFits(m)
             /\ PanelFits(m.panel) /\ session[m.panel] \in Session
             /\ toPanel # <<>> /\ toPanel' = Tail(toPanel)
      BY <1>3, Handled DEF TransferFileData
    <2>2. IsRequest(m) /\ RequestFits(m)
      BY <2>1 DEF IsRequest
    <2>3. PICK s \in Session : s = session[m.panel]
      BY <2>1
    <2> DEFINE a == [panel |-> m.panel, fn |-> "Ack"]
    <2>4. a \in MasterMsg /\ a.panel = m.panel /\ a.fn = "Ack" /\ Send(a)
      BY <1>3, <2>1 DEF TransferFileData, Reply, MasterMsg
    <2> HIDE DEF a
    <2>5. /\ s.phase = "writing" /\ mCurrentFileNameData = s.name
             /\ mBufferData \in Seq(Byte)
          /\ (mBufferData \o m.bytes) \o s.left = s.all /\ m.bytes \in Seq(Byte)
          /\ session' = session /\ granted' = granted
          /\ UNCHANGED mCurrentFileNameData
      BY <1>3, <2>1, <2>2, <2>3 DEF TransferFileData, RequestFits, Receiving, PanelMsg
    <2>6. \A p \in Panels : p # m.panel => Frame(p)
      <3>1. m.panel \in Uploaders
        BY <2>1, <2>3, <2>5 DEF PanelFits
      <3>2. \A p \in Panels : p # m.panel =>
               session[p].phase \notin {"asked", "writing", "closing"}
        BY <3>1, OthersDoNot
      <3>3. UNCHANGED <<session, granted, mBufferSend>>
        BY <1>3 DEF TransferFileData
      <3>4. QED
        BY <3>2, <3>3 DEF Frame
    <2>7. mBufferData' = mBufferData \o m.bytes
      BY <1>3, <2>1, <2>5, FileConstants DEF TransferFileData
    <2>8. mBufferData' \in Seq(Byte) /\ mBufferData' \o s.left = s.all
      BY <2>5, <2>7, ConcatProperties
    <2>9. AnswerFits(a)'
      BY <2>3, <2>4, <2>5, <2>8 DEF AnswerFits, Receiving
    <2>10. PanelFits(m.panel)'
      BY <2>1, <2>5 DEF PanelFits
    <2>11. QED
      BY <2>1, <2>2, <2>4, <2>6, <2>9, <2>10, HandlerStep
  <1>4. CASE TransferFileDataComplete
    <2>1. PICK m \in PanelMsg :
             /\ m = Msg /\ m.fn = "FileDataComplete" /\ m.panel \in Panels
             /\ IsRequest(m) => RequestFits(m)
             /\ PanelFits(m.panel) /\ session[m.panel] \in Session
             /\ toPanel # <<>> /\ toPanel' = Tail(toPanel)
      BY <1>4, Handled DEF TransferFileDataComplete
    <2>2. IsRequest(m) /\ RequestFits(m)
      BY <2>1 DEF IsRequest
    <2>3. PICK s \in Session : s = session[m.panel]
      BY <2>1
    <2> DEFINE a == [panel |-> m.panel, fn |-> "FileDataCompleteAck"]
    <2>4. a \in MasterMsg /\ a.panel = m.panel /\ a.fn = "FileDataCompleteAck" /\ Send(a)
      BY <1>4, <2>1 DEF TransferFileDataComplete, Reply, MasterMsg
    <2> HIDE DEF a
    <2>5. /\ s.phase = "closing" /\ mCurrentFileNameData = s.name /\ mBufferData = s.all
          /\ s.all \in Seq(Byte) /\ s.name \in Names
          /\ session' = session /\ granted' = granted /\ dirs' = dirs
      BY <1>4, <2>1, <2>2, <2>3 DEF TransferFileDataComplete, RequestFits, Session,
         PanelFits
    <2>6. \A p \in Panels : p # m.panel => Frame(p)
      <3>1. m.panel \in Uploaders
        BY <2>1, <2>3, <2>5 DEF PanelFits
      <3>2. \A p \in Panels : p # m.panel =>
               session[p].phase \notin {"asked", "writing", "closing"}
        BY <3>1, OthersDoNot
      <3>3. UNCHANGED <<session, granted, mBufferSend>>
        BY <1>4 DEF TransferFileDataComplete
      <3>4. QED
        BY <3>2, <3>3 DEF Frame
    <2>7. PICK n \in Names, b \in Seq(Byte) : n = s.name /\ b = s.all
      BY <2>5
    <2>8. n # Null /\ b # Null /\ disk \in [Names -> Seq(Byte) \cup {Null}]
      BY FileConstants DEF TransferInv, TypeInv, TypeOK
    <2>9. disk' = IF Writes(n, b) THEN [disk EXCEPT ![n] = Written(n, b)] ELSE disk
      BY <1>4, <2>5, <2>7, <2>8 DEF TransferFileDataComplete
    <2>10. Writes(n, b)' = Writes(n, b)
      BY <2>5 DEF Writes
    <2>11. Stored(n, b)'
      BY <2>8, <2>9, <2>10 DEF Stored
    <2>12. AnswerFits(a)'
      BY <2>3, <2>4, <2>5, <2>7, <2>11 DEF AnswerFits
    <2>13. PanelFits(m.panel)'
      BY <2>1, <2>5 DEF PanelFits
    <2>14. QED
      BY <2>1, <2>2, <2>4, <2>6, <2>12, <2>13, HandlerStep
  <1>5. CASE TransferGetFileAccessToken
    <2>1. PICK m \in PanelMsg :
             /\ m = Msg /\ m.fn = "GetFileAccessToken" /\ m.panel \in Panels
             /\ IsRequest(m) => RequestFits(m)
             /\ PanelFits(m.panel) /\ session[m.panel] \in Session
             /\ toPanel # <<>> /\ toPanel' = Tail(toPanel)
      BY <1>5, Handled DEF TransferGetFileAccessToken
    <2>2. IsRequest(m) /\ RequestFits(m)
      BY <2>1 DEF IsRequest
    <2>3. PICK s \in Session : s = session[m.panel]
      BY <2>1
    <2>4. /\ s.phase = "token" /\ s.all = <<>> /\ session' = session /\ m.name \in Names
          /\ UNCHANGED <<dirs, mCurrentFileNameData, mBufferData>>
          /\ granted' = [granted EXCEPT ![m.panel] = disk'[m.name]]
          /\ disk' = WithVersion(m.name)
      BY <1>5, <2>1, <2>2, <2>3 DEF TransferGetFileAccessToken, RequestFits, PanelMsg
    <2>5. /\ disk \in [Names -> Seq(Byte) \cup {Null}]
          /\ granted \in [Panels -> Seq(Byte) \cup {Null}]
          /\ disk' \in [Names -> Seq(Byte) \cup {Null}]
      BY DEF TransferInv, TypeInv, TypeOK
    <2>6. \A p \in Panels : p # m.panel => Frame(p)
      <3>1. m.panel \in Downloaders
        BY <2>1, <2>3, <2>4 DEF PanelFits
      <3>2. \A p \in Panels : p # m.panel => session[p].phase \notin {"token", "reading"}
        BY <3>1, OthersDoNot
      <3>3. \A n \in Names : disk[n] # Null => disk'[n] = disk[n]
        BY <2>4, <2>5 DEF WithVersion
      <3>4. ASSUME NEW n \in Names, NEW b \in Seq(Byte), Stored(n, b) PROVE Stored(n, b)'
        <4>1. Writes(n, b)' = Writes(n, b)
          BY <2>4 DEF Writes
        <4>2. Written(n, b) # Null
          BY WrittenType, FileConstants
        <4>3. QED
          BY <3>3, <3>4, <4>1, <4>2 DEF Stored
      <3>5. \A p \in Panels : p # m.panel => granted'[p] = granted[p]
        BY <2>4, <2>5
      <3>6. QED
        BY <2>4, <3>2, <3>4, <3>5 DEF Frame
    <2>7. PanelFits(m.panel)'
      BY <2>1, <2>3, <2>4 DEF PanelFits
    <2>8. granted'[m.panel] = disk'[m.name]
      BY <2>1, <2>4, <2>5
    <2>9. CASE disk'[m.name] = Null /\ Reply("Nak")
      <3> DEFINE a == [panel |-> m.panel, fn |-> "Nak"]
      <3>1. a \in MasterMsg /\ a.panel = m.panel /\ a.fn = "Nak" /\ Send(a)
        BY <2>1, <2>9 DEF Reply, MasterMsg
      <3> HIDE DEF a
      <3>2. AnswerFits(a)'
        BY <2>3, <2>4, <3>1 DEF AnswerFits
      <3>3. QED
        BY <2>1, <2>2, <2>6, <2>7, <3>1, <3>2, HandlerStep
    <2>10. CASE /\ disk'[m.name] # Null /\ mBufferSend' = disk'[m.name]
                /\ Reply("GetFileAccessTokenAck")
      <3> DEFINE a == [panel |-> m.panel, fn |-> "GetFileAccessTokenAck"]
      <3>1. /\ a \in MasterMsg /\ a.panel = m.panel /\ a.fn = "GetFileAccessTokenAck"
            /\ Send(a)
        BY <2>1, <2>10 DEF Reply, MasterMsg
      <3> HIDE DEF a
      <3>2. granted'[m.panel] \in Seq(Byte) /\ mBufferSend' = granted'[m.panel]
        BY <2>4, <2>5, <2>8, <2>10
      <3>3. AnswerFits(a)'
        BY <2>3, <2>4, <3>1, <3>2 DEF AnswerFits
      <3>4. QED
        BY <2>1, <2>2, <2>6, <2>7, <3>1, <3>3, HandlerStep
    <2>11. QED
      BY <1>5, <2>1, <2>9, <2>10 DEF TransferGetFileAccessToken
  <1>6. CASE TransferGetFile
    <2>1. PICK m \in PanelMsg :
             /\ m = Msg /\ m.fn = "GetFile" /\ m.panel \in Panels
             /\ IsRequest(m) => RequestFits(m)
             /\ PanelFits(m.panel) /\ session[m.panel] \in Session
             /\ toPanel # <<>> /\ toPanel' = Tail(toPanel)
      BY <1>6, Handled DEF TransferGetFile
    <2>2. IsRequest(m) /\ RequestFits(m)
      BY <2>1 DEF IsRequest
    <2>3. PICK s \in Session : s = session[m.panel]
      BY <2>1
    <2>4. /\ Sending(session[m.panel], granted[m.panel])
          /\ session[m.panel].all \o mBufferSend = granted[m.panel]
      BY <2>1, <2>2, GetFits
    <2>5. PICK g \in Seq(Byte), b \in Seq(Byte) :
             /\ s.phase = "reading" /\ g = granted[m.panel] /\ b = mBufferSend
             /\ s.all \o b = g /\ s.all \in Seq(Byte)
      BY <2>3, <2>4 DEF Session, Sending
    <2>6. /\ UNCHANGED <<session, granted, disk, dirs>>
          /\ UNCHANGED <<mCurrentFileNameData, mBufferData>>
      BY <1>6 DEF TransferGetFile
    <2>7. \A p \in Panels : p # m.panel => Frame(p)
      <3>1. m.panel \in Downloaders
        BY <2>1, <2>3, <2>5 DEF PanelFits
      <3>2. \A p \in Panels : p # m.panel =>
               session[p].phase \notin {"token", "reading"}
        BY <3>1, OthersDoNot
      <3>3. UNCHANGED <<session, granted, disk, dirs, mCurrentFileNameData, mBufferData>>
        BY <1>6 DEF TransferGetFile
      <3>4. QED
        BY <3>2, <3>3 DEF Frame, Stored, Writes
    <2>8. PanelFits(m.panel)'
      BY <2>1, <2>6 DEF PanelFits
    <2>9. CASE HasJunk /\ SendJunk
      <3>1. PICK c \in Seq(Byte), d \in Seq(Byte) :
               c = FirstJunk(b) /\ d = OtherJunk(b) /\ c \o d = b
        BY Pieces
      <3>2. PICK y \in Seq(Byte) : y = s.all
        BY <2>5
      <3>3. (y \o FirstJunk(b)) \o OtherJunk(b) = y \o b
        BY PieceOff
      <3>4. (s.all \o c) \o d = g
        BY <2>5, <3>1, <3>2, <3>3, Zenon
      <3> DEFINE a == [panel |-> m.panel, fn |-> "FileData", bytes |-> c]
      <3>5. /\ a \in MasterMsg /\ a.panel = m.panel /\ a.fn = "FileData" /\ a.bytes = c
            /\ Send(a)
        BY <2>1, <2>5, <2>9, <3>1 DEF SendJunk, MasterMsg
      <3> HIDE DEF a
      <3>6. mBufferSend' = d
        BY <2>5, <2>9, <3>1 DEF SendJunk
      <3>7. AnswerFits(a)'
        BY <2>3, <2>5, <2>6, <3>4, <3>5, <3>6 DEF AnswerFits, Sending
      <3>8. QED
        BY <2>1, <2>2, <2>7, <2>8, <3>5, <3>7, HandlerStep
    <2>10. CASE Reply("Nak")
      <3> DEFINE a == [panel |-> m.panel, fn |-> "Nak"]
      <3>1. a \in MasterMsg /\ a.panel = m.panel /\ a.fn = "Nak" /\ Send(a)
        BY <2>1, <2>10 DEF Reply, MasterMsg
      <3> HIDE DEF a
      <3>2. AnswerFits(a)'
        BY <2>3, <2>5, <2>6, <3>1 DEF AnswerFits
      <3>3. QED
        BY <2>1, <2>2, <2>7, <2>8, <3>1, <3>2, HandlerStep
    <2>11. QED
      BY <1>6, <2>9, <2>10 DEF TransferGetFile
  <1>7. CASE Ack
    <2>1. PICK m \in PanelMsg :
             /\ m = Msg /\ m.fn = "Ack" /\ m.panel \in Panels
             /\ IsRequest(m) => RequestFits(m)
             /\ PanelFits(m.panel) /\ session[m.panel] \in Session
             /\ toPanel # <<>> /\ toPanel' = Tail(toPanel)
      BY <1>7, Handled DEF Ack
    <2>2. IsRequest(m) /\ RequestFits(m)
      BY <2>1 DEF IsRequest
    <2>3. PICK s \in Session : s = session[m.panel]
      BY <2>1
    <2>4. /\ Sending(session[m.panel], granted[m.panel])
          /\ session[m.panel].all \o mBufferSend = granted[m.panel]
      BY <2>1, <2>2, GetFits
    <2>5. PICK g \in Seq(Byte), b \in Seq(Byte) :
             /\ s.phase = "reading" /\ g = granted[m.panel] /\ b = mBufferSend
             /\ s.all \o b = g /\ s.all \in Seq(Byte)
      BY <2>3, <2>4 DEF Session, Sending
    <2>6. /\ UNCHANGED <<session, granted, disk, dirs>>
          /\ UNCHANGED <<mCurrentFileNameData, mBufferData>>
      BY <1>7 DEF Ack
    <2>7. \A p \in Panels : p # m.panel => Frame(p)
      <3>1. m.panel \in Downloaders
        BY <2>1, <2>3, <2>5 DEF PanelFits
      <3>2. \A p \in Panels : p # m.panel =>
               session[p].phase \notin {"token", "reading"}
        BY <3>1, OthersDoNot
      <3>3. UNCHANGED <<session, granted, disk, dirs, mCurrentFileNameData, mBufferData>>
        BY <1>7 DEF Ack
      <3>4. QED
        BY <3>2, <3>3 DEF Frame, Stored, Writes
    <2>8. PanelFits(m.panel)'
      BY <2>1, <2>6 DEF PanelFits
    <2>9. CASE HasJunk /\ SendJunk
      <3>1. PICK c \in Seq(Byte), d \in Seq(Byte) :
               c = FirstJunk(b) /\ d = OtherJunk(b) /\ c \o d = b
        BY Pieces
      <3>2. PICK y \in Seq(Byte) : y = s.all
        BY <2>5
      <3>3. (y \o FirstJunk(b)) \o OtherJunk(b) = y \o b
        BY PieceOff
      <3>4. (s.all \o c) \o d = g
        BY <2>5, <3>1, <3>2, <3>3, Zenon
      <3> DEFINE a == [panel |-> m.panel, fn |-> "FileData", bytes |-> c]
      <3>5. /\ a \in MasterMsg /\ a.panel = m.panel /\ a.fn = "FileData" /\ a.bytes = c
            /\ Send(a)
        BY <2>1, <2>5, <2>9, <3>1 DEF SendJunk, MasterMsg
      <3> HIDE DEF a
      <3>6. mBufferSend' = d
        BY <2>5, <2>9, <3>1 DEF SendJunk
      <3>7. AnswerFits(a)'
        BY <2>3, <2>5, <2>6, <3>4, <3>5, <3>6 DEF AnswerFits, Sending
      <3>8. QED
        BY <2>1, <2>2, <2>7, <2>8, <3>5, <3>7, HandlerStep
    <2>10. CASE ~HasJunk /\ Reply("FileDataComplete")
      <3> DEFINE a == [panel |-> m.panel, fn |-> "FileDataComplete"]
      <3>1. a \in MasterMsg /\ a.panel = m.panel /\ a.fn = "FileDataComplete" /\ Send(a)
        BY <2>1, <2>10 DEF Reply, MasterMsg
      <3> HIDE DEF a
      <3>2. b = <<>>
        BY <2>5, <2>10, FileConstants DEF HasJunk
      <3>3. s.all = g
        BY <2>5, <3>2, ConcatEmptySeq
      <3>4. AnswerFits(a)'
        BY <2>3, <2>5, <2>6, <3>1, <3>3 DEF AnswerFits
      <3>5. QED
        BY <2>1, <2>2, <2>7, <2>8, <3>1, <3>4, HandlerStep
    <2>11. QED
      BY <1>7, <2>9, <2>10 DEF Ack
  <1>8. CASE DeleteFile
    <2>1. PICK m \in PanelMsg :
             /\ m = Msg /\ m.fn = "FileRemove" /\ m.panel \in Panels
             /\ IsRequest(m) => RequestFits(m)
             /\ PanelFits(m.panel) /\ session[m.panel] \in Session
             /\ toPanel # <<>> /\ toPanel' = Tail(toPanel)
      BY <1>8, Handled DEF DeleteFile
    <2>2. IsRequest(m) /\ RequestFits(m)
      BY <2>1 DEF IsRequest
    <2>3. PICK s \in Session : s = session[m.panel]
      BY <2>1
    <2> DEFINE a == [panel |-> m.panel, fn |-> "Ack"]
    <2>4. a \in MasterMsg /\ a.panel = m.panel /\ a.fn = "Ack" /\ Send(a)
      BY <1>8, <2>1 DEF DeleteFile, Reply, MasterMsg
    <2> HIDE DEF a
    <2>5. session' = session
      BY <1>8 DEF DeleteFile
    <2>6. \A p \in Panels : Frame(p)
      BY <1>8, Still DEF DeleteFile
    <2>7. AnswerFits(a)'
      BY <2>1, <2>2, <2>4, <2>5 DEF RequestFits, AnswerFits
    <2>8. PanelFits(m.panel)'
      BY <2>1, <2>6, PanelFramed
    <2>9. QED
      BY <2>1, <2>2, <2>4, <2>6, <2>7, <2>8, HandlerStep
  <1>9. CASE InvalidFileType
    <2>1. PICK m \in PanelMsg :
             /\ m = Msg /\ m.fn = "FirmwareType" /\ m.panel \in Panels
             /\ IsRequest(m) => RequestFits(m)
             /\ PanelFits(m.panel) /\ session[m.panel] \in Session
             /\ toPanel # <<>> /\ toPanel' = Tail(toPanel)
      BY <1>9, Handled DEF InvalidFileType
    <2>2. IsRequest(m) /\ RequestFits(m)
      BY <2>1 DEF IsRequest
    <2>3. PICK s \in Session : s = session[m.panel]
      BY <2>1
    <2> DEFINE a == [panel |-> m.panel, fn |-> "Nak"]
    <2>4. a \in MasterMsg /\ a.panel = m.panel /\ a.fn = "Nak" /\ Send(a)
      BY <1>9, <2>1 DEF InvalidFileType, Reply, MasterMsg
    <2> HIDE DEF a
    <2>5. session' = session
      BY <1>9 DEF InvalidFileType
    <2>6. \A p \in Panels : Frame(p)
      BY <1>9, Still DEF InvalidFileType
    <2>7. AnswerFits(a)'
      BY <2>1, <2>2, <2>4, <2>5 DEF RequestFits, AnswerFits
    <2>8. PanelFits(m.panel)'
      BY <2>1, <2>6, PanelFramed
    <2>9. QED
      BY <2>1, <2>2, <2>4, <2>6, <2>7, <2>8, HandlerStep
  <1>10. CASE TransferGetFileAccessTokenAck
    <2>1. PICK m \in PanelMsg :
             /\ m = Msg /\ m.fn = "GetFileAccessTokenAck" /\ m.panel \in Panels
             /\ IsRequest(m) => RequestFits(m)
             /\ PanelFits(m.panel) /\ session[m.panel] \in Session
             /\ toPanel # <<>> /\ toPanel' = Tail(toPanel)
      BY <1>10, Handled DEF TransferGetFileAccessTokenAck
    <2>2. IsRequest(m) /\ RequestFits(m)
      BY <2>1 DEF IsRequest
    <2>3. PICK s \in Session : s = session[m.panel]
      BY <2>1
    <2> DEFINE a == [panel |-> m.panel, fn |-> "GetFile"]
    <2>4. a \in MasterMsg /\ a.panel = m.panel /\ a.fn = "GetFile" /\ Send(a)
      BY <1>10, <2>1 DEF TransferGetFileAccessTokenAck, Reply, MasterMsg
    <2> HIDE DEF a
    <2>5. session' = session
      BY <1>10 DEF TransferGetFileAccessTokenAck
    <2>6. \A p \in Panels : Frame(p)
      BY <1>10, Still DEF TransferGetFileAccessTokenAck
    <2>7. AnswerFits(a)'
      BY <2>1, <2>2, <2>4, <2>5 DEF RequestFits, AnswerFits
    <2>8. PanelFits(m.panel)'
      BY <2>1, <2>6, PanelFramed
    <2>9. QED
      BY <2>1, <2>2, <2>4, <2>6, <2>7, <2>8, HandlerStep
  <1>11. CASE NotAnswered
    <2>1. toPanel # <<>> /\ toPanel' = Tail(toPanel) /\ toMaster' = toMaster
      BY <1>11 DEF NotAnswered, Receive
    <2>2. \A p \in Panels : Frame(p)
      BY <1>11, Still DEF NotAnswered
    <2>3. LeftOf(toPanel', toMaster')
      BY <2>1 DEF LeftOf
    <2>4. QED
      BY <2>2, <2>3, QuietStep
  <1>12. CASE CreateDirectory
    <2>1. PICK m \in PanelMsg :
             /\ m = Msg /\ m.fn = "DirCreate" /\ m.panel \in Panels
             /\ IsRequest(m) => RequestFits(m)
             /\ PanelFits(m.panel) /\ session[m.panel] \in Session
             /\ toPanel # <<>> /\ toPanel' = Tail(toPanel)
      BY <1>12, Handled DEF CreateDirectory
    <2>2. IsRequest(m) /\ RequestFits(m)
      BY <2>1 DEF IsRequest
    <2>3. PICK s \in Session : s = session[m.panel]
      BY <2>1
    <2>4. /\ s.phase = "waiting" /\ m.panel \in Uploaders
          /\ UNCHANGED <<session, granted, disk, mCurrentFileNameData, mBufferData,
                         mBufferSend>>
      BY <1>12, <2>1, <2>2, <2>3 DEF CreateDirectory, RequestFits
    <2>5. \A p \in Panels : p # m.panel => Frame(p)
      <3>1. \A p \in Panels : p # m.panel =>
               session[p].phase \notin {"asked", "writing", "closing"}
        BY <2>4, OthersDoNot
      <3>2. QED
        BY <2>4, <3>1 DEF Frame
    <2>6. PanelFits(m.panel)'
      BY <2>1, <2>4 DEF PanelFits
    <2>7. PICK fn \in {"Ack", "Nak"} : Reply(fn)
      BY <1>12 DEF CreateDirectory
    <2> DEFINE a == [panel |-> m.panel, fn |-> fn]
    <2>8. a \in MasterMsg /\ a.panel = m.panel /\ a.fn = fn /\ Send(a)
      BY <2>1, <2>7 DEF Reply, MasterMsg
    <2> HIDE DEF a
    <2>9. AnswerFits(a)'
      BY <2>3, <2>4, <2>7, <2>8 DEF AnswerFits
    <2>10. QED
      BY <2>1, <2>2, <2>5, <2>6, <2>8, <2>9, HandlerStep
  <1>13. CASE GetDirectoryInfo
    <2>1. PICK m \in PanelMsg : /\ m = Msg /\ m.panel \in Panels
                                /\ toPanel # <<>> /\ toPanel' = Tail(toPanel)
      BY <1>13, Handled DEF GetDirectoryInfo
    <2>2. \A p \in Panels : Frame(p)
      BY <1>13, Still DEF GetDirectoryInfo
    <2> DEFINE a == [panel |-> m.panel, fn |-> "DirHeader"]
    <2>3. a \in MasterMsg /\ ~IsAnswer(a) /\ Send(a)
      BY <1>13, <2>1 DEF GetDirectoryInfo, Reply, MasterMsg, IsAnswer
    <2> HIDE DEF a
    <2>4. LeftOf(toPanel', toMaster)
      BY <2>1 DEF LeftOf
    <2>5. toMaster' = toMaster \/ toMaster' = Append(toMaster, a)
      BY <2>3 DEF Send
    <2>6. QED
      BY <2>2, <2>3, <2>4, <2>5, QuietStep
  <1>14. ASSUME NEW l \in listing,
               ReadDirectory(l)
        PROVE  TransferInv'
    <2>1. \A p \in Panels : Frame(p)
      BY <1>14, Still DEF ReadDirectory
    <2>2. toPanel' = toPanel /\ toMaster' = toMaster
      BY <1>14 DEF ReadDirectory
    <2>3. LeftOf(toPanel', toMaster')
      BY <2>2 DEF LeftOf
    <2>4. QED
      BY <2>1, <2>3, QuietStep
  <1>15. ASSUME NEW l \in listing,
               SendEntry(l)
        PROVE  TransferInv'
    <2>1. \A p \in Panels : Frame(p)
      BY <1>15, Still DEF SendEntry
    <2> DEFINE item == Head(l.left)
               a == [name |-> item.name, panel |-> l.panel, no |-> NextItemNo(l.no),
                     fn |-> "DirEntry", count |-> l.count, size |-> item.size]
    <2>2. l \in Continuation /\ l.left # <<>> /\ l.left \in Seq(Item)
      BY <1>15 DEF SendEntry, TransferInv, TypeInv, TypeOK, EntriesLeft, Continuation,
         Item
    <2>3. item \in Item
      BY <2>2, HeadTailProperties
    <2>4. NextItemNo(l.no) \in UShort
      BY <2>2, NextIsUShort DEF Continuation
    <2>5. a \in MasterMsg /\ ~IsAnswer(a)
      BY <2>2, <2>3, <2>4 DEF Continuation, Item, MasterMsg, IsAnswer
    <2>6. [l EXCEPT !.left = Tail(@), !.no = NextItemNo(@)].no = NextItemNo(l.no)
      BY <2>2 DEF Continuation
    <2>7. Send(a) /\ toPanel' = toPanel
      BY <1>15, <2>6 DEF SendEntry
    <2> HIDE DEF a
    <2>8. LeftOf(toPanel', toMaster)
      BY <2>7 DEF LeftOf
    <2>9. toMaster' = toMaster \/ toMaster' = Append(toMaster, a)
      BY <2>7 DEF Send
    <2>10. QED
      BY <2>1, <2>5, <2>8, <2>9, QuietStep
  <1>16. CASE MasterNames
    <2>1. toMaster # <<>> /\ toMaster' = Tail(toMaster)
      BY <1>16 DEF MasterNames, Takes
    <2>2. PICK a \in MasterMsg :
             /\ a = Answer /\ a.panel \in Panels
             /\ IsAnswer(a) => AnswerFits(a)
             /\ PanelFits(a.panel) /\ session[a.panel] \in Session
      BY <2>1, Asked
    <2>3. PICK x \in Session : x = session[a.panel] /\ x = Asking
      BY <2>2 DEF Asking
    <2>4. /\ IsAnswer(a) /\ x.phase = "asked" /\ x.left = x.all
          /\ x.name \in Names
      BY <1>16, <2>1, <2>2, <2>3 DEF MasterNames, Takes, IsAnswer, AnswerFits, PanelFits
    <2> DEFINE s == [x EXCEPT !.phase = "writing"]
    <2>5. s \in Session
      BY <2>3, <2>4, IdleSession DEF Session, Phase
    <2>6. /\ session' = [session EXCEPT ![a.panel] = s] /\ UNCHANGED panelVars
          /\ toPanel \in Seq(PanelMsg) /\ session \in [Panels -> Session]
      BY <1>16, <2>2, <2>3 DEF MasterNames, Takes, TransferInv, TypeInv, TypeOK
    <2>7. /\ session'[a.panel] = s
          /\ UNCHANGED <<disk, dirs, mCurrentFileNameData, mBufferData, mBufferSend,
                         granted>>
      BY <2>2, <2>6 DEF panelVars, diskVars, fileVars
    <2>8. s.phase = "writing" /\ s.name = x.name /\ s.left = s.all
      BY <2>3, <2>4, <2>5 DEF Session
    <2>9. PanelFits(a.panel)'
      BY <2>2, <2>3, <2>4, <2>5, <2>7, IdleSession DEF PanelFits, Session
    <2> DEFINE m == [name |-> x.name, panel |-> a.panel, fn |-> "SingleFileInfo"]
    <2>10. m \in PanelMsg /\ m.panel = a.panel /\ m.fn = "SingleFileInfo"
           /\ m.name = x.name
      BY <2>2, <2>4, <2>5 DEF PanelMsg, Session
    <2>11. toPanel' = toPanel \o <<m>>
      BY <1>16, <2>2, <2>3 DEF MasterNames, Takes
    <2> HIDE DEF m
    <2>12. toPanel' = Append(toPanel, m)
      BY <2>6, <2>10, <2>11, AppendIsConcat
    <2>13. session'[m.panel] = s /\ granted'[m.panel] = granted[a.panel]
      BY <2>7, <2>10
    <2> HIDE DEF s
    <2>14. RequestFits(m)'
      BY <2>4, <2>5, <2>7, <2>8, <2>10, <2>13 DEF RequestFits, Receiving, Sending
    <2> HIDE DEF s
    <2>15. QED
      BY <2>1, <2>2, <2>3, <2>4, <2>5, <2>6, <2>9, <2>10, <2>12, <2>14, MasterStep
  <1>17. CASE MasterSendsJunk
    <2>1. toMaster # <<>> /\ toMaster' = Tail(toMaster)
      BY <1>17 DEF MasterSendsJunk, Takes
    <2>2. PICK a \in MasterMsg :
             /\ a = Answer /\ a.panel \in Panels
             /\ IsAnswer(a) => AnswerFits(a)
             /\ PanelFits(a.panel) /\ session[a.panel] \in Session
      BY <2>1, Asked
    <2>3. PICK x \in Session : x = session[a.panel] /\ x = Asking
      BY <2>2 DEF Asking
    <2>4. /\ IsAnswer(a) /\ x.phase = "writing" /\ x.left \in Seq(Byte)
          /\ mCurrentFileNameData = x.name /\ mBufferData \in Seq(Byte)
          /\ mBufferData \o x.left = x.all
      BY <1>17, <2>1, <2>2, <2>3 DEF MasterSendsJunk, Takes, IsAnswer, AnswerFits,
         Receiving, Session
    <2>5. PICK c \in Seq(Byte), d \in Seq(Byte) :
             c = FirstJunk(x.left) /\ d = OtherJunk(x.left) /\ c \o d = x.left
      BY <2>4, Pieces
    <2>6. (mBufferData \o FirstJunk(x.left)) \o OtherJunk(x.left) = mBufferData \o x.left
      BY <2>4, PieceOff
    <2>7. (mBufferData \o c) \o d = x.all
      BY <2>4, <2>5, <2>6, Zenon
    <2> DEFINE s == [x EXCEPT !.left = d]
    <2>8. s \in Session
      BY <2>3, <2>4, IdleSession DEF Session, Phase
    <2>9. /\ session' = [session EXCEPT ![a.panel] = s] /\ UNCHANGED panelVars
          /\ toPanel \in Seq(PanelMsg) /\ session \in [Panels -> Session]
      BY <1>17, <2>2, <2>3, <2>5 DEF MasterSendsJunk, Takes, TransferInv, TypeInv, TypeOK
    <2>10. /\ session'[a.panel] = s
          /\ UNCHANGED <<disk, dirs, mCurrentFileNameData, mBufferData, mBufferSend,
                         granted>>
      BY <2>2, <2>9 DEF panelVars, diskVars, fileVars
    <2>11. s.phase = "writing" /\ s.name = x.name /\ s.left = d /\ s.all = x.all
      BY <2>3, <2>4, <2>5, <2>7 DEF Session
    <2>12. PanelFits(a.panel)'
      BY <2>2, <2>3, <2>4, <2>10, IdleSession DEF PanelFits
    <2> DEFINE m == [panel |-> a.panel, fn |-> "FileData", bytes |-> c]
    <2>13. m \in PanelMsg /\ m.panel = a.panel /\ m.fn = "FileData" /\ m.bytes = c
      BY <2>2, <2>4, <2>5, <2>7 DEF PanelMsg
    <2>14. toPanel' = toPanel \o <<m>>
      BY <1>17, <2>2, <2>3, <2>5 DEF MasterSendsJunk, Takes
    <2> HIDE DEF m
    <2>15. toPanel' = Append(toPanel, m)
      BY <2>9, <2>13, <2>14, AppendIsConcat
    <2>16. session'[m.panel] = s /\ granted'[m.panel] = granted[a.panel]
      BY <2>10, <2>13
    <2> HIDE DEF s
    <2>17. RequestFits(m)'
      BY <2>4, <2>5, <2>7, <2>10, <2>11, <2>13, <2>16 DEF RequestFits, Receiving, Sending
    <2> HIDE DEF s
    <2>18. QED
      BY <2>1, <2>2, <2>3, <2>4, <2>8, <2>9, <2>12, <2>13, <2>15, <2>17, MasterStep
  <1>18. CASE MasterCompletes
    <2>1. toMaster # <<>> /\ toMaster' = Tail(toMaster)
      BY <1>18 DEF MasterCompletes, Takes
    <2>2. PICK a \in MasterMsg :
             /\ a = Answer /\ a.panel \in Panels
             /\ IsAnswer(a) => AnswerFits(a)
             /\ PanelFits(a.panel) /\ session[a.panel] \in Session
      BY <2>1, Asked
    <2>3. PICK x \in Session : x = session[a.panel] /\ x = Asking
      BY <2>2 DEF Asking
    <2>4. /\ IsAnswer(a) /\ x.phase = "writing" /\ x.left \in Seq(Byte)
          /\ mCurrentFileNameData = x.name /\ mBufferData \in Seq(Byte)
          /\ mBufferData \o x.left = x.all /\ x.left = <<>>
      BY <1>18, <2>1, <2>2, <2>3 DEF MasterCompletes, Takes, IsAnswer, AnswerFits,
         Receiving, Session
    <2>5. mBufferData = x.all
      BY <2>4, ConcatEmptySeq
    <2> DEFINE s == [x EXCEPT !.phase = "closing"]
    <2>6. s \in Session
      BY <2>3, <2>4, IdleSession DEF Session, Phase
    <2>7. /\ session' = [session EXCEPT ![a.panel] = s] /\ UNCHANGED panelVars
          /\ toPanel \in Seq(PanelMsg) /\ session \in [Panels -> Session]
      BY <1>18, <2>2, <2>3 DEF MasterCompletes, Takes, TransferInv, TypeInv, TypeOK
    <2>8. /\ session'[a.panel] = s
          /\ UNCHANGED <<disk, dirs, mCurrentFileNameData, mBufferData, mBufferSend,
                         granted>>
      BY <2>2, <2>7 DEF panelVars, diskVars, fileVars
    <2>9. s.phase = "closing" /\ s.name = x.name /\ s.all = x.all
      BY <2>3, <2>4, <2>5 DEF Session
    <2>10. PanelFits(a.panel)'
      BY <2>2, <2>3, <2>4, <2>8, IdleSession DEF PanelFits
    <2> DEFINE m == [panel |-> a.panel, fn |-> "FileDataComplete"]
    <2>11. m \in PanelMsg /\ m.panel = a.panel /\ m.fn = "FileDataComplete"
      BY <2>2, <2>4, <2>5 DEF PanelMsg
    <2>12. toPanel' = toPanel \o <<m>>
      BY <1>18, <2>2, <2>3 DEF MasterCompletes, Takes
    <2> HIDE DEF m
    <2>13. toPanel' = Append(toPanel, m)
      BY <2>7, <2>11, <2>12, AppendIsConcat
    <2>14. session'[m.panel] = s /\ granted'[m.panel] = granted[a.panel]
      BY <2>8, <2>11
    <2> HIDE DEF s
    <2>15. RequestFits(m)'
      BY <2>4, <2>5, <2>8, <2>9, <2>11, <2>14 DEF RequestFits, Receiving, Sending
    <2> HIDE DEF s
    <2>16. QED
      BY <2>1, <2>2, <2>3, <2>4, <2>6, <2>7, <2>10, <2>11, <2>13, <2>15, MasterStep
  <1>19. CASE MasterHasWritten
    <2>1. toMaster # <<>> /\ toMaster' = Tail(toMaster)
      BY <1>19 DEF MasterHasWritten, Takes
    <2>2. PICK a \in MasterMsg :
             /\ a = Answer /\ a.panel \in Panels
             /\ IsAnswer(a) => AnswerFits(a)
             /\ PanelFits(a.panel) /\ session[a.panel] \in Session
      BY <2>1, Asked
    <2>3. PICK x \in Session : x = session[a.panel] /\ x = Asking
      BY <2>2 DEF Asking
    <2>4. IsAnswer(a)
      BY <1>19, <2>1, <2>2, <2>3 DEF MasterHasWritten, Takes, IsAnswer, AnswerFits
    <2> DEFINE s == Idle
    <2>5. s \in Session
      BY <2>3, <2>4, IdleSession DEF Session, Phase
    <2>6. /\ session' = [session EXCEPT ![a.panel] = s] /\ UNCHANGED panelVars
          /\ toPanel \in Seq(PanelMsg) /\ session \in [Panels -> Session]
      BY <1>19, <2>2, <2>3 DEF MasterHasWritten, Takes, TransferInv, TypeInv, TypeOK
    <2>7. /\ session'[a.panel] = s
          /\ UNCHANGED <<disk, dirs, mCurrentFileNameData, mBufferData, mBufferSend,
                         granted>>
      BY <2>2, <2>6 DEF panelVars, diskVars, fileVars
    <2>8. PanelFits(a.panel)'
      BY <2>2, <2>3, <2>4, <2>7, IdleSession DEF PanelFits
    <2>9. toPanel' = toPanel
      BY <1>19, <2>6, ConcatEmptySeq DEF MasterHasWritten, Takes
    <2> HIDE DEF s
    <2>10. QED
      BY <2>1, <2>2, <2>3, <2>4, <2>5, <2>6, <2>8, <2>9, MasterStep
  <1>20. CASE MasterGets
    <2>1. toMaster # <<>> /\ toMaster' = Tail(toMaster)
      BY <1>20 DEF MasterGets, Takes
    <2>2. PICK a \in MasterMsg :
             /\ a = Answer /\ a.panel \in Panels
             /\ IsAnswer(a) => AnswerFits(a)
             /\ PanelFits(a.panel) /\ session[a.panel] \in Session
      BY <2>1, Asked
    <2>3. PICK x \in Session : x = session[a.panel] /\ x = Asking
      BY <2>2 DEF Asking
    <2>4. /\ IsAnswer(a) /\ x.phase = "token" /\ x.all = <<>>
          /\ mBufferSend = granted[a.panel] /\ granted[a.panel] \in Seq(Byte)
      BY <1>20, <2>1, <2>2, <2>3 DEF MasterGets, Takes, IsAnswer, AnswerFits
    <2>5. <<>> \o granted[a.panel] = granted[a.panel]
      BY <2>4, ConcatEmptySeq
    <2> DEFINE s == [x EXCEPT !.phase = "reading"]
    <2>6. s \in Session
      BY <2>3, <2>4, IdleSession DEF Session, Phase
    <2>7. /\ session' = [session EXCEPT ![a.panel] = s] /\ UNCHANGED panelVars
          /\ toPanel \in Seq(PanelMsg) /\ session \in [Panels -> Session]
      BY <1>20, <2>2, <2>3 DEF MasterGets, Takes, TransferInv, TypeInv, TypeOK
    <2>8. /\ session'[a.panel] = s
          /\ UNCHANGED <<disk, dirs, mCurrentFileNameData, mBufferData, mBufferSend,
                         granted>>
      BY <2>2, <2>7 DEF panelVars, diskVars, fileVars
    <2>9. s.phase = "reading" /\ s.all = <<>>
      BY <2>3, <2>4 DEF Session
    <2>10. PanelFits(a.panel)'
      BY <2>2, <2>3, <2>4, <2>5, <2>8, IdleSession DEF PanelFits
    <2> DEFINE m == [panel |-> a.panel, fn |-> "GetFile"]
    <2>11. m \in PanelMsg /\ m.panel = a.panel /\ m.fn = "GetFile"
      BY <2>2, <2>4 DEF PanelMsg
    <2>12. toPanel' = toPanel \o <<m>>
      BY <1>20, <2>2, <2>3 DEF MasterGets, Takes
    <2> HIDE DEF m
    <2>13. toPanel' = Append(toPanel, m)
      BY <2>7, <2>11, <2>12, AppendIsConcat
    <2>14. session'[m.panel] = s /\ granted'[m.panel] = granted[a.panel]
      BY <2>8, <2>11
    <2> HIDE DEF s
    <2>15. RequestFits(m)'
      BY <2>4, <2>8, <2>9, <2>11, <2>14 DEF RequestFits, Receiving, Sending
    <2> HIDE DEF s
    <2>16. QED
      BY <2>1, <2>2, <2>3, <2>4, <2>6, <2>7, <2>10, <2>11, <2>13, <2>15, MasterStep
  <1>21. CASE MasterTakesJunk
    <2>1. toMaster # <<>> /\ toMaster' = Tail(toMaster)
      BY <1>21 DEF MasterTakesJunk, Takes
    <2>2. PICK a \in MasterMsg :
             /\ a = Answer /\ a.panel \in Panels
             /\ IsAnswer(a) => AnswerFits(a)
             /\ PanelFits(a.panel) /\ session[a.panel] \in Session
      BY <2>1, Asked
    <2>3. PICK x \in Session : x = session[a.panel] /\ x = Asking
      BY <2>2 DEF Asking
    <2>4. /\ IsAnswer(a) /\ x.phase = "reading" /\ mBufferSend \in Seq(Byte)
          /\ granted[a.panel] \in Seq(Byte) /\ a.bytes \in Seq(Byte)
          /\ (x.all \o a.bytes) \o mBufferSend = granted[a.panel] /\ x.all \in Seq(Byte)
      BY <1>21, <2>1, <2>2, <2>3 DEF MasterTakesJunk, Takes, IsAnswer, AnswerFits,
         Sending, MasterMsg, Session
    <2>5. PICK y \in Seq(Byte) : y = x.all \o a.bytes
          /\ y \o mBufferSend = granted[a.panel]
      BY <2>4, ConcatProperties
    <2> DEFINE s == [x EXCEPT !.all = y]
    <2>6. s \in Session
      BY <2>3, <2>4, IdleSession DEF Session, Phase
    <2>7. /\ session' = [session EXCEPT ![a.panel] = s] /\ UNCHANGED panelVars
          /\ toPanel \in Seq(PanelMsg) /\ session \in [Panels -> Session]
      BY <1>21, <2>2, <2>3, <2>5 DEF MasterTakesJunk, Takes, TransferInv, TypeInv, TypeOK
    <2>8. /\ session'[a.panel] = s
          /\ UNCHANGED <<disk, dirs, mCurrentFileNameData, mBufferData, mBufferSend,
                         granted>>
      BY <2>2, <2>7 DEF panelVars, diskVars, fileVars
    <2>9. s.phase = "reading" /\ s.all = y
      BY <2>3, <2>4, <2>5 DEF Session
    <2>10. /\ session'[a.panel].phase = "reading" /\ session'[a.panel].all = y
          /\ granted'[a.panel] = granted[a.panel]
      BY <2>8, <2>9
    <2>11. a.panel \in Downloaders
      BY <2>2, <2>3, <2>4 DEF PanelFits
    <2>12. PanelFits(a.panel)'
      BY <2>4, <2>5, <2>10, <2>11 DEF PanelFits
    <2> DEFINE m == [panel |-> a.panel, fn |-> "Ack"]
    <2>13. m \in PanelMsg /\ m.panel = a.panel /\ m.fn = "Ack"
      BY <2>2, <2>4, <2>5 DEF PanelMsg
    <2>14. toPanel' = toPanel \o <<m>>
      BY <1>21, <2>2, <2>3, <2>5 DEF MasterTakesJunk, Takes
    <2> HIDE DEF m
    <2>15. toPanel' = Append(toPanel, m)
      BY <2>7, <2>13, <2>14, AppendIsConcat
    <2>16. session'[m.panel] = s /\ granted'[m.panel] = granted[a.panel]
      BY <2>8, <2>13
    <2> HIDE DEF s
    <2>17. RequestFits(m)'
      BY <2>4, <2>5, <2>8, <2>9, <2>13, <2>16 DEF RequestFits, Receiving, Sending
    <2> HIDE DEF s
    <2>18. QED
      BY <2>1, <2>2, <2>3, <2>4, <2>6, <2>7, <2>12, <2>13, <2>15, <2>17, MasterStep
  <1>22. CASE MasterHasRead
    <2>1. toMaster # <<>> /\ toMaster' = Tail(toMaster)
      BY <1>22 DEF MasterHasRead, Takes
    <2>2. PICK a \in MasterMsg :
             /\ a = Answer /\ a.panel \in Panels
             /\ IsAnswer(a) => AnswerFits(a)
             /\ PanelFits(a.panel) /\ session[a.panel] \in Session
      BY <2>1, Asked
    <2>3. PICK x \in Session : x = session[a.panel] /\ x = Asking
      BY <2>2 DEF Asking
    <2>4. IsAnswer(a)
      BY <1>22, <2>1, <2>2, <2>3 DEF MasterHasRead, Takes, IsAnswer, AnswerFits
    <2> DEFINE s == Idle
    <2>5. s \in Session
      BY <2>3, <2>4, IdleSession DEF Session, Phase
    <2>6. /\ session' = [session EXCEPT ![a.panel] = s] /\ UNCHANGED panelVars
          /\ toPanel \in Seq(PanelMsg) /\ session \in [Panels -> Session]
      BY <1>22, <2>2, <2>3 DEF MasterHasRead, Takes, TransferInv, TypeInv, TypeOK
    <2>7. /\ session'[a.panel] = s
          /\ UNCHANGED <<disk, dirs, mCurrentFileNameData, mBufferData, mBufferSend,
                         granted>>
      BY <2>2, <2>6 DEF panelVars, diskVars, fileVars
    <2>8. PanelFits(a.panel)'
      BY <2>2, <2>3, <2>4, <2>7, IdleSession DEF PanelFits
    <2> DEFINE m == [panel |-> a.panel, fn |-> "FileDataCompleteAck"]
    <2>9. m \in PanelMsg /\ m.panel = a.panel /\ ~IsRequest(m)
      BY <2>2, <2>4 DEF PanelMsg, IsRequest
    <2>10. toPanel' = toPanel \o <<m>>
      BY <1>22, <2>2, <2>3 DEF MasterHasRead, Takes
    <2> HIDE DEF m
    <2>11. toPanel' = Append(toPanel, m)
      BY <2>6, <2>9, <2>10, AppendIsConcat
    <2>12. ~IsRequest(m)
      BY <2>9
    <2> HIDE DEF s
    <2>13. QED
      BY <2>1, <2>2, <2>3, <2>4, <2>5, <2>6, <2>8, <2>9, <2>11, <2>12, MasterStep
  <1>23. CASE MasterIsRefused
    <2>1. toMaster # <<>> /\ toMaster' = Tail(toMaster)
      BY <1>23 DEF MasterIsRefused, Takes
    <2>2. PICK a \in MasterMsg :
             /\ a = Answer /\ a.panel \in Panels
             /\ IsAnswer(a) => AnswerFits(a)
             /\ PanelFits(a.panel) /\ session[a.panel] \in Session
      BY <2>1, Asked
    <2>3. PICK x \in Session : x = session[a.panel] /\ x = Asking
      BY <2>2 DEF Asking
    <2>4. IsAnswer(a)
      BY <1>23, <2>1, <2>2, <2>3 DEF MasterIsRefused, Takes, IsAnswer, AnswerFits
    <2> DEFINE s == Idle
    <2>5. s \in Session
      BY <2>3, <2>4, IdleSession DEF Session, Phase
    <2>6. /\ session' = [session EXCEPT ![a.panel] = s] /\ UNCHANGED panelVars
          /\ toPanel \in Seq(PanelMsg) /\ session \in [Panels -> Session]
      BY <1>23, <2>2, <2>3 DEF MasterIsRefused, Takes, TransferInv, TypeInv, TypeOK
    <2>7. /\ session'[a.panel] = s
          /\ UNCHANGED <<disk, dirs, mCurrentFileNameData, mBufferData, mBufferSend,
                         granted>>
      BY <2>2, <2>6 DEF panelVars, diskVars, fileVars
    <2>8. PanelFits(a.panel)'
      BY <2>2, <2>3, <2>4, <2>7, IdleSession DEF PanelFits
    <2>9. toPanel' = toPanel
      BY <1>23, <2>6, ConcatEmptySeq DEF MasterIsRefused, Takes
    <2> HIDE DEF s
    <2>10. QED
      BY <2>1, <2>2, <2>3, <2>4, <2>5, <2>6, <2>8, <2>9, MasterStep
  <1>24. CASE MasterTakesEntry
    <2>1. toMaster # <<>> /\ toMaster' = Tail(toMaster)
      BY <1>24 DEF MasterTakesEntry, Takes
    <2>2. PICK a \in MasterMsg :
             /\ a = Answer /\ a.panel \in Panels
             /\ IsAnswer(a) => AnswerFits(a)
             /\ PanelFits(a.panel) /\ session[a.panel] \in Session
      BY <2>1, Asked
    <2>3. PICK x \in Session : x = session[a.panel] /\ x = Asking
      BY <2>2 DEF Asking
    <2>4. session[a.panel].phase = "listing" /\ x.phase = "listing"
      BY <1>24, <2>1, <2>2, <2>3 DEF MasterTakesEntry, Takes, IsAnswer, AnswerFits
    <2> DEFINE s == IF a.fn = "DirEntry" /\ a.no = a.count THEN Idle ELSE x
    <2>5. s \in Session
      BY <2>3, <2>4, IdleSession DEF Session, Phase
    <2>6. /\ session' = [session EXCEPT ![a.panel] = s] /\ UNCHANGED panelVars
          /\ toPanel \in Seq(PanelMsg) /\ session \in [Panels -> Session]
      BY <1>24, <2>2, <2>3 DEF MasterTakesEntry, Takes, TransferInv, TypeInv, TypeOK
    <2>7. /\ session'[a.panel] = s
          /\ UNCHANGED <<disk, dirs, mCurrentFileNameData, mBufferData, mBufferSend,
                         granted>>
      BY <2>2, <2>6 DEF panelVars, diskVars, fileVars
    <2>8. PanelFits(a.panel)'
      BY <2>2, <2>3, <2>4, <2>7, IdleSession DEF PanelFits
    <2>9. toPanel' = toPanel
      BY <1>24, <2>6, ConcatEmptySeq DEF MasterTakesEntry, Takes
    <2> HIDE DEF s
    <2>10. QED
      BY <2>1, <2>2, <2>3, <2>4, <2>5, <2>6, <2>8, <2>9, MasterStep
  <1>25. CASE MasterIsAnswered
    <2>1. toMaster # <<>> /\ toMaster' = Tail(toMaster)
      BY <1>25 DEF MasterIsAnswered, Takes
    <2>2. PICK a \in MasterMsg :
             /\ a = Answer /\ a.panel \in Panels
             /\ IsAnswer(a) => AnswerFits(a)
             /\ PanelFits(a.panel) /\ session[a.panel] \in Session
      BY <2>1, Asked
    <2>3. PICK x \in Session : x = session[a.panel] /\ x = Asking
      BY <2>2 DEF Asking
    <2>4. IsAnswer(a)
      BY <1>25, <2>1, <2>2, <2>3 DEF MasterIsAnswered, Takes, IsAnswer, AnswerFits
    <2> DEFINE s == Idle
    <2>5. s \in Session
      BY <2>3, <2>4, IdleSession DEF Session, Phase
    <2>6. /\ session' = [session EXCEPT ![a.panel] = s] /\ UNCHANGED panelVars
          /\ toPanel \in Seq(PanelMsg) /\ session \in [Panels -> Session]
      BY <1>25, <2>2, <2>3 DEF MasterIsAnswered, Takes, TransferInv, TypeInv, TypeOK
    <2>7. /\ session'[a.panel] = s
          /\ UNCHANGED <<disk, dirs, mCurrentFileNameData, mBufferData, mBufferSend,
                         granted>>
      BY <2>2, <2>6 DEF panelVars, diskVars, fileVars
    <2>8. PanelFits(a.panel)'
      BY <2>2, <2>3, <2>4, <2>7, IdleSession DEF PanelFits
    <2>9. toPanel' = toPanel
      BY <1>25, <2>6, ConcatEmptySeq DEF MasterIsAnswered, Takes
    <2> HIDE DEF s
    <2>10. QED
      BY <2>1, <2>2, <2>3, <2>4, <2>5, <2>6, <2>8, <2>9, MasterStep
  <1>26. CASE MasterIgnores
    <2>1. toMaster # <<>> /\ toMaster' = Tail(toMaster) /\ UNCHANGED panelVars
      BY <1>26 DEF MasterIgnores, Takes
    <2>2. session \in [Panels -> Session]
          /\ session' = [session EXCEPT ![Answer.panel] = Asking]
      BY <1>26 DEF MasterIgnores, Takes, TransferInv, TypeInv, TypeOK
    <2>3. session' = session
      BY <2>2 DEF Asking
    <2>4. toPanel' = toPanel
      BY <1>26, ConcatEmptySeq DEF MasterIgnores, Takes, TransferInv, TypeInv, TypeOK
    <2>5. \A p \in Panels : Frame(p)
      BY <2>1, <2>3, Still DEF panelVars
    <2>6. LeftOf(toPanel', toMaster')
      BY <2>1, <2>4 DEF LeftOf
    <2>7. QED
      BY <2>5, <2>6, QuietStep
  <1>27. ASSUME NEW p \in Uploaders, NEW n \in Names, NEW b \in ContentsOf(n),
               MasterWrites(p, n, b)
        PROVE  TransferInv'
    <2> DEFINE s == [phase |-> "asked", name |-> n, left |-> b, all |-> b]
               m == [panel |-> p, fn |-> "SingleFile"]
    <2>1. <<"page.xma">> \in Seq(Byte) /\ <<>> \in Seq(Byte)
      <3>1. "page.xma" \in Byte
        BY DEF Byte, AllNames
      <3>2. <<>> \in Seq(Byte)
        OBVIOUS
      <3>3. QED
        BY <3>1, <3>2
    <2>2. b \in Seq(Byte)
      BY <1>27, <2>1, FileConstants DEF ContentsOf
    <2>3. p \in Panels /\ s \in Session /\ s.phase = "asked" /\ s.left = s.all
          /\ s.name \in Names
      BY <1>27, FileConstants, IdleSession, <2>2 DEF Session, Phase, Idle
    <2>4. m \in PanelMsg /\ m.panel = p /\ m.fn = "SingleFile"
      BY <1>27, <2>3 DEF PanelMsg, IsRequest
    <2>5. Begins(p, m, s)
      BY <1>27 DEF MasterWrites
    <2>6. session'[p] = s
      BY <2>3, <2>5 DEF Begins, TransferInv, TypeInv, TypeOK
    <2> HIDE DEF s, m
    <2>7. PanelFits(p)'
      BY <1>27, <2>3, <2>6 DEF PanelFits
    <2>8. IsRequest(m) => RequestFits(m)'
      BY <1>27, <2>3, <2>4, <2>6 DEF RequestFits
    <2>9. QED
      BY <2>3, <2>4, <2>5, <2>7, <2>8, BeginStep
  <1>28. ASSUME NEW p \in Downloaders, NEW n \in Names,
               MasterReads(p, n)
        PROVE  TransferInv'
    <2> DEFINE s == [Idle EXCEPT !.phase = "token", !.name = n]
               m == [name |-> n, panel |-> p, fn |-> "GetFileAccessToken"]
    <2>1. p \in Panels /\ s \in Session /\ s.phase = "token" /\ s.all = <<>>
      BY <1>28, FileConstants, IdleSession DEF Session, Phase, Idle
    <2>2. m \in PanelMsg /\ m.panel = p /\ m.fn = "GetFileAccessToken"
      BY <1>28, <2>1 DEF PanelMsg, IsRequest
    <2>3. Begins(p, m, s)
      BY <1>28 DEF MasterReads
    <2>4. session'[p] = s
      BY <2>1, <2>3 DEF Begins, TransferInv, TypeInv, TypeOK
    <2> HIDE DEF s, m
    <2>5. PanelFits(p)'
      BY <1>28, <2>1, <2>4 DEF PanelFits
    <2>6. IsRequest(m) => RequestFits(m)'
      BY <1>28, <2>1, <2>2, <2>4 DEF RequestFits
    <2>7. QED
      BY <2>1, <2>2, <2>3, <2>5, <2>6, BeginStep
  <1>29. ASSUME NEW p \in Listers, NEW d \in Dirs,
               MasterLists(p, d)
        PROVE  TransferInv'
    <2> DEFINE s == [Idle EXCEPT !.phase = "listing"]
               m == [panel |-> p, fn |-> "DirGet", dir |-> d]
    <2>1. p \in Panels /\ s \in Session /\ s.phase = "listing"
      BY <1>29, FileConstants, IdleSession DEF Session, Phase, Idle
    <2>2. m \in PanelMsg /\ m.panel = p /\ ~IsRequest(m)
      BY <1>29, <2>1 DEF PanelMsg, IsRequest
    <2>3. Begins(p, m, s)
      BY <1>29 DEF MasterLists
    <2>4. session'[p] = s
      BY <2>1, <2>3 DEF Begins, TransferInv, TypeInv, TypeOK
    <2> HIDE DEF s, m
    <2>5. PanelFits(p)'
      BY <1>29, <2>1, <2>4 DEF PanelFits
    <2>6. IsRequest(m) => RequestFits(m)'
      BY <1>29, <2>1, <2>2, <2>4 DEF RequestFits
    <2>7. QED
      BY <2>1, <2>2, <2>3, <2>5, <2>6, BeginStep
  <1>30. ASSUME NEW p \in Uploaders, NEW d \in Dirs,
               MasterTells(p, [panel |-> p, fn |-> "DirCreate", dir |-> d])
        PROVE  TransferInv'
    <2> DEFINE s == [Idle EXCEPT !.phase = "waiting"]
               m == [panel |-> p, fn |-> "DirCreate", dir |-> d]
    <2>1. p \in Panels /\ s \in Session /\ s.phase = "waiting"
      BY <1>30, FileConstants, IdleSession DEF Session, Phase, Idle
    <2>2. m \in PanelMsg /\ m.panel = p /\ m.fn = "DirCreate"
      BY <1>30, <2>1 DEF PanelMsg, IsRequest
    <2>3. Begins(p, m, s)
      BY <1>30 DEF MasterTells
    <2>4. session'[p] = s
      BY <2>1, <2>3 DEF Begins, TransferInv, TypeInv, TypeOK
    <2> HIDE DEF s, m
    <2>5. PanelFits(p)'
      BY <1>30, <2>1, <2>4 DEF PanelFits
    <2>6. IsRequest(m) => RequestFits(m)'
      BY <1>30, <2>1, <2>2, <2>4 DEF RequestFits
    <2>7. QED
      BY <2>1, <2>2, <2>3, <2>5, <2>6, BeginStep
  <1>31. ASSUME NEW p \in Listers,
               NEW fn \in {"FileRemove", "FirmwareType", "GetFileAccessTokenAck"},
               MasterTells(p, [panel |-> p, fn |-> fn])
        PROVE  TransferInv'
    <2> DEFINE s == [Idle EXCEPT !.phase = "waiting"]
               m == [panel |-> p, fn |-> fn]
    <2>1. p \in Panels /\ s \in Session /\ s.phase = "waiting"
      BY <1>31, FileConstants, IdleSession DEF Session, Phase, Idle
    <2>2. m \in PanelMsg /\ m.panel = p /\ m.fn = fn
      BY <1>31, <2>1 DEF PanelMsg, IsRequest
    <2>3. Begins(p, m, s)
      BY <1>31 DEF MasterTells
    <2>4. session'[p] = s
      BY <2>1, <2>3 DEF Begins, TransferInv, TypeInv, TypeOK
    <2> HIDE DEF s, m
    <2>5. PanelFits(p)'
      BY <1>31, <2>1, <2>4 DEF PanelFits
    <2>6. IsRequest(m) => RequestFits(m)'
      BY <1>31, <2>1, <2>2, <2>4 DEF RequestFits
    <2>7. QED
      BY <2>1, <2>2, <2>3, <2>5, <2>6, BeginStep
  <1>32. ASSUME NEW p \in Listers, NEW fn \in {"FilesInitialize", "Nak"},
               MasterNotifies(p, [panel |-> p, fn |-> fn])
        PROVE  TransferInv'
    <2> DEFINE s == Idle
               m == [panel |-> p, fn |-> fn]
    <2>1. p \in Panels /\ s \in Session /\ s.phase = "idle"
      BY <1>32, FileConstants, IdleSession DEF Session, Phase, Idle
    <2>2. m \in PanelMsg /\ m.panel = p /\ ~IsRequest(m)
      BY <1>32, <2>1 DEF PanelMsg, IsRequest
    <2>3. Begins(p, m, s)
      BY <1>32 DEF MasterNotifies
    <2>4. session'[p] = s
      BY <2>1, <2>3 DEF Begins, TransferInv, TypeInv, TypeOK
    <2> HIDE DEF s, m
    <2>5. PanelFits(p)'
      BY <1>32, <2>1, <2>4 DEF PanelFits
    <2>6. IsRequest(m) => RequestFits(m)'
      BY <1>32, <2>1, <2>2, <2>4 DEF RequestFits
    <2>7. QED
      BY <2>1, <2>2, <2>3, <2>5, <2>6, BeginStep
  <1>33. CASE Disconnect
    <2>1. toPanel' = <<>> /\ toMaster' = <<>> /\ \A p \in Panels : session'[p] = Idle
      BY <1>33 DEF Disconnect
    <2>2. OneOut(toPanel, toMaster)' /\ RequestsFit' /\ AnswersFit'
      BY <2>1 DEF OneOut, RequestsFit, AnswersFit
    <2>3. \A p \in Panels : PanelFits(p)'
      BY <2>1, IdleSession DEF PanelFits
    <2>4. QED
      BY <2>2, <2>3 DEF TransferInv
  <1>34. CASE Reconnect
    <2>1. toPanel' = toPanel /\ toMaster' = toMaster
      BY <1>34 DEF Reconnect
    <2>2. \A p \in Panels : Frame(p)
      BY <1>34, Still DEF Reconnect, panelVars
    <2>3. LeftOf(toPanel', toMaster')
      BY <2>1 DEF LeftOf
    <2>4. QED
      BY <2>2, <2>3, QuietStep
  <1>35. CASE UNCHANGED vars
    <2>1. toPanel' = toPanel /\ toMaster' = toMaster
      BY <1>35 DEF vars
    <2>2. \A p \in Panels : Frame(p)
      BY <1>35, Still DEF vars
    <2>3. LeftOf(toPanel', toMaster')
      BY <2>1 DEF LeftOf
    <2>4. QED
      BY <2>2, <2>3, QuietStep
  <1>36. QED
    BY <1>1, <1>2, <1>3, <1>4, <1>5, <1>6, <1>7, <1>8, <1>9, <1>10, <1>11, <1>12,
       <1>13, <1>14, <1>15, <1>16, <1>17, <1>18, <1>19, <1>20, <1>21, <1>22, <1>23,
       <1>24, <1>25, <1>26, <1>27, <1>28, <1>29, <1>30, <1>31, <1>32, <1>33, <1>34,
       <1>35
       DEF Next, ProcessMessage, Listing, MasterAnswers, MasterBegins

\* The invariant at the start.
LEMMA TransferInit ==
    ASSUME Init
    PROVE  TransferInv
  <1>1. TypeInv
    BY TypeInit
  <1>2. OneOut(toPanel, toMaster) /\ RequestsFit /\ AnswersFit
    BY DEF Init, OneOut, RequestsFit, AnswersFit
  <1>3. \A p \in Panels : PanelFits(p)
    BY IdleSession DEF Init, PanelFits
  <1>4. QED
    BY <1>1, <1>2, <1>3 DEF TransferInv

\* The invariant holds.
LEMMA TransferInvariance == OneUploader /\ OneDownloader /\ Spec => []TransferInv
  <1> SUFFICES ASSUME OneUploader, OneDownloader PROVE Spec => []TransferInv
    OBVIOUS
  <1>1. Init => TransferInv
    BY TransferInit
  <1>2. TransferInv /\ [Next]_vars => TransferInv'
    BY TransferStep
  <1>3. QED
    BY <1>1, <1>2, PTL DEF Spec

\* What begins a file is a prefix of it.
LEMMA Prefix ==
    ASSUME NEW b \in Seq(Byte), NEW r \in Seq(Byte), NEW g, b \o r = g
    PROVE  IsPrefix(b, g)
  <1>1. PICK n \in Nat, k \in Nat : n = Len(b) /\ k = Len(r)
    OBVIOUS
  <1>2. g \in Seq(Byte) /\ Len(g) = n + k
    BY <1>1, ConcatProperties
  <1>3. \A i \in 1 .. Len(b) + Len(r) : (b \o r)[i] = IF i <= Len(b) THEN b[i]
                                                      ELSE r[i - Len(b)]
    BY ConcatProperties
  <1>4. \A i \in 1 .. n : i \in 1 .. n + k /\ i <= n
    OBVIOUS
  <1>5. g \in Seq(Byte) /\ Len(g) = n + k /\ \A i \in 1 .. n : g[i] = b[i]
    BY <1>1, <1>2, <1>3, <1>4
  <1>6. Len(b) <= Len(g)
    BY <1>1, <1>5
  <1>7. \A i \in 1 .. n : b[i] \in Byte /\ g[i] \in Byte
    BY <1>1, <1>5
  <1>8. /\ SubSeq(g, 1, n) \in Seq(Byte) /\ SubSeq(b, 1, n) \in Seq(Byte)
        /\ Len(SubSeq(g, 1, n)) = n /\ Len(SubSeq(b, 1, n)) = n
        /\ \A i \in 1 .. n : SubSeq(g, 1, n)[i] = SubSeq(b, 1, n)[i]
    BY <1>1, <1>5, <1>7, SubSeqProperties
  <1>9. SubSeq(b, 1, n) = SubSeq(g, 1, n)
    BY <1>8, SeqEqual
  <1>10. QED
    BY <1>1, <1>6, <1>9 DEF IsPrefix

\* With one panel the master writes to and one it reads from, which may be the same
\* (a panel has a FileManager of its own in the proxy): whatever broke off before and
\* is read meanwhile, a file is on the disk, whole, when its transfer is acknowledged.
THEOREM UploadsAreStored == OneUploader /\ OneDownloader /\ Spec => []UploadStored
  <1>1. TransferInv => UploadStored
    <2> SUFFICES ASSUME TransferInv, NEW p \in Uploaders, session[p].phase = "closing",
                        UnderWay("FileDataCompleteAck", p) # {},
                        Writes(session[p].name, session[p].all)
                 PROVE  disk[session[p].name] = Written(session[p].name, session[p].all)
      BY DEF UploadStored
    <2>1. toMaster \in Seq(MasterMsg)
      BY DEF TransferInv, TypeInv, TypeOK
    <2>2. PICK i \in DOMAIN toMaster :
             toMaster[i].fn = "FileDataCompleteAck" /\ toMaster[i].panel = p
      BY DEF UnderWay
    <2>3. i \in 1 .. Len(toMaster) /\ IsAnswer(toMaster[i])
      BY <2>1, <2>2 DEF IsAnswer
    <2>4. AnswerFits(toMaster[i])
      BY <2>3 DEF TransferInv, AnswersFit
    <2>5. Stored(session[p].name, session[p].all)
      BY <2>2, <2>4 DEF AnswerFits
    <2>6. QED
      BY <2>5 DEF Stored
  <1>2. QED
    BY <1>1, TransferInvariance, PTL

\* Under the same hypotheses what the pieces deliver is the file the token was given
\* for, as it was then, for any size of the file and of a piece.
THEOREM DownloadsAreTheFile == OneUploader /\ OneDownloader /\ Spec => []DownloadIsFile
  <1>1. TransferInv => DownloadIsFile
    <2> SUFFICES ASSUME TransferInv, NEW p \in Downloaders, session[p].phase = "reading"
                 PROVE  /\ IsPrefix(session[p].all, granted[p])
                        /\ \A i \in UnderWay("FileData", p) :
                              IsPrefix(session[p].all \o toMaster[i].bytes, granted[p])
                        /\ UnderWay("FileDataComplete", p) # {} =>
                              session[p].all = granted[p]
      BY DEF DownloadIsFile
    <2>1. /\ toMaster \in Seq(MasterMsg) /\ session \in [Panels -> Session]
          /\ p \in Panels /\ session[p].all \in Seq(Byte)
      BY FileConstants DEF TransferInv, TypeInv, TypeOK, Session
    <2>2. IsPrefix(session[p].all, granted[p])
      <3>1. PICK rest \in Seq(Byte) : session[p].all \o rest = granted[p]
        BY <2>1 DEF TransferInv, PanelFits
      <3>2. QED
        BY <2>1, <3>1, Prefix
    <2>3. ASSUME NEW i \in UnderWay("FileData", p)
          PROVE  IsPrefix(session[p].all \o toMaster[i].bytes, granted[p])
      <3>1. /\ i \in 1 .. Len(toMaster) /\ toMaster[i].fn = "FileData"
            /\ toMaster[i].panel = p
        BY <2>1 DEF UnderWay
      <3>2. IsAnswer(toMaster[i])
        BY <3>1 DEF IsAnswer
      <3>3. AnswerFits(toMaster[i])
        BY <3>1, <3>2 DEF TransferInv, AnswersFit
      <3>4. /\ mBufferSend \in Seq(Byte)
            /\ (session[p].all \o toMaster[i].bytes) \o mBufferSend = granted[p]
        BY <3>1, <3>3 DEF AnswerFits, Sending
      <3>5. toMaster[i] \in MasterMsg
        BY <2>1, <3>1
      <3>6. toMaster[i].bytes \in Seq(Byte)
        BY <3>1, <3>5 DEF MasterMsg
      <3>7. session[p].all \o toMaster[i].bytes \in Seq(Byte)
        BY <2>1, <3>6, ConcatProperties
      <3>8. QED
        BY <3>4, <3>7, Prefix
    <2>4. ASSUME UnderWay("FileDataComplete", p) # {}
          PROVE  session[p].all = granted[p]
      <3>1. PICK i \in 1 .. Len(toMaster) :
               toMaster[i].fn = "FileDataComplete" /\ toMaster[i].panel = p
        BY <2>1, <2>4 DEF UnderWay
      <3>2. IsAnswer(toMaster[i])
        BY <3>1 DEF IsAnswer
      <3>3. AnswerFits(toMaster[i])
        BY <3>1, <3>2 DEF TransferInv, AnswersFit
      <3>4. QED
        BY <3>1, <3>3 DEF AnswerFits
    <2>5. QED
      BY <2>2, <2>3, <2>4
  <1>2. QED
    BY <1>1, TransferInvariance, PTL
=============================================================================
