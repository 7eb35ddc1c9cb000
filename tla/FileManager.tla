----------------------------- MODULE FileManager -----------------------------
(***************************************************************************)
(* File transfers (ICSP.Core/IO/FileManager.cs).  The master writes files  *)
(* to a panel (TransferSingleFile ... TransferFileDataComplete), reads     *)
(* files from it (TransferGetFileAccessToken ... TransferFileDataComplete) *)
(* and lists its directories.  One FileManager belongs to one ICSPManager: *)
(* its four buffer fields serve every panel (device) registered on it, of  *)
(* which the window of ICSP.Control can create several, and outlive the    *)
(* connection.                                                             *)
(*                                                                         *)
(* A message is handled in one step, answer included; only a directory     *)
(* listing awaits between its messages.  The master is external: for each  *)
(* panel it does one thing at a time and waits for the answer, as the      *)
(* message logs quoted in the source show.                                 *)
(***************************************************************************)
EXTENDS Naturals, Sequences, FiniteSets, SequencesExt

CONSTANTS Panels,
          Names,         \* the file names in use, out of AllNames
          Uploaders,     \* panels the master writes files to
          Downloaders,   \* panels the master reads files from
          Listers,       \* panels whose directories the master lists
          Contents,      \* what the master writes to files other than manifests
          JunkSizeMax,   \* bytes of a file in one message (2000 in the code)
          BaseIsCurrent, \* is BaseDirectory the process's current directory?
          ListedSize,    \* the size a manifest gives for the files it lists
          Null,
          MaxOps         \* bound: transfers, listings and disconnects begun

AllNames == {"manifest.xma", "page.xma", "logo.png", "version.xma"}
Dirs     == {"AMXPanel", "__system"}

\* A byte is one of the two magic numbers' halves, a piece of XML ("x"), a line
\* break XmlDocument.Save adds ("nl"), anything else ("j"), or, in a manifest,
\* the line of the file it names.
Byte == {"1F", "8B", "BC", "06", "x", "nl", "j"} \cup AllNames

ASSUME FileConstants ==
    /\ Names \subseteq AllNames
    /\ Uploaders \subseteq Panels /\ Downloaders \subseteq Panels
    /\ Listers \subseteq Panels
    /\ Contents \subseteq Seq(Byte)
    /\ JunkSizeMax \in Nat \ {0}
    /\ ListedSize \in Nat
    /\ BaseIsCurrent \in BOOLEAN
    /\ MaxOps \in Nat
    /\ Null \notin Seq(Byte) /\ Null \notin AllNames

VARIABLES
    disk,                 \* per name: its bytes, or Null if there is no file
    dirs,                 \* the directories that exist
    mCurrentFileNameData,
    mBufferData,          \* what has been received of the file being written
    mBufferSend,          \* what is left of the file being read
    mDictionaryFileSize,  \* the names the manifest gave a size for
    listing,              \* the continuations of DirGet handlers
    connected,
    toPanel, toMaster,
    session,              \* master: what it is doing with each panel
    granted,              \* the bytes a panel's access token was given for (history)
    ops                   \* operations begun (bound)

fileVars   == <<mCurrentFileNameData, mBufferData, mBufferSend>>
listVars   == <<mDictionaryFileSize, listing>>
diskVars   == <<disk, dirs>>
masterVars == <<session, ops>>
vars == <<diskVars, fileVars, listVars, connected, toPanel, toMaster, granted,
          masterVars>>

Phase == {"idle", "asked", "writing", "closing", "token", "reading", "listing",
          "waiting"}

UShortMax == 65535  \* ushort.MaxValue
UShort    == 0 .. UShortMax

Idle == [phase |-> "idle", name |-> Null, left |-> <<>>, all |-> <<>>]

\* What the master sends to a panel, and what it is sent.
PanelMsg ==
    [panel : Panels,
     fn : {"SingleFile", "FileDataComplete", "GetFile", "Ack", "FileRemove",
           "FirmwareType", "GetFileAccessTokenAck", "FileDataCompleteAck",
           "FilesInitialize", "Nak"}]
    \cup [name : Names, panel : Panels, fn : {"SingleFileInfo", "GetFileAccessToken"}]
    \cup [panel : Panels, fn : {"FileData"}, bytes : Seq(Byte)]
    \cup [panel : Panels, fn : {"DirGet", "DirCreate"}, dir : Dirs]

MasterMsg ==
    [panel : Panels,
     fn : {"SingleFileAck", "SingleFileInfoAck", "Ack", "FileDataCompleteAck",
           "GetFileAccessTokenAck", "Nak", "FileDataComplete", "GetFile", "DirHeader"}]
    \cup [panel : Panels, fn : {"FileData"}, bytes : Seq(Byte)]
    \cup [name : AllNames \cup {"?"}, panel : Panels, no : UShort, fn : {"DirEntry"},
          count : Nat, size : Nat]

\* A listing between two awaits: lItemNo, the entries left to send.
Continuation ==
    [left : Seq([name : AllNames \cup {"?"}, size : Nat]), panel : Panels,
     no : UShort, dir : Dirs, count : Nat, read : BOOLEAN]

Session == [phase : Phase, name : Names \cup {Null}, left : Seq(Byte), all : Seq(Byte)]

TypeOK ==
    /\ disk \in [Names -> Seq(Byte) \cup {Null}]
    /\ dirs \subseteq Dirs
    /\ mCurrentFileNameData \in Names \cup {Null}
    /\ mBufferData \in Seq(Byte) \cup {Null}
    /\ mBufferSend \in Seq(Byte) \cup {Null}
    /\ mDictionaryFileSize \subseteq AllNames
    /\ \A l \in listing : l \in Continuation
    /\ connected \in BOOLEAN
    /\ session \in [Panels -> Session]
    /\ granted \in [Panels -> Seq(Byte) \cup {Null}]
    /\ toPanel \in Seq(PanelMsg)
    /\ toMaster \in Seq(MasterMsg)
    /\ ops \in 0 .. MaxOps

Init ==
    /\ disk = [n \in Names |-> Null]
    /\ dirs \in {{}, {"AMXPanel"}}
    /\ mCurrentFileNameData = Null /\ mBufferData = Null /\ mBufferSend = Null
    /\ mDictionaryFileSize = {} /\ listing = {}
    /\ connected = TRUE
    /\ toPanel = <<>> /\ toMaster = <<>>
    /\ session = [p \in Panels |-> Idle]
    /\ granted = [p \in Panels |-> Null]
    /\ ops = 0

-----------------------------------------------------------------------------
(***************************************************************************)
(* Files.                                                                  *)
(***************************************************************************)
IsManifest(n) == n = "manifest.xma"
IsXml(n)      == n \in {"manifest.xma", "page.xma", "version.xma"}
Home(n)       == IF n = "version.xma" THEN "__system" ELSE "AMXPanel"

Junk(b) == IF Len(b) < JunkSizeMax THEN Len(b) ELSE JunkSizeMax

\* GetRange(0, lJunkSize), and what RemoveRange(0, lJunkSize) leaves.
FirstJunk(b) == SubSeq(b, 1, Junk(b))
OtherJunk(b) == SubSeq(b, Junk(b) + 1, Len(b))

MagicByte(b) == SubSeq(b, 1, 2)

\* GZip.Decompress; a damaged archive stays as it is.
Decompress(b) ==
    IF "j" \in Range(b) THEN b ELSE SubSeq(b, 3, Len(b))

\* XmlDocument.LoadXml accepts b; Save writes the same document, one line break
\* at its end whatever line breaks it had.
LoadXml(b) == b # <<>> /\ Range(b) \subseteq {"x", "nl"} /\ "x" \in Range(b)
SaveXml(b) ==
    Append([i \in 1 .. Cardinality({j \in DOMAIN b : b[j] = "x"}) |-> "x"], "nl")

\* What TransferFileDataComplete writes for the bytes b received as file n.
Written(n, b) ==
    IF ~IsXml(n) \/ IsManifest(n) \/ MagicByte(b) = <<"BC", "06">> THEN b
    ELSE LET raw == IF MagicByte(b) = <<"1F", "8B">> THEN Decompress(b) ELSE b
         IN  IF LoadXml(raw) THEN SaveXml(raw) ELSE b

\* It writes at all: XML of less than two bytes is ignored, and in a directory
\* that does not exist every write throws (caught and logged).
Writes(n, b) == Home(n) \in dirs /\ (IsXml(n) /\ ~IsManifest(n) => Len(b) >= 2)

\* Properties.Resources.System_Graphics_Version.
DefaultVersion == <<"x", "nl">>

-----------------------------------------------------------------------------
(***************************************************************************)
(* The handlers.                                                           *)
(***************************************************************************)
Msg == Head(toPanel)

Receive(fn) ==
    /\ toPanel # <<>>
    /\ Msg.fn = fn
    /\ toPanel' = Tail(toPanel)

\* mManager.SendAsync: dropped when offline.
Send(m) == toMaster' = IF connected THEN Append(toMaster, m) ELSE toMaster

Reply(fn) == Send([panel |-> Msg.panel, fn |-> fn])

TransferSingleFile ==
    /\ Receive("SingleFile")
    /\ Reply("SingleFileAck")
    /\ UNCHANGED <<diskVars, fileVars, listVars, connected, granted, masterVars>>

InfoKeepsBuffer ==
    /\ Receive("SingleFileInfo")
    /\ mCurrentFileNameData' = Msg.name
    /\ mBufferData' = IF mBufferData = Null THEN <<>> ELSE mBufferData
    /\ Reply("SingleFileInfoAck")
    /\ UNCHANGED <<diskVars, mBufferSend, listVars, connected, granted, masterVars>>

TransferSingleFileInfo ==
    /\ Receive("SingleFileInfo")
    /\ mCurrentFileNameData' = Msg.name
    /\ mBufferData' = <<>>
    /\ Reply("SingleFileInfoAck")
    /\ UNCHANGED <<diskVars, mBufferSend, listVars, connected, granted, masterVars>>

TransferFileData ==
    /\ Receive("FileData")
    /\ mBufferData' = IF mBufferData = Null THEN Null ELSE mBufferData \o Msg.bytes
    /\ Reply("Ack")
    /\ UNCHANGED <<diskVars, mCurrentFileNameData, mBufferSend, listVars, connected,
                   granted, masterVars>>

\* Acknowledged whether or not the file could be written.
TransferFileDataComplete ==
    /\ Receive("FileDataComplete")
    /\ LET n == mCurrentFileNameData IN
       disk' = IF n # Null /\ mBufferData # Null /\ Writes(n, mBufferData)
                 THEN [disk EXCEPT ![n] = Written(n, mBufferData)] ELSE disk
    /\ Reply("FileDataCompleteAck")
    /\ UNCHANGED <<dirs, fileVars, listVars, connected, granted, masterVars>>

\* The disk after "Needed by G4": version.xma is made up if it is missing.
WithVersion(n) ==
    IF n = "version.xma" /\ disk[n] = Null /\ Home(n) \in dirs
      THEN [disk EXCEPT ![n] = DefaultVersion] ELSE disk

\* The file is read as a whole; if there is none, mBufferSend keeps what it had.
TransferGetFileAccessToken ==
    LET n == Msg.name IN
    /\ Receive("GetFileAccessToken")
    /\ disk' = WithVersion(n)
    /\ granted' = [granted EXCEPT ![Msg.panel] = disk'[n]]
    /\ \/ disk'[n] = Null /\ UNCHANGED mBufferSend /\ Reply("Nak")
       \/ disk'[n] # Null /\ mBufferSend' = disk'[n] /\ Reply("GetFileAccessTokenAck")
    /\ UNCHANGED <<dirs, mCurrentFileNameData, mBufferData, listVars, connected,
                   masterVars>>

HasJunk == mBufferSend # Null /\ mBufferSend # <<>>

SendJunkKeeping ==
    /\ Send([panel |-> Msg.panel, fn |-> "FileData", bytes |-> FirstJunk(mBufferSend)])
    /\ mBufferSend' = IF Len(mBufferSend) > JunkSizeMax
                        THEN SubSeq(mBufferSend, JunkSizeMax, Len(mBufferSend)) ELSE <<>>

\* Send the next piece of mBufferSend.
SendJunk ==
    /\ Send([panel |-> Msg.panel, fn |-> "FileData", bytes |-> FirstJunk(mBufferSend)])
    /\ mBufferSend' = OtherJunk(mBufferSend)

\* An empty file is refused like a missing one.
TransferGetFile ==
    /\ Receive("GetFile")
    /\ \/ HasJunk /\ SendJunk
       \/ ~HasJunk /\ Reply("Nak") /\ UNCHANGED mBufferSend
    /\ UNCHANGED <<diskVars, mCurrentFileNameData, mBufferData, listVars, connected,
                   granted, masterVars>>

AckWithoutComplete ==
    /\ Receive("Ack")
    /\ \/ HasJunk /\ SendJunk
       \/ ~HasJunk /\ mBufferSend' = Null /\ UNCHANGED toMaster
    /\ UNCHANGED <<diskVars, mCurrentFileNameData, mBufferData, listVars, connected,
                   granted, masterVars>>

Ack ==
    /\ Receive("Ack")
    /\ \/ HasJunk /\ SendJunk
       \/ ~HasJunk /\ mBufferSend' = Null /\ Reply("FileDataComplete")
    /\ UNCHANGED <<diskVars, mCurrentFileNameData, mBufferData, listVars, connected,
                   granted, masterVars>>

\* Just an Ack: DeleteFile, which deletes nothing, and all functions of
\* FileType.Unused it does not know.
DeleteFile ==
    /\ Receive("FileRemove")
    /\ Reply("Ack")
    /\ UNCHANGED <<diskVars, fileVars, listVars, connected, granted, masterVars>>

\* A file type that is not supported.
InvalidFileType ==
    /\ Receive("FirmwareType")
    /\ Reply("Nak")
    /\ UNCHANGED <<diskVars, fileVars, listVars, connected, granted, masterVars>>

\* The master would let the panel read a file of its own.
TransferGetFileAccessTokenAck ==
    /\ Receive("GetFileAccessTokenAck")
    /\ Reply("GetFile")
    /\ UNCHANGED <<diskVars, fileVars, listVars, connected, granted, masterVars>>

\* An event and no answer.  A Nak does not end a transfer: mBufferSend stays.
NotAnswered ==
    /\ \/ Receive("FileDataCompleteAck")
       \/ Receive("FilesInitialize")
       \/ Receive("Nak")
    /\ UNCHANGED <<diskVars, fileVars, listVars, connected, toMaster, granted,
                   masterVars>>

CreateDirectory ==
    /\ Receive("DirCreate")
    /\ \/ Msg.dir \in dirs /\ Reply("Nak") /\ UNCHANGED dirs
       \/ Msg.dir \notin dirs /\ dirs' = dirs \cup {Msg.dir} /\ Reply("Ack")
    /\ UNCHANGED <<disk, fileVars, listVars, connected, granted, masterVars>>

\* ReadFileSizeFromManifest: "AMXPanel/manifest.xma" is looked for in the
\* current directory, not in BaseDirectory.
ReadFileSizeFromManifest ==
    IF BaseIsCurrent /\ "manifest.xma" \in Names /\ disk["manifest.xma"] # Null
      THEN Range(disk["manifest.xma"]) \cap AllNames ELSE {}

\* GetDirectoryInfoAsync up to its first await: the header is sent, also for a
\* directory that does not exist.
GetDirectoryInfo ==
    /\ Receive("DirGet")
    /\ mDictionaryFileSize' = IF Msg.dir = "AMXPanel" THEN ReadFileSizeFromManifest
                               ELSE mDictionaryFileSize
    /\ listing' = listing \cup {[left |-> <<>>, panel |-> Msg.panel, no |-> 0,
                                 dir |-> Msg.dir, count |-> 0, read |-> FALSE]}
    /\ Reply("DirHeader")
    /\ UNCHANGED <<diskVars, fileVars, connected, granted, masterVars>>

\* The files of directory d.  (The entry of a subdirectory, sent like that of a
\* file, is left out: the directories of the model have none.)
FilesOf(d) == SetToSeq({n \in Names : disk[n] # Null /\ Home(n) = d})

FileSize(n) ==
    IF IsXml(n) /\ n \in mDictionaryFileSize THEN ListedSize ELSE Len(disk[n])

\* The entries of directory d, before the one an empty directory is given.
Items(d) ==
    LET files == FilesOf(d) IN
    [i \in DOMAIN files |-> [name |-> files[i], size |-> FileSize(files[i])]]

\* The directory is read; one that does not exist throws, and no entry is sent.
\* An empty one has the entry "?"; lItemNo starts at (ushort)-1 for it.
Read(l) ==
    [l EXCEPT !.read = TRUE, !.count = Len(Items(l.dir)),
              !.no = IF Items(l.dir) = <<>> THEN UShortMax ELSE 0,
              !.left = IF Items(l.dir) = <<>> THEN <<[name |-> "?", size |-> 0]>>
                       ELSE Items(l.dir)]

ReadDirectory(l) ==
    /\ l \in listing /\ ~l.read
    /\ listing' = (listing \ {l}) \cup IF l.dir \in dirs THEN {Read(l)} ELSE {}
    /\ UNCHANGED <<diskVars, fileVars, mDictionaryFileSize, connected, toPanel,
                   toMaster, granted, masterVars>>

NextItemNoUnwrapped(no) == no + 1

NextItemNoKept(no) == no

\* lItemNo++, a ushort.
NextItemNo(no) == (no + 1) % (UShortMax + 1)

\* One DirEntry, then an await.
SendEntry(l) ==
    LET item == Head(l.left)
        next == [l EXCEPT !.left = Tail(@), !.no = NextItemNo(@)]
    IN
    /\ l \in listing /\ l.read
    /\ Send([name |-> item.name, panel |-> l.panel, no |-> next.no,
             fn |-> "DirEntry", count |-> l.count, size |-> item.size])
    /\ listing' = (listing \ {l}) \cup IF next.left = <<>> THEN {} ELSE {next}
    /\ UNCHANGED <<diskVars, fileVars, mDictionaryFileSize, connected, toPanel,
                   granted, masterVars>>

-----------------------------------------------------------------------------
(***************************************************************************)
(* The master and the connection.                                          *)
(***************************************************************************)
panelVars == <<diskVars, fileVars, listVars, granted>>

\* The master begins something with an idle panel.
Begins(p, m, s) ==
    /\ ops < MaxOps /\ ops' = ops + 1
    /\ connected
    /\ session[p].phase = "idle"
    /\ session' = [session EXCEPT ![p] = s]
    /\ toPanel' = Append(toPanel, m)
    /\ UNCHANGED <<panelVars, connected, toMaster>>

MasterWrites(p, n, b) ==
    Begins(p, [panel |-> p, fn |-> "SingleFile"],
           [phase |-> "asked", name |-> n, left |-> b, all |-> b])

MasterReads(p, n) ==
    Begins(p, [name |-> n, panel |-> p, fn |-> "GetFileAccessToken"],
           [Idle EXCEPT !.phase = "token", !.name = n])

MasterLists(p, d) ==
    Begins(p, [panel |-> p, fn |-> "DirGet", dir |-> d], [Idle EXCEPT !.phase = "listing"])

MasterTells(p, m) == Begins(p, m, [Idle EXCEPT !.phase = "waiting"])

MasterNotifies(p, m) == Begins(p, m, Idle)

Answer == Head(toMaster)
Asking == session[Answer.panel]

\* The master takes an answer, goes on to s and sends what it says (ms).
Takes(phases, fns, s, ms) ==
    /\ toMaster # <<>>
    /\ Asking.phase \in phases /\ Answer.fn \in fns
    /\ toMaster' = Tail(toMaster)
    /\ session' = [session EXCEPT ![Answer.panel] = s]
    /\ toPanel' = toPanel \o ms
    /\ UNCHANGED <<panelVars, connected, ops>>

MasterNames ==
    Takes({"asked"}, {"SingleFileAck"}, [Asking EXCEPT !.phase = "writing"],
          <<[name |-> Asking.name, panel |-> Answer.panel, fn |-> "SingleFileInfo"]>>)

\* It sends the file in pieces of the size SingleFileInfoAck allows.
MasterSendsJunk ==
    /\ toMaster # <<>> /\ Asking.left # <<>>
    /\ Takes({"writing"}, {"SingleFileInfoAck", "Ack"},
             [Asking EXCEPT !.left = OtherJunk(@)],
             <<[panel |-> Answer.panel, fn |-> "FileData",
                bytes |-> FirstJunk(Asking.left)]>>)

MasterCompletes ==
    /\ toMaster # <<>> /\ Asking.left = <<>>
    /\ Takes({"writing"}, {"SingleFileInfoAck", "Ack"},
             [Asking EXCEPT !.phase = "closing"],
             <<[panel |-> Answer.panel, fn |-> "FileDataComplete"]>>)

MasterHasWritten == Takes({"closing"}, {"FileDataCompleteAck"}, Idle, <<>>)

MasterGets ==
    Takes({"token"}, {"GetFileAccessTokenAck"}, [Asking EXCEPT !.phase = "reading"],
          <<[panel |-> Answer.panel, fn |-> "GetFile"]>>)

MasterTakesJunk ==
    Takes({"reading"}, {"FileData"}, [Asking EXCEPT !.all = @ \o Answer.bytes],
          <<[panel |-> Answer.panel, fn |-> "Ack"]>>)

MasterHasRead ==
    Takes({"reading"}, {"FileDataComplete"}, Idle,
          <<[panel |-> Answer.panel, fn |-> "FileDataCompleteAck"]>>)

MasterIsRefused == Takes({"token", "reading"}, {"Nak"}, Idle, <<>>)

\* The last entry of a listing carries its number as the count.
MasterTakesEntry ==
    Takes({"listing"}, {"DirHeader", "DirEntry"},
          IF Answer.fn = "DirEntry" /\ Answer.no = Answer.count THEN Idle ELSE Asking,
          <<>>)

MasterIsAnswered == Takes({"waiting"}, {"Ack", "Nak", "GetFile"}, Idle, <<>>)

\* The master has no use for it: a listing begun before the connection was lost
\* goes on after it is back, and may end the next listing in its place.
MasterIgnores == Takes(Phase \ {"listing"}, {"DirHeader", "DirEntry"}, Asking, <<>>)

\* The connection is lost with all that is under way; the FileManager is not told.
Disconnect ==
    /\ ops < MaxOps /\ ops' = ops + 1
    /\ connected' = FALSE
    /\ connected
    /\ toPanel' = <<>> /\ toMaster' = <<>>
    /\ session' = [p \in Panels |-> Idle]
    /\ UNCHANGED panelVars

Reconnect ==
    /\ ~connected
    /\ connected' = TRUE
    /\ UNCHANGED <<panelVars, toPanel, toMaster, masterVars>>

-----------------------------------------------------------------------------
ProcessMessage ==
    \/ TransferSingleFile \/ TransferSingleFileInfo \/ TransferFileData
    \/ TransferFileDataComplete \/ TransferGetFileAccessToken \/ TransferGetFile
    \/ Ack \/ DeleteFile \/ InvalidFileType \/ TransferGetFileAccessTokenAck
    \/ NotAnswered \/ CreateDirectory \/ GetDirectoryInfo

Listing == \E l \in listing : ReadDirectory(l) \/ SendEntry(l)

MasterAnswers ==
    \/ MasterNames \/ MasterSendsJunk \/ MasterCompletes \/ MasterHasWritten
    \/ MasterGets \/ MasterTakesJunk \/ MasterHasRead \/ MasterIsRefused
    \/ MasterTakesEntry \/ MasterIsAnswered \/ MasterIgnores

\* What the master may write as file n: a manifest lists the XML files, or is empty
\* and stored like that.
ContentsOf(n) == IF IsManifest(n) THEN {<<>>, <<"page.xma">>} ELSE Contents

MasterBegins ==
    \/ \E p \in Uploaders, n \in Names : \E b \in ContentsOf(n) : MasterWrites(p, n, b)
    \/ \E p \in Downloaders, n \in Names : MasterReads(p, n)
    \/ \E p \in Listers, d \in Dirs : MasterLists(p, d)
    \/ \E p \in Uploaders, d \in Dirs :
          MasterTells(p, [panel |-> p, fn |-> "DirCreate", dir |-> d])
    \/ \E p \in Listers, fn \in {"FileRemove", "FirmwareType", "GetFileAccessTokenAck"} :
          MasterTells(p, [panel |-> p, fn |-> fn])
    \/ \E p \in Listers, fn \in {"FilesInitialize", "Nak"} :
          MasterNotifies(p, [panel |-> p, fn |-> fn])

Next == ProcessMessage \/ Listing \/ MasterAnswers \/ MasterBegins
        \/ Disconnect \/ Reconnect

Spec == Init /\ [][Next]_vars

\* Messages are handled, continuations run, and the master goes on.
FairSpec ==
    /\ Spec
    /\ WF_vars(ProcessMessage) /\ WF_vars(Listing) /\ WF_vars(MasterAnswers)

-----------------------------------------------------------------------------
(***************************************************************************)
(* Properties.                                                             *)
(***************************************************************************)

\* The answers of kind fn under way to the master for panel p.
UnderWay(fn, p) ==
    {i \in DOMAIN toMaster : toMaster[i].fn = fn /\ toMaster[i].panel = p}

\* A file whose transfer has been acknowledged is on the disk, whole, in the form
\* TransferFileDataComplete gives it: no piece of an earlier transfer that broke
\* off, and nothing that was read from the panel meanwhile, gets into it.
UploadStored ==
    \A p \in Uploaders :
        session[p].phase = "closing" /\ UnderWay("FileDataCompleteAck", p) # {} =>
            LET s == session[p] IN
            Writes(s.name, s.all) => disk[s.name] = Written(s.name, s.all)

\* "Get Access Token for Get File": what TransferGetFile and the Acks after it
\* deliver is the file the token was given for, as it was then: what the master has,
\* with and without the piece under way, is a prefix of it and, at
\* TransferFileDataComplete, the whole.
DownloadIsFile ==
    \A p \in Downloaders :
        session[p].phase = "reading" =>
            LET all == session[p].all IN
            /\ IsPrefix(all, granted[p])
            /\ \A i \in UnderWay("FileData", p) :
                  IsPrefix(all \o toMaster[i].bytes, granted[p])
            /\ UnderWay("FileDataComplete", p) # {} => all = granted[p]

\* The master sees the end of the listing of a directory that could be read, an
\* empty one too: its single entry is numbered 0 of 0.
ListingEnds ==
    \A p \in Panels :
        session[p].phase = "listing" /\ (\E l \in listing : l.panel = p /\ l.read)
            ~> session[p].phase = "idle"

\* A transfer that was begun comes to its end, whatever the file's length.
TransferEnds ==
    \A p \in Panels :
        session[p].phase \in {"asked", "writing", "closing", "token", "reading"}
            ~> session[p].phase = "idle"
=============================================================================
