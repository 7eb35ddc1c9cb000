--------------------------- MODULE IcspWireProofs ---------------------------
(***************************************************************************)
(* Where one thread runs everything, or nothing is encrypted, the shared   *)
(* RC4 provider serves every call as if it had a key of its own: IcspWire  *)
(* implements CipherPerCall, for any threads, byte width, key, salts and   *)
(* messages.                                                               *)
(***************************************************************************)
EXTENDS IcspWire, TLAPS

\* The sessions of the window, and those of the proxy that are not encrypted.
NoOverlap == \A s \in Sessions : s[1] \/ ~s[2]

Resting == {"idle", "read", "ended"}
InCall  == {"encrypt", "decrypt"}

\* The session is one of them; pc and block are defined for the threads.
SessionInv ==
    /\ uiThread \in BOOLEAN /\ encrypted \in BOOLEAN
    /\ encrypted => uiThread
    /\ pc = [t \in Threads |-> pc[t]]
    /\ block = [t \in Threads |-> block[t]]

\* On the UI thread one thread at a time is between two awaits.
TurnInv ==
    uiThread => \A t, u \in Threads : t # u => pc[t] \in Resting \/ pc[u] \in Resting

\* A thread in TransformBlock is encrypting or decrypting, in an encrypted session.
CallInv ==
    \A t \in Threads :
        /\ block[t].busy \in BOOLEAN
        /\ block[t].busy => encrypted /\ pc[t] \in InCall
        /\ ~block[t].busy => block[t] = NoBlock

\* Between calls the provider holds the scheduled key.
KeyInv == (\A t \in Threads : ~block[t].busy) => KeyValue = mKeyValueLast

IInv == SessionInv /\ TurnInv /\ CallInv /\ KeyInv

-----------------------------------------------------------------------------
\* The two sides of a thread's turn: the thread and the provider.
LEMMA ThreadIsReader == Reader \in Threads /\ Senders \subseteq Threads
  BY WireConstants

\* A step of Next changes the program counter of at most one thread, and on the UI
\* thread lets it leave an await only if no other is between two.
PcStep(t) ==
    /\ t \in Threads
    /\ \E label \in PC : pc' = [pc EXCEPT ![t] = label]
    /\ pc[t] \in Resting => MayRun(t)

\* What a step of Next may do to the provider.
Rc4Step(t) ==
    \/ /\ \E data, salt : BeginBlock(t, data, salt)
       /\ encrypted /\ pc[t] \notin Resting /\ pc'[t] \in InCall
    \/ TransformByte(t) /\ UNCHANGED pc
    \/ EndBlock(t)
    \/ UNCHANGED rc4Vars /\ (pc[t] \notin InCall \/ UNCHANGED pc)

\* Every step of Next is a step of one thread on the provider, in its turn.
LEMMA StepShape ==
    ASSUME IInv, Next
    PROVE  /\ UNCHANGED <<uiThread, encrypted>>
           /\ \E t \in Threads : /\ PcStep(t) \/ UNCHANGED pc
                                 /\ Rc4Step(t)
  <1> USE ThreadIsReader DEF IInv, SessionInv, PcStep, Rc4Step, Goto, PC, Resting, InCall
  <1>1. ASSUME NEW t \in Senders, LoadMsgId(t)
        PROVE  UNCHANGED <<uiThread, encrypted>> /\ PcStep(t) /\ Rc4Step(t)
    BY <1>1 DEF LoadMsgId
  <1>2. ASSUME NEW t \in Senders, NEW data \in Payloads, Serialize(t, data)
        PROVE  UNCHANGED <<uiThread, encrypted>> /\ PcStep(t) /\ Rc4Step(t)
    BY <1>2 DEF Serialize
  <1>3. ASSUME NEW t \in Senders, SendPlain(t)
        PROVE  UNCHANGED <<uiThread, encrypted>> /\ PcStep(t) /\ Rc4Step(t)
    BY <1>3 DEF SendPlain, Write
  <1>4. ASSUME NEW t \in Senders, NEW salt \in Salts, SendEncrypted(t, salt)
        PROVE  UNCHANGED <<uiThread, encrypted>> /\ PcStep(t) /\ Rc4Step(t)
    <2>1. pc'[t] = "encrypt"
      BY <1>4 DEF SendEncrypted
    <2>2. QED
      BY <1>4, <2>1 DEF SendEncrypted
  <1>5. ASSUME NEW t \in Threads, Transform(t)
        PROVE  UNCHANGED <<uiThread, encrypted, pc>> /\ Rc4Step(t)
    BY <1>5 DEF Transform
  <1>6. ASSUME NEW t \in Senders, WriteEncrypted(t)
        PROVE  UNCHANGED <<uiThread, encrypted>> /\ PcStep(t) /\ Rc4Step(t)
    BY <1>6 DEF WriteEncrypted, Write
  <1>7. ASSUME NEW n \in 1 .. Len(stream), ReadAsync(n)
        PROVE  UNCHANGED <<uiThread, encrypted>> /\ PcStep(Reader) /\ Rc4Step(Reader)
    BY <1>7 DEF ReadAsync
  <1>8. ASSUME AwaitMore
        PROVE  UNCHANGED <<uiThread, encrypted>> /\ PcStep(Reader) /\ Rc4Step(Reader)
    BY <1>8 DEF AwaitMore
  <1>9. ASSUME PlainPacket
        PROVE  UNCHANGED <<uiThread, encrypted>> /\ PcStep(Reader) /\ Rc4Step(Reader)
    BY <1>9 DEF PlainPacket, HandOn
  <1>10. ASSUME EncryptedPacket
         PROVE  /\ UNCHANGED <<uiThread, encrypted>>
                /\ PcStep(Reader) \/ UNCHANGED pc
                /\ Rc4Step(Reader)
    <2>1. CASE encrypted
      <3>1. pc'[Reader] = "decrypt" /\ pc[Reader] = "parse"
        BY <1>10, <2>1 DEF EncryptedPacket
      <3>2. QED
        BY <1>10, <2>1, <3>1 DEF EncryptedPacket
    <2>2. CASE ~encrypted
      BY <1>10, <2>2 DEF EncryptedPacket
    <2>3. QED
      BY <2>1, <2>2
  <1>11. ASSUME Decrypted
         PROVE  UNCHANGED <<uiThread, encrypted>> /\ PcStep(Reader) /\ Rc4Step(Reader)
    BY <1>11 DEF Decrypted, HandOn
  <1>12. ASSUME NEW data \in Payloads, MasterSends(data)
         PROVE  UNCHANGED <<uiThread, encrypted, pc>> /\ Rc4Step(Reader)
    BY <1>12 DEF MasterSends
  <1>13. QED
    BY <1>1, <1>2, <1>3, <1>4, <1>5, <1>6, <1>7, <1>8, <1>9, <1>10, <1>11, <1>12
       DEF Next, Sender, ReadLoop

-----------------------------------------------------------------------------
\* Initially nobody calls and the key is fresh.
LEMMA InitInv ==
    ASSUME NoOverlap, Init
    PROVE  IInv
  <1> USE WireConstants DEF Init, Rc4Init
  <1>1. SessionInv
    <2>1. PICK s \in Sessions : uiThread = s[1] /\ encrypted = s[2]
      OBVIOUS
    <2>2. s \in BOOLEAN \X BOOLEAN /\ (s[1] \/ ~s[2])
      BY DEF NoOverlap
    <2>3. uiThread \in BOOLEAN /\ encrypted \in BOOLEAN /\ (encrypted => uiThread)
      BY <2>1, <2>2
    <2>4. QED
      BY <2>3 DEF SessionInv
  <1>2. TurnInv
    BY DEF TurnInv, Resting
  <1>3. CallInv
    BY DEF CallInv, NoBlock
  <1>4. KeyInv
    BY DEF KeyInv
  <1>5. QED
    BY <1>1, <1>2, <1>3, <1>4 DEF IInv

\* When a thread calls TransformBlock no other thread is inside it, so the key it
\* salts is the scheduled one.
LEMMA FreshKey ==
    ASSUME IInv, NEW t \in Threads, encrypted, pc[t] \notin Resting
    PROVE  \A u \in Threads \ {t} : ~block[u].busy
  BY DEF IInv, SessionInv, TurnInv, CallInv, InCall, Resting

\* Where a call is under way, it is the only one.
LEMMA OneCall ==
    ASSUME IInv, NEW t \in Threads, block[t].busy
    PROVE  \A u \in Threads \ {t} : ~block[u].busy
  BY FreshKey DEF IInv, CallInv, InCall, Resting

\* Each part of the invariant is preserved by every step.
LEMMA StepInv ==
    ASSUME IInv, [Next]_vars
    PROVE  IInv'
  <1>1. CASE UNCHANGED vars
    BY <1>1 DEF vars, rc4Vars, IInv, SessionInv, TurnInv, CallInv, KeyInv
  <1>2. CASE Next
    <2>1. UNCHANGED <<uiThread, encrypted>>
      BY <1>2, StepShape
    <2>2. PICK t \in Threads : (PcStep(t) \/ UNCHANGED pc) /\ Rc4Step(t)
      BY <1>2, StepShape
    <2>3. block' = [u \in Threads |-> block'[u]]
          /\ \A u \in Threads \ {t} : block'[u] = block[u]
      BY <2>2 DEF Rc4Step, BeginBlock, TransformByte, EndBlock, rc4Vars, IInv, SessionInv
    <2>4. pc' = [u \in Threads |-> pc'[u]]
          /\ \A u \in Threads \ {t} : pc'[u] = pc[u]
      BY <2>2 DEF PcStep, IInv, SessionInv
    <2>5. SessionInv'
      BY <2>1, <2>3, <2>4 DEF IInv, SessionInv
    <2>6. TurnInv'
      <3>1. CASE UNCHANGED pc
        BY <2>1, <3>1 DEF IInv, TurnInv
      <3>2. CASE PcStep(t)
        <4>1. uiThread /\ pc'[t] \notin Resting =>
                 \A u \in Threads \ {t} : pc[u] \in Resting
          BY <3>2 DEF PcStep, MayRun, IInv, TurnInv, Resting
        <4>2. QED
          BY <2>1, <2>4, <4>1 DEF IInv, TurnInv
      <3>3. QED
        BY <2>2, <3>1, <3>2
    <2>7. CallInv' /\ KeyInv'
      <3>1. CASE /\ \E data, salt : BeginBlock(t, data, salt)
                 /\ encrypted /\ pc[t] \notin Resting /\ pc'[t] \in InCall
        <4>1. block'[t].busy = TRUE
          BY <3>1 DEF BeginBlock, IInv, SessionInv
        <4>2. \A u \in Threads \ {t} : ~block[u].busy
          BY <3>1, FreshKey
        <4>3. QED
          BY <2>1, <2>3, <2>4, <3>1, <4>1, <4>2 DEF IInv, CallInv, KeyInv, NoBlock
      <3>2. CASE TransformByte(t) /\ UNCHANGED pc
        <4>1. block[t].busy /\ block'[t].busy = TRUE
          BY <3>2 DEF TransformByte, IInv, SessionInv
        <4>2. QED
          BY <2>1, <2>3, <3>2, <4>1 DEF IInv, CallInv, KeyInv, NoBlock
      <3>3. CASE EndBlock(t)
        <4>1. block'[t] = NoBlock /\ KeyValue' = mKeyValueLast /\ block[t].busy
          BY <3>3 DEF EndBlock, IInv, SessionInv
        <4>2. \A u \in Threads \ {t} : ~block[u].busy
          BY <4>1, OneCall
        <4>3. \A u \in Threads : ~block'[u].busy /\ block'[u] = NoBlock
          BY <2>3, <4>1, <4>2 DEF IInv, CallInv, NoBlock
        <4>4. \A u \in Threads : block'[u].busy = FALSE
          BY <4>3 DEF NoBlock
        <4>5. QED
          BY <4>1, <4>3, <4>4 DEF CallInv, KeyInv
      <3>4. CASE UNCHANGED rc4Vars /\ (pc[t] \notin InCall \/ UNCHANGED pc)
        BY <2>1, <2>2, <2>4, <3>4 DEF IInv, CallInv, KeyInv, rc4Vars
      <3>5. QED
        BY <2>2, <3>1, <3>2, <3>3, <3>4 DEF Rc4Step
    <2>8. QED
      BY <2>5, <2>6, <2>7 DEF IInv
  <1>3. QED
    BY <1>1, <1>2

-----------------------------------------------------------------------------
\* The refinement mapping, as the instance of CipherPerCall sees it.
call == [t \in Threads |-> CallOf(t)]

\* The generator of the abstract specification is the one of the provider.
LEMMA SameGenerator ==
    /\ \A b : PerCall!PRGA(b) = PRGA(b)
    /\ \A b : PerCall!Word(b) = Word(b)
    /\ \A a, b : PerCall!Xor(a, b) = Xor(a, b)
    /\ \A S, salt : PerCall!UpdatePrivateKey(S, salt) = UpdatePrivateKey(S, salt)
  BY DEF PerCall!PRGA, PRGA, PerCall!Word, Word, PerCall!Xor, Xor, PerCall!Swap, Swap,
         PerCall!UpdatePrivateKey, UpdatePrivateKey, PerCall!CharsInByte, CharsInByte,
         PerCall!Bytes, Bytes, PerCall!XorBits, XorBits, PerCall!Power2, Power2

\* A thread outside TransformBlock has no call.
LEMMA NoCallOf ==
    ASSUME NEW t \in Threads, block[t] = NoBlock
    PROVE  CallOf(t) = PerCall!NoCall
  BY DEF CallOf, NoBlock, PerCall!NoCall

\* At the start no call is under way and the key is the scheduled one.
LEMMA InitRefines == Init => PerCall!Init
  BY NoCallOf DEF Init, Rc4Init, PerCall!Init

\* TransformBlock begins: the salted key is a copy of the scheduled one.
LEMMA BeginRefines ==
    ASSUME IInv, NEW t \in Threads, NEW data, NEW salt, BeginBlock(t, data, salt),
           encrypted, pc[t] \notin Resting
    PROVE  PerCall!Begin(t)
  <1>1. \A u \in Threads \ {t} : ~block[u].busy /\ block'[u] = block[u]
    BY FreshKey DEF BeginBlock, IInv, SessionInv
  <1>2. KeyValue = mKeyValueLast
    BY <1>1 DEF BeginBlock, IInv, KeyInv
  <1>3. block'[t] = [busy |-> TRUE, salt |-> salt, data |-> data, done |-> 0]
    BY DEF BeginBlock, IInv, SessionInv
  <1>4. call'[t] = [busy |-> TRUE,
                    box |-> [S |-> UpdatePrivateKey(mKeyValueLast, salt), i |-> 0, j |-> 0],
                    salt |-> salt, data |-> data, done |-> 0]
    <2>1. block'[t].busy /\ block'[t].salt = salt /\ block'[t].data = data
          /\ block'[t].done = 0 /\ block'[t].busy = TRUE
      BY <1>3
    <2>2. Box' = [S |-> UpdatePrivateKey(mKeyValueLast, salt), i |-> 0, j |-> 0]
      BY <1>2 DEF Box, BeginBlock
    <2>3. QED
      BY <2>1, <2>2 DEF call, CallOf
  <1>5. \A u \in Threads \ {t} : call'[u] = call[u]
    BY <1>1 DEF call, CallOf
  <1>6. call'[t].salt = salt /\ call'[t].data = data
    BY <1>4
  <1>7. ~call[t].busy
    BY DEF call, CallOf, BeginBlock
  <1>8. call' = [call EXCEPT ![t] =
                  [busy |-> TRUE,
                   box |-> [S |-> PerCall!UpdatePrivateKey(mKeyValueLast, call'[t].salt),
                            i |-> 0, j |-> 0],
                   salt |-> call'[t].salt, data |-> call'[t].data, done |-> 0]]
    BY <1>4, <1>5, <1>6, SameGenerator DEF call
  <1>9. QED
    BY <1>7, <1>8 DEF PerCall!Begin, call

\* One byte: nobody else touches the box meanwhile.
LEMMA ByteRefines ==
    ASSUME IInv, NEW t \in Threads, TransformByte(t)
    PROVE  PerCall!Byte(t)
  <1>1. \A u \in Threads \ {t} : ~block[u].busy /\ block'[u] = block[u]
    BY OneCall DEF TransformByte, IInv, SessionInv
  <1>2. PICK d : d = [block[t].data EXCEPT
                        ![block[t].done + 1] = Xor(@, Word(PRGA(Box)))]
    OBVIOUS
  <1>3. block'[t] = [busy |-> TRUE, salt |-> block[t].salt, data |-> d,
                     done |-> block[t].done + 1]
    BY <1>2 DEF TransformByte, IInv, SessionInv
  <1>4. call[t] = [busy |-> block[t].busy, box |-> Box, salt |-> block[t].salt,
                   data |-> block[t].data, done |-> block[t].done]
    BY DEF call, CallOf, TransformByte
  <1>5. call'[t] = [busy |-> TRUE, box |-> PRGA(Box), salt |-> block[t].salt,
                    data |-> d, done |-> block[t].done + 1]
    <2>1. Box' = PRGA(Box)
      BY DEF TransformByte, Box, PRGA
    <2>2. block'[t].busy /\ block'[t].busy = TRUE /\ block'[t].salt = block[t].salt
          /\ block'[t].data = d /\ block'[t].done = block[t].done + 1
      BY <1>3
    <2>3. QED
      BY <2>1, <2>2 DEF call, CallOf
  <1>6. call'[t] = PerCall!NextByte(call[t])
    <2>1. call[t].box = Box /\ call[t].salt = block[t].salt
          /\ call[t].data = block[t].data /\ call[t].done = block[t].done
      BY <1>4
    <2>2. PerCall!NextByte(call[t]) =
             [busy |-> TRUE, box |-> PRGA(Box), salt |-> block[t].salt,
              data |-> d, done |-> block[t].done + 1]
      BY <1>2, <2>1, SameGenerator DEF PerCall!NextByte
    <2>3. QED
      BY <1>5, <2>2
  <1>7. \A u \in Threads \ {t} : call'[u] = call[u]
    BY <1>1 DEF call, CallOf
  <1>8. call' = [call EXCEPT ![t] = PerCall!NextByte(call[t])]
    BY <1>6, <1>7 DEF call
  <1>9. call[t].busy /\ call[t].done < Len(call[t].data)
    BY <1>4 DEF TransformByte
  <1>10. QED
    BY <1>8, <1>9 DEF PerCall!Byte, call

\* The key is restored: the call leaves nothing behind.
LEMMA EndRefines ==
    ASSUME IInv, NEW t \in Threads, EndBlock(t)
    PROVE  PerCall!End(t)
  <1>1. \A u \in Threads \ {t} : ~block[u].busy /\ block'[u] = block[u]
    BY OneCall DEF EndBlock, IInv, SessionInv
  <1>2. block'[t] = NoBlock
    BY DEF EndBlock, IInv, SessionInv
  <1>3. call'[t] = PerCall!NoCall
    <2>1. ~block'[t].busy /\ block'[t].busy = FALSE /\ block'[t].salt = <<>>
          /\ block'[t].data = <<>> /\ block'[t].done = 0
      BY <1>2 DEF NoBlock
    <2>2. QED
      BY <2>1 DEF call, CallOf, PerCall!NoCall
  <1>4. \A u \in Threads \ {t} : call'[u] = call[u]
    BY <1>1 DEF call, CallOf
  <1>5. call' = [call EXCEPT ![t] = PerCall!NoCall]
    BY <1>3, <1>4 DEF call
  <1>6. call[t].busy /\ call[t].done = Len(call[t].data)
    BY DEF EndBlock, call, CallOf
  <1>7. QED
    BY <1>5, <1>6 DEF PerCall!End, call

\* Every step is one of the cipher with a copy per call, or none.
LEMMA StepRefines ==
    ASSUME IInv, [Next]_vars
    PROVE  PerCall!Next \/ UNCHANGED call
  <1>1. CASE UNCHANGED vars
    BY <1>1 DEF vars, rc4Vars, call, CallOf, Box
  <1>2. CASE Next
    <2>1. PICK t \in Threads : Rc4Step(t)
      BY <1>2, StepShape
    <2>2. CASE UNCHANGED rc4Vars
      BY <2>2 DEF rc4Vars, call, CallOf, Box
    <2>3. QED
      BY <2>1, <2>2, BeginRefines, ByteRefines, EndRefines DEF Rc4Step, PerCall!Next
  <1>3. QED
    BY <1>1, <1>2

\* In the window, and in sessions without encryption, every call of TransformBlock
\* runs as on its own copy of the session's key, for any threads, byte width, key,
\* salts and messages.
THEOREM SharedProviderIsSafe == NoOverlap /\ Spec => ActsPerCall
  <1> SUFFICES ASSUME NoOverlap
               PROVE  Spec => ActsPerCall
    OBVIOUS
  <1>1. Init => IInv
    BY InitInv
  <1>2. IInv /\ [Next]_vars => IInv'
    BY StepInv
  <1>3. IInv /\ [Next]_vars => [PerCall!Next]_call
    BY StepRefines
  <1>4. QED
    BY <1>1, <1>2, <1>3, InitRefines, PTL DEF Spec, ActsPerCall, PerCall!Spec, call
=============================================================================
