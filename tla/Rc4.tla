--------------------------------- MODULE Rc4 ---------------------------------
(***************************************************************************)
(* RC4.TransformBlock on the one provider a connection has                 *)
(* (ICSPClient.CryptoProvider).  KeyValue, mI and mJ are fields of the     *)
(* provider: a call salts the key in place, runs the generator over the    *)
(* data and puts the saved key back.  No lock protects a call; a call is   *)
(* therefore a step per byte, and calls of several threads interleave.     *)
(* Every call of the repository has a salt.                                *)
(***************************************************************************)
EXTENDS Rc4Box

CONSTANTS Threads,  \* the threads that may call TransformBlock
          Key       \* the key of the session: the hash of the MD5 challenge

VARIABLES KeyValue, mI, mJ,
          block     \* per thread, its call of TransformBlock: arguments, bytes done

rc4Vars == <<KeyValue, mI, mJ, block>>

\* SavePrivateKey at the end of SetKey; mILast and mJLast are 0.
mKeyValueLast == SetKey(Key)

NoBlock == [busy |-> FALSE, salt |-> <<>>, data |-> <<>>, done |-> 0]

Rc4TypeOK ==
    /\ KeyValue \in [Bytes -> Bytes]
    /\ mI \in Bytes /\ mJ \in Bytes
    /\ block \in [Threads -> [busy : BOOLEAN, salt : Seq(Bytes), data : Seq(Bytes), done : Nat]]
    /\ \A t \in Threads : block[t].done <= Len(block[t].data)

Rc4Init ==
    /\ KeyValue = mKeyValueLast /\ mI = 0 /\ mJ = 0
    /\ block = [t \in Threads |-> NoBlock]

\* TransformBlock(data, salt) up to PRGA(data).
BeginBlock(t, data, salt) ==
    /\ ~block[t].busy
    /\ KeyValue' = UpdatePrivateKey(KeyValue, salt)
    /\ mI' = 0 /\ mJ' = 0
    /\ block' = [block EXCEPT
                   ![t] = [busy |-> TRUE, salt |-> salt, data |-> data, done |-> 0]]

Box == [S |-> KeyValue, i |-> mI, j |-> mJ]

\* One round of PRGA(byte[]).
TransformByte(t) ==
    LET box == PRGA(Box) IN
    /\ block[t].busy /\ block[t].done < Len(block[t].data)
    /\ KeyValue' = box.S /\ mI' = box.i /\ mJ' = box.j
    /\ block' = [block EXCEPT
                   ![t] = [busy |-> TRUE, salt |-> block[t].salt,
                           data |-> [block[t].data EXCEPT
                                       ![block[t].done + 1] = Xor(@, Word(box))],
                           done |-> block[t].done + 1]]

EndBlockUnrestored(t) ==
    /\ block[t].busy /\ block[t].done = Len(block[t].data)
    /\ block' = [block EXCEPT ![t] = NoBlock]
    /\ UNCHANGED <<KeyValue, mI, mJ>>

\* RestorePrivateKey.
EndBlock(t) ==
    /\ block[t].busy /\ block[t].done = Len(block[t].data)
    /\ KeyValue' = mKeyValueLast /\ mI' = 0 /\ mJ' = 0
    /\ block' = [block EXCEPT ![t] = NoBlock]

-----------------------------------------------------------------------------
(***************************************************************************)
(* The call of a thread, seen as if it had a box of its own.               *)
(***************************************************************************)
CallOf(t) ==
    [busy |-> block[t].busy,
     box  |-> IF block[t].busy THEN Box ELSE [S |-> mKeyValueLast, i |-> 0, j |-> 0],
     salt |-> block[t].salt, data |-> block[t].data, done |-> block[t].done]

PerCall == INSTANCE CipherPerCall WITH call <- [t \in Threads |-> CallOf(t)]
==============================================================================
