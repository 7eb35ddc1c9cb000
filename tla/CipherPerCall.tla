---------------------------- MODULE CipherPerCall ----------------------------
(***************************************************************************)
(* What a caller of TransformBlock expects: a call works on a copy of the  *)
(* scheduled key that no other call and no earlier call has touched.       *)
(***************************************************************************)
EXTENDS Rc4Box

CONSTANTS Threads, mKeyValueLast

VARIABLE call

NoCall == [busy |-> FALSE, box |-> [S |-> mKeyValueLast, i |-> 0, j |-> 0],
           salt |-> <<>>, data |-> <<>>, done |-> 0]

Init == call = [t \in Threads |-> NoCall]

\* Any salt and any data may be given to a call.
Begin(t) ==
    /\ ~call[t].busy
    /\ call' = [call EXCEPT ![t] =
                  [busy |-> TRUE,
                   box |-> [S |-> UpdatePrivateKey(mKeyValueLast, call'[t].salt),
                            i |-> 0, j |-> 0],
                   salt |-> call'[t].salt, data |-> call'[t].data, done |-> 0]]

NextByte(c) ==
    [busy |-> TRUE, box |-> PRGA(c.box), salt |-> c.salt,
     data |-> [c.data EXCEPT ![c.done + 1] = Xor(@, Word(PRGA(c.box)))],
     done |-> c.done + 1]

Byte(t) ==
    /\ call[t].busy /\ call[t].done < Len(call[t].data)
    /\ call' = [call EXCEPT ![t] = NextByte(call[t])]

End(t) ==
    /\ call[t].busy /\ call[t].done = Len(call[t].data)
    /\ call' = [call EXCEPT ![t] = NoCall]

Next == \E t \in Threads : Begin(t) \/ Byte(t) \/ End(t)

Spec == Init /\ [][Next]_call
==============================================================================
