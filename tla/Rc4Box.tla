------------------------------- MODULE Rc4Box -------------------------------
(***************************************************************************)
(* The pure part of ICSP.Core/Cryptography/RC4.cs: the key schedule and    *)
(* one step of the keystream generator, on a box [S, i, j] that holds the  *)
(* substitution table and the two index pointers.                          *)
(***************************************************************************)
EXTENDS Naturals, Sequences

CONSTANT Width  \* bits of a byte (8 in the code)

\* The powers of two, as a recursive function: the provers have no rules for ^.
Power2[n \in 0 .. Width] == IF n = 0 THEN 1 ELSE 2 * Power2[n - 1]

CharsInByte == Power2[Width]
Bytes == 0 .. CharsInByte - 1

Swap(S, i, j) == [S EXCEPT ![i] = S[j], ![j] = S[i]]

\* The C# operator ^ on the low n bits of two bytes, and on all of them.
XorBits[n \in 0 .. Width] ==
    [a \in Bytes |-> [b \in Bytes |->
        IF n = 0 THEN 0 ELSE 2 * XorBits[n - 1][a \div 2][b \div 2] + ((a + b) % 2)]]

Xor(a, b) == XorBits[Width][a][b]

\* SetKey: the table that key (a sequence of bytes) schedules.
SetKey(key) ==
    LET ksa[n \in 0 .. CharsInByte] ==
            IF n = 0 THEN [S |-> [x \in Bytes |-> x], j |-> 0]
            ELSE LET i == n - 1
                     last == ksa[i]
                     j == (last.j + last.S[i] + key[(i % Len(key)) + 1]) % CharsInByte
                 IN  [S |-> Swap(last.S, i, j), j |-> j]
    IN  ksa[CharsInByte].S

\* UpdatePrivateKey: the salt overwrites the head of the table.
UpdatePrivateKey(S, salt) ==
    [x \in Bytes |-> IF x < Len(salt) THEN salt[x + 1] ELSE S[x]]

\* PRGA: the box after one more word of the keystream ...
PRGA(box) ==
    LET i == (box.i + 1) % CharsInByte
        j == (box.j + box.S[i]) % CharsInByte
    IN  [S |-> Swap(box.S, i, j), i |-> i, j |-> j]

\* ... and that word.
Word(box) == box.S[(box.S[box.i] + box.S[box.j]) % CharsInByte]
=============================================================================
