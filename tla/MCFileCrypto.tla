---------------------------- MODULE MCFileCrypto ----------------------------
(* FileCrypto with bytes of two bits, blocks of three bytes, and a toy block *)
(* cipher: the bytes move one place to the left and the key is added.        *)
EXTENDS FileCrypto

ToyXor(a, b) == ((a + b) % 2) + 2 * (((a \div 2) + (b \div 2)) % 2)
ToyEnc(k, b) == [i \in 1 .. BlockLen |-> (b[(i % BlockLen) + 1] + k) % 4]
ToyDec(k, b) ==
    [i \in 1 .. BlockLen |-> (b[((i + BlockLen - 2) % BlockLen) + 1] + 4 - k) % 4]

\* Lengths 0 to 6: contents that end like a padding, or fill their last block.
SmallContents == {<<>>, <<3>>, <<1, 1>>, <<3, 3, 3>>, <<0, 1, 2, 3>>, <<1, 2, 2, 1, 1, 1>>}
SmallChachaKeys == {<<1, 2>>, <<3, 0, 1, 2>>}
SmallIvs == {<<2, 0, 3>>}
=============================================================================
