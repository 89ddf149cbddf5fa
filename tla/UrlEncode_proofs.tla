--------------------------- MODULE UrlEncode_proofs ---------------------------
(***************************************************************************)
(* Proofs about urlencodeup (UrlEncode), for every password length, byte   *)
(* set and snprintf bound: the loop keeps its types and indices in range   *)
(* (TypeOK); it stays inside its 3*len+1 buffer unless a byte is sign-     *)
(* extended (NoHeapOverflow); and it only ever returns letters, digits and *)
(* '%' (OutputAlphabet).                                                   *)
(***************************************************************************)
EXTENDS UrlEncode, FiniteSetTheorems, SequenceTheorems, TLAPS

USE BytesAssumption, MaxLenAssumption, SignedCharAssumption, FmtSizeAssumption

\* The characters the returned string may hold: [A-Za-z0-9%].
OutChars == (97..122) \cup (65..90) \cup (48..57) \cup {37}

\* TypeOK strengthened to be inductive: j never runs ahead of 3*i, so the
\* next write starts inside the buffer, and the loop ends with i at len.
IndexInv ==
    /\ TypeOK
    /\ j <= 3 * i
    /\ pc = "done" => i = Len(str)

\* With the bound snprintf gets, each iteration emits its three characters
\* before j moves past them: what lies before j is output, and the final
\* NUL sits at j.
OutputInv ==
    /\ IndexInv
    /\ \A k \in 0..(j - 1) : buf[k] \in OutChars
    /\ pc = "done" => buf[j] = 0

\* The characters %02X and '%' produce.
FmtChars == {37} \cup (48..57) \cup (65..70)

-----------------------------------------------------------------------------
(* Lemmas about the conversions.                                           *)

\* Min of two integers is the smaller one.
LEMMA MinPair ==
    ASSUME NEW a \in Int, NEW b \in Int
    PROVE  Min({a, b}) = IF a <= b THEN a ELSE b
BY DEF Min

\* A password byte read as a plain char is in -128..255, and it is the
\* byte itself when it is not negative.
LEMMA CharOfRange ==
    ASSUME NEW b \in Bytes
    PROVE  /\ CharOf(b) \in -128..255
           /\ CharOf(b) >= 0 => CharOf(b) = b
           /\ CharOf(b) < 0 <=> SignedChar /\ b >= 128
BY DEF CharOf

\* %02X of a value in 0..255 is two hex digits.
LEMMA Hex2Shape ==
    ASSUME NEW v \in 0..255
    PROVE  /\ Hex2(v) \in Seq(FmtChars)
           /\ Len(Hex2(v)) = 2
<1>1. v \div 16 \in 0..15 /\ v % 16 \in 0..15
  OBVIOUS
<1>2. \A d \in 0..15 : HexDigit(d) \in FmtChars
  BY DEF HexDigit, FmtChars
<1>3. QED
  BY <1>1, <1>2 DEF Hex2

\* Prefixing '%' or the six F's of a sign-extended char keeps a text of
\* format characters.
LEMMA PrefixShape ==
    ASSUME NEW t \in Seq(FmtChars)
    PROVE  /\ <<37>> \o t \in Seq(FmtChars)
           /\ Len(<<37>> \o t) = 1 + Len(t)
           /\ [k \in 1..6 |-> 70] \o t \in Seq(FmtChars)
           /\ Len([k \in 1..6 |-> 70] \o t) = 6 + Len(t)
<1>1. <<37>> \in Seq(FmtChars) /\ Len(<<37>>) = 1
  BY DEF FmtChars
<1>2. [k \in 1..6 |-> 70] \in Seq(FmtChars) /\ Len([k \in 1..6 |-> 70]) = 6
  BY DEF FmtChars
<1>3. QED
  BY <1>1, <1>2, ConcatProperties

\* What URL_ENCODE_BYTE_FMT produces for a char: '%' and two hex digits,
\* or '%' and eight for a negative char.
LEMMA FormattedShape ==
    ASSUME NEW c \in -128..255
    PROVE  /\ Formatted(c) \in Seq(FmtChars)
           /\ Len(Formatted(c)) = IF c < 0 THEN 9 ELSE 3
<1>1. UIntHex(c) \in Seq(FmtChars) /\ Len(UIntHex(c)) = IF c < 0 THEN 8 ELSE 2
  <2>1. CASE c < 0
    <3>1. PICK d \in 0..255 : d = c + 256
      BY <2>1
    <3>2. Hex2(d) \in Seq(FmtChars) /\ Len(Hex2(d)) = 2
      BY Hex2Shape
    <3>3. UIntHex(c) = [k \in 1..6 |-> 70] \o Hex2(d)
      BY <2>1, <3>1 DEF UIntHex
    <3>4. /\ [k \in 1..6 |-> 70] \o Hex2(d) \in Seq(FmtChars)
          /\ Len([k \in 1..6 |-> 70] \o Hex2(d)) = 6 + Len(Hex2(d))
      BY <3>2, PrefixShape
    <3>5. QED
      BY <2>1, <3>2, <3>3, <3>4
  <2>2. CASE ~(c < 0)
    <3>1. UIntHex(c) = Hex2(c) /\ c \in 0..255
      BY <2>2 DEF UIntHex
    <3>2. QED
      BY <2>2, <3>1, Hex2Shape
  <2>3. QED
    BY <2>1, <2>2
<1>2. <<37>> \o UIntHex(c) \in Seq(FmtChars)
      /\ Len(<<37>> \o UIntHex(c)) = 1 + Len(UIntHex(c))
  BY <1>1, PrefixShape
<1>3. QED
  BY <1>1, <1>2 DEF Formatted

\* What snprintf(dst, n, ...) stores: the first min(n - 1, len) characters
\* of the text, then a NUL.
LEMMA SnprintfShape ==
    ASSUME NEW n \in Nat \ {0}, NEW S, NEW text \in Seq(S)
    PROVE  LET m == IF n - 1 <= Len(text) THEN n - 1 ELSE Len(text)
           IN  /\ SnprintfOut(n, text) \in Seq(S \cup {0})
               /\ Len(SnprintfOut(n, text)) = m + 1
               /\ \A k \in 1..m : SnprintfOut(n, text)[k] = text[k]
               /\ SnprintfOut(n, text)[m + 1] = 0
<1> DEFINE m == IF n - 1 <= Len(text) THEN n - 1 ELSE Len(text)
<1>1. Min({n - 1, Len(text)}) = m
  BY MinPair
<1>2. m \in 0..Len(text)
  OBVIOUS
<1>3. SubSeq(text, 1, m) \in Seq(S) /\ Len(SubSeq(text, 1, m)) = m
      /\ \A k \in 1..m : SubSeq(text, 1, m)[k] = text[k]
  BY <1>2, SubSeqProperties
<1>4. SnprintfOut(n, text) = SubSeq(text, 1, m) \o <<0>>
  BY <1>1 DEF SnprintfOut
<1>5. SubSeq(text, 1, m) \in Seq(S \cup {0}) /\ <<0>> \in Seq(S \cup {0})
  BY <1>3, SeqMonotonic
<1> DEFINE pre == SubSeq(text, 1, m)
<1>6. /\ pre \o <<0>> \in Seq(S \cup {0})
      /\ Len(pre \o <<0>>) = Len(pre) + Len(<<0>>)
      /\ \A k \in 1..Len(pre) + Len(<<0>>) : (pre \o <<0>>)[k] =
                 IF k <= Len(pre) THEN pre[k] ELSE <<0>>[k - Len(pre)]
  BY <1>5, ConcatProperties
<1>7. Len(pre \o <<0>>) = m + 1
  BY <1>3, <1>6
<1>8. \A k \in 1..m : (pre \o <<0>>)[k] = text[k]
  BY <1>3, <1>6
<1>9. (pre \o <<0>>)[m + 1] = 0
  <2>1. PICK q \in Int : q = m + 1
    OBVIOUS
  <2>2. Len(<<0>>) = 1 /\ <<0>>[1] = 0
    OBVIOUS
  <2>3. q \in 1..Len(pre) + Len(<<0>>) /\ ~(q <= Len(pre)) /\ q - Len(pre) = 1
    BY <1>3, <2>1, <2>2
  <2>4. (pre \o <<0>>)[q] = <<0>>[q - Len(pre)]
    BY <1>6, <2>3, Zenon
  <2>5. QED
    BY <2>1, <2>2, <2>3, <2>4, Zenon
<1>10. QED
  BY <1>4, <1>6, <1>7, <1>8, <1>9

\* The password Init picks is a sequence of bytes of length at most MaxLen.
LEMMA SeqOfIsSeq ==
    ASSUME NEW S, NEW n \in Nat, NEW s \in SeqOf(S, n)
    PROVE  s \in Seq(S) /\ Len(s) <= n
<1>1. PICK m \in 0..n : s \in [1..m -> S]
  BY DEF SeqOf
<1>2. s \in Seq(S)
  BY <1>1
<1>3. Len(s) = m
  BY <1>1, <1>2, LenProperties
<1>4. QED
  BY <1>1, <1>2, <1>3

\* Writing a string into szRet keeps its indices and its element type, and
\* changes exactly the cells pos .. pos + Len(w) - 1 that it has.
LEMMA WriteAtProps ==
    ASSUME NEW T, NEW n \in Nat, NEW b \in [0..n -> T], NEW pos \in Int,
           NEW w \in Seq(T)
    PROVE  /\ WriteAt(b, pos, w) \in [0..n -> T]
           /\ \A k \in 0..n : WriteAt(b, pos, w)[k] =
                 IF pos <= k /\ k < pos + Len(w) THEN w[k - pos + 1] ELSE b[k]
<1>1. \A k \in 0..n : pos <= k /\ k < pos + Len(w) => w[k - pos + 1] \in T
  <2>1. SUFFICES ASSUME NEW k \in 0..n, pos <= k, k < pos + Len(w)
                 PROVE  w[k - pos + 1] \in T
    OBVIOUS
  <2>2. k - pos + 1 \in 1..Len(w)
    BY <2>1, LenProperties
  <2>3. QED
    BY <2>2, ElementOfSeq
<1>2. QED
  BY <1>1 DEF WriteAt

\* The cells a write reaches past the end of szRet are natural numbers, and
\* there are none when the write ends inside the buffer.
LEMMA SpillProps ==
    ASSUME NEW X, NEW n \in Nat, NEW b \in [0..n -> X], NEW pos \in Nat,
           NEW w \in Seq(X)
    PROVE  /\ Spill(b, pos, w) \subseteq Nat
           /\ pos + Len(w) - 1 <= n => Spill(b, pos, w) = {}
<1>1. Len(w) \in Nat
  BY LenProperties
<1>2. QED
  BY <1>1 DEF Spill

\* What one Encode iteration writes for a byte: a NUL-terminated string of
\* bytes; at most four of them when the char is not negative; and, when
\* snprintf may write four, its first three are '%' and hex digits.
LEMMA EncodeWord ==
    ASSUME NEW b \in Bytes
    PROVE  LET w == SnprintfOut(FmtSize, Formatted(CharOf(b)))
           IN  /\ w \in Seq(0..255)
               /\ CharOf(b) >= 0 => Len(w) <= 4
               /\ FmtSize >= 4 => Len(w) >= 3 /\ \A k \in 1..3 : w[k] \in FmtChars
<1>1. PICK c \in -128..255 : c = CharOf(b)
  BY CharOfRange
<1>2. PICK t \in Seq(FmtChars) : t = Formatted(c) /\ Len(t) = IF c < 0 THEN 9 ELSE 3
  BY <1>1, FormattedShape
<1>3. PICK w : w = SnprintfOut(FmtSize, t)
  OBVIOUS
<1> DEFINE m == IF FmtSize - 1 <= Len(t) THEN FmtSize - 1 ELSE Len(t)
<1>13. /\ w \in Seq(FmtChars \cup {0})
       /\ Len(w) = m + 1
       /\ \A k \in 1..m : w[k] = t[k]
  BY <1>3, SnprintfShape
<1>4. w \in Seq(0..255)
  <2>1. FmtChars \cup {0} \subseteq 0..255
    BY DEF FmtChars
  <2>2. QED
    BY <1>13, <2>1, SeqMonotonic
<1>5. ASSUME c >= 0 PROVE Len(w) <= 4
  <2>1. Len(t) = 3
    BY <1>1, <1>2, <1>5
  <2>2. m <= 3
    BY <2>1
  <2>3. QED
    BY <1>13, <2>2
<1>6. ASSUME FmtSize >= 4 PROVE Len(w) >= 3 /\ \A k \in 1..3 : w[k] \in FmtChars
  <2>1. 3 <= m /\ 3 <= Len(t)
    BY <1>2, <1>6
  <2>2. \A k \in 1..3 : t[k] \in FmtChars
    BY <1>2, <2>1, ElementOfSeq
  <2>3. Len(w) >= 3
    BY <1>13, <2>1
  <2>4. \A k \in 1..3 : w[k] = t[k]
    BY <1>13, <2>1
  <2>5. QED
    BY <2>2, <2>3, <2>4
<1>7. QED
  BY <1>1, <1>2, <1>3, <1>4, <1>5, <1>6, Zenon

-----------------------------------------------------------------------------
(* TypeOK: the loop indices stay in range.                                 *)

\* The initial state satisfies the strengthened invariant.
LEMMA InitIndex == Init => IndexInv
<1> SUFFICES ASSUME Init PROVE IndexInv
  OBVIOUS
<1>1. str \in Seq(Bytes)
  BY SeqOfIsSeq DEF Init
<1>2. Len(str) \in Nat
  BY <1>1, LenProperties
<1>3. TypeOK
  BY <1>1, <1>2 DEF Init, TypeOK
<1>4. QED
  BY <1>3 DEF Init, IndexInv

\* Every step of the loop keeps the strengthened invariant.
LEMMA NextIndex == IndexInv /\ [Next]_vars => IndexInv'
<1> SUFFICES ASSUME IndexInv, [Next]_vars PROVE IndexInv'
  OBVIOUS
<1>1. PICK n \in Nat : n = 3 * Len(str)
  BY LenProperties DEF IndexInv, TypeOK
<1>2. /\ Len(str) \in Nat /\ str \in [1..Len(str) -> Bytes]
      /\ buf \in [0..n -> 0..255] /\ j \in Nat
  BY <1>1, LenProperties DEF IndexInv, TypeOK
<1>3. ASSUME buf' \in [0..n -> 0..255], oob' \subseteq Nat, str' = str,
             i' \in 0..Len(str), j' \in 0..n, j' <= 3 * i',
             pc' = "done" => i' = Len(str), pc' \in {"loop", "done"}
      PROVE  IndexInv'
  BY <1>1, <1>3 DEF IndexInv, TypeOK
<1>4. ASSUME pc = "loop", i < Len(str) PROVE str[i + 1] \in Bytes
  BY <1>2, <1>4 DEF IndexInv, TypeOK
<1>5. ASSUME NEW w \in Seq(0..255), buf' = WriteAt(buf, j, w),
             oob' = oob \cup Spill(buf, j, w)
      PROVE  buf' \in [0..n -> 0..255] /\ oob' \subseteq Nat
  <2>1. WriteAt(buf, j, w) \in [0..n -> 0..255]
    <3>1. \A k \in 0..n : j <= k /\ k < j + Len(w) => w[k - j + 1] \in 0..255
      <4>1. SUFFICES ASSUME NEW k \in 0..n, j <= k, k < j + Len(w)
                     PROVE  w[k - j + 1] \in 0..255
        OBVIOUS
      <4>2. k - j + 1 \in 1..Len(w)
        BY <1>2, <4>1, LenProperties
      <4>3. QED
        BY <4>2, ElementOfSeq
    <3>2. DOMAIN buf = 0..n /\ \A k \in 0..n : buf[k] \in 0..255
      BY <1>2
    <3>3. WriteAt(buf, j, w) =
            [k \in 0..n |-> IF j <= k /\ k < j + Len(w) THEN w[k - j + 1] ELSE buf[k]]
      BY <3>2 DEF WriteAt
    <3>4. QED
      BY <3>1, <3>2, <3>3
  <2>2. Spill(buf, j, w) \subseteq Nat
    BY <1>2, SpillProps
  <2>3. oob \subseteq Nat
    BY DEF IndexInv, TypeOK
  <2>4. QED
    BY <1>5, <2>1, <2>2, <2>3
<1>6. CASE Copy
  <2>1. pc = "loop" /\ i < Len(str)
    BY <1>6 DEF Copy
  <2>2. str[i + 1] \in 0..255
    <3>1. PICK b \in Bytes : b = str[i + 1]
      BY <1>4, <2>1, Zenon
    <3>2. b \in 0..255
      BY BytesAssumption
    <3>3. QED
      BY <3>1, <3>2, Zenon
  <2>3. <<str[i + 1]>> \in Seq(0..255)
    BY <2>2
  <2>4. buf' \in [0..n -> 0..255] /\ oob' \subseteq Nat
    BY <1>5, <1>6, <2>3 DEF Copy
  <2>5. str' = str /\ pc' = "loop" /\ i' = i + 1 /\ j' = j + 1
    BY <1>6 DEF Copy
  <2>6. i' \in 0..Len(str) /\ j' \in 0..n /\ j' <= 3 * i'
    BY <1>1, <2>1, <2>5 DEF IndexInv, TypeOK
  <2>7. QED
    BY <1>3, <2>4, <2>5, <2>6, Zenon
<1>7. CASE Encode
  <2>1. pc = "loop" /\ i < Len(str)
    BY <1>7 DEF Encode
  <2>2. PICK b \in Bytes : b = str[i + 1]
    BY <1>4, <2>1
  <2>3. SnprintfOut(FmtSize, Formatted(CharOf(b))) \in Seq(0..255)
    BY EncodeWord
  <2>4. buf' \in [0..n -> 0..255] /\ oob' \subseteq Nat
    BY <1>5, <1>7, <2>2, <2>3 DEF Encode
  <2>5. str' = str /\ pc' = "loop" /\ i' = i + 1 /\ j' = j + 3
    BY <1>7 DEF Encode
  <2>6. i' \in 0..Len(str) /\ j' \in 0..n /\ j' <= 3 * i'
    BY <1>1, <2>1, <2>5 DEF IndexInv, TypeOK
  <2>7. QED
    BY <1>3, <2>4, <2>5, <2>6, Zenon
<1>8. CASE Terminate
  <2>1. <<0>> \in Seq(0..255)
    OBVIOUS
  <2>2. buf' \in [0..n -> 0..255] /\ oob' \subseteq Nat
    BY <1>5, <1>8, <2>1 DEF Terminate
  <2>3. str' = str /\ pc' = "done" /\ i' = i /\ j' = j /\ i = Len(str)
    BY <1>8 DEF Terminate
  <2>4. i' \in 0..Len(str) /\ j' \in 0..n /\ j' <= 3 * i'
    BY <1>1, <2>3 DEF IndexInv, TypeOK
  <2>5. QED
    BY <1>3, <2>2, <2>3, <2>4, Zenon
<1>9. CASE UNCHANGED vars
  BY <1>9 DEF vars, IndexInv, TypeOK
<1>10. QED
  BY <1>6, <1>7, <1>8, <1>9 DEF Next
\* The types and ranges of TypeOK hold in every state of the loop, for every
\* password length, byte set, char signedness and snprintf bound.
THEOREM UrlTypeCorrect == Spec => []TypeOK
<1>1. IndexInv => TypeOK
  BY DEF IndexInv
<1>2. QED
  BY InitIndex, NextIndex, <1>1, PTL DEF Spec

-----------------------------------------------------------------------------
(* NoHeapOverflow: szRet is big enough when no char is negative.           *)

\* The condition under which every password byte reads as a non-negative
\* char: plain char is unsigned, or no byte has its high bit set.
NonNegativeChars == ~SignedChar \/ Bytes \subseteq 1..127

\* Under that condition CharOf never yields a negative char.
LEMMA NonNegativeCharOf ==
    ASSUME NonNegativeChars, NEW b \in Bytes
    PROVE  CharOf(b) >= 0
<1>1. ~(SignedChar /\ b >= 128)
  BY DEF NonNegativeChars
<1>2. QED
  BY <1>1, CharOfRange

\* No step writes past szRet[3 * iLen] while every char is non-negative: a
\* copied byte lands at j <= 3*i - 1 + 1, an encoded one fills j .. j+3 at
\* most, and the NUL goes to j <= 3 * iLen.
LEMMA NextNoSpill ==
    ASSUME NonNegativeChars
    PROVE  IndexInv /\ oob = {} /\ [Next]_vars => oob' = {}
<1> SUFFICES ASSUME IndexInv, oob = {}, [Next]_vars PROVE oob' = {}
  OBVIOUS
<1>1. PICK n \in Nat : n = 3 * Len(str)
  BY LenProperties DEF IndexInv, TypeOK
<1>2. /\ Len(str) \in Nat /\ str \in [1..Len(str) -> Bytes]
      /\ buf \in [0..n -> 0..255] /\ j \in Nat /\ i \in 0..Len(str) /\ j <= 3 * i
  BY <1>1, LenProperties DEF IndexInv, TypeOK
<1>3. ASSUME NEW w \in Seq(0..255), j + Len(w) - 1 <= n,
             oob' = oob \cup Spill(buf, j, w)
      PROVE  oob' = {}
  BY <1>2, <1>3, SpillProps
<1>4. CASE Copy
  <2>0. str[i + 1] \in Bytes
    BY <1>2, <1>4 DEF Copy
  <2>1. PICK b \in Bytes : b = str[i + 1]
    BY <2>0, Zenon
  <2>2. <<b>> \in Seq(0..255) /\ Len(<<b>>) = 1
    BY BytesAssumption
  <2>3. j + Len(<<b>>) - 1 <= n
    BY <1>1, <1>2, <1>4, <2>2 DEF Copy
  <2>4. oob' = oob \cup Spill(buf, j, <<b>>)
    BY <1>4, <2>1 DEF Copy
  <2>5. QED
    BY <2>2, <2>3, <2>4, <1>3
<1>5. CASE Encode
  <2>0. str[i + 1] \in Bytes
    BY <1>2, <1>5 DEF Encode
  <2>1. PICK b \in Bytes : b = str[i + 1]
    BY <2>0, Zenon
  <2>2. CharOf(b) >= 0
    BY NonNegativeCharOf
  <2>3. PICK w \in Seq(0..255) : w = SnprintfOut(FmtSize, Formatted(CharOf(b)))
    BY EncodeWord
  <2>4. Len(w) <= 4
    BY <2>2, <2>3, EncodeWord
  <2>5. j + Len(w) - 1 <= n
    BY <1>1, <1>2, <1>5, <2>3, <2>4, LenProperties DEF Encode
  <2>6. oob' = oob \cup Spill(buf, j, w)
    BY <1>5, <2>1, <2>3 DEF Encode
  <2>7. QED
    BY <2>3, <2>5, <2>6, <1>3
<1>6. CASE Terminate
  <2>1. <<0>> \in Seq(0..255) /\ Len(<<0>>) = 1
    OBVIOUS
  <2>2. j + Len(<<0>>) - 1 <= n
    BY <1>1, <1>2, <1>6, <2>1 DEF Terminate
  <2>3. oob' = oob \cup Spill(buf, j, <<0>>)
    BY <1>6 DEF Terminate
  <2>4. QED
    BY <2>1, <2>2, <2>3, <1>3
<1>7. CASE UNCHANGED vars
  BY <1>7 DEF vars
<1>8. QED
  BY <1>4, <1>5, <1>6, <1>7 DEF Next

\* When plain char is unsigned, or the password is 7-bit, urlencodeup never
\* writes past the 3*iLen+1 bytes it allocates, for every password length
\* and snprintf bound (the overflow run shows the other case).
THEOREM NoOverflowWithoutNegativeChars ==
    ASSUME NonNegativeChars
    PROVE  Spec => []NoHeapOverflow
<1>1. Init => IndexInv /\ oob = {}
  BY InitIndex DEF Init
<1>2. IndexInv /\ oob = {} /\ [Next]_vars => (IndexInv /\ oob = {})'
  BY NextIndex, NextNoSpill
<1>3. QED
  BY <1>1, <1>2, PTL DEF Spec, NoHeapOverflow

-----------------------------------------------------------------------------
(* OutputAlphabet: what urlencodeup returns is [A-Za-z0-9%]*.              *)

\* A byte the loop copies as it is (isalnum of its char) is a letter or a
\* digit: a negative char is never unreserved.
LEMMA UnreservedOut ==
    ASSUME NEW b \in Bytes, Unreserved(CharOf(b))
    PROVE  b \in OutChars
<1>1. CharOf(b) >= 0
  <2>1. PICK c \in -128..255 : c = CharOf(b)
    BY CharOfRange
  <2>2. Unreserved(c)
    BY <2>1, Zenon
  <2>3. c >= 0
    BY <2>2 DEF Unreserved, Between
  <2>4. QED
    BY <2>1, <2>3
<1>2. CharOf(b) = b
  BY <1>1, CharOfRange
<1>3. Unreserved(b)
  BY <1>2, Zenon
<1>4. b \in Int
  BY BytesAssumption
<1>5. QED
  BY <1>3, <1>4 DEF Unreserved, Between, OutChars

\* The characters of %02X are output characters.
LEMMA FmtCharsOut == FmtChars \subseteq OutChars
BY DEF FmtChars, OutChars

\* The part of the invariant OutputInv adds to IndexInv.
OutputCore ==
    /\ \A k \in 0..(j - 1) : buf[k] \in OutChars
    /\ pc = "done" => buf[j] = 0

\* Initially nothing has been emitted.
LEMMA InitOutput == Init => OutputInv
<1>1. Init => OutputCore
  BY DEF Init, OutputCore
<1>2. QED
  BY <1>1, InitIndex DEF OutputInv, OutputCore

\* Each iteration leaves output characters below the new j: a copied
\* alphanumeric byte, or the first three characters snprintf writes, which
\* are '%' and two hex digits whenever it may write four; the later cells of a
\* longer sign-extended text lie at or past j and are overwritten or cut off
\* by the NUL. The final NUL lands at j.
LEMMA NextOutput ==
    ASSUME FmtSize >= 4
    PROVE  OutputInv /\ [Next]_vars => OutputCore'
<1> SUFFICES ASSUME IndexInv, OutputCore, [Next]_vars PROVE OutputCore'
  BY DEF OutputInv, OutputCore
<1>1. PICK n \in Nat : n = 3 * Len(str)
  BY LenProperties DEF IndexInv, TypeOK
<1>2. /\ Len(str) \in Nat /\ str \in [1..Len(str) -> Bytes]
      /\ buf \in [0..n -> 0..255] /\ j \in Nat /\ i \in 0..Len(str) /\ j <= 3 * i
  BY <1>1, LenProperties DEF IndexInv, TypeOK
<1>3. ASSUME NEW w \in Seq(0..255), buf' = WriteAt(buf, j, w)
      PROVE  \A k \in 0..n : buf'[k] = IF j <= k /\ k < j + Len(w) THEN w[k - j + 1] ELSE buf[k]
  <2>1. \A k \in 0..n : WriteAt(buf, j, w)[k] =
            IF j <= k /\ k < j + Len(w) THEN w[k - j + 1] ELSE buf[k]
    BY <1>2 DEF WriteAt
  <2>2. QED
    BY <1>3, <2>1, Zenon
<1>4. CASE Copy
  <2>0. str[i + 1] \in Bytes /\ Unreserved(CharOf(str[i + 1]))
    BY <1>2, <1>4 DEF Copy
  <2>1. PICK b \in Bytes : b = str[i + 1] /\ Unreserved(CharOf(b))
    BY <2>0, Zenon
  <2>2. b \in OutChars
    BY <2>1, UnreservedOut
  <2>3. PICK w \in Seq(0..255) : w = <<b>>
    <3>1. <<b>> \in Seq(0..255)
      BY BytesAssumption
    <3>2. QED
      BY <3>1, Zenon
  <2>4. buf' = WriteAt(buf, j, w) /\ j' = j + 1 /\ pc' = "loop"
    BY <1>4, <2>1, <2>3 DEF Copy
  <2>5. \A k \in 0..n : buf'[k] = IF j <= k /\ k < j + Len(w) THEN w[k - j + 1] ELSE buf[k]
    BY <1>3, <2>3, <2>4, Zenon
  <2>6. j < n /\ Len(w) = 1 /\ w[1] = b
    BY <1>1, <1>2, <1>4, <2>3 DEF Copy
  <2>7. \A k \in 0..(j' - 1) : buf'[k] \in OutChars
    BY <1>2, <2>2, <2>4, <2>5, <2>6 DEF OutputCore
  <2>8. QED
    BY <2>4, <2>7 DEF OutputCore
<1>5. CASE Encode
  <2>0. str[i + 1] \in Bytes
    BY <1>2, <1>5 DEF Encode
  <2>1. PICK b \in Bytes : b = str[i + 1]
    BY <2>0, Zenon
  <2>2. PICK w \in Seq(0..255) : w = SnprintfOut(FmtSize, Formatted(CharOf(b)))
    BY EncodeWord
  <2>3. Len(w) >= 3 /\ \A k \in 1..3 : w[k] \in OutChars
    BY <2>2, EncodeWord, FmtCharsOut
  <2>4. buf' = WriteAt(buf, j, w) /\ j' = j + 3 /\ pc' = "loop"
    BY <1>5, <2>1, <2>2 DEF Encode
  <2>5. \A k \in 0..n : buf'[k] = IF j <= k /\ k < j + Len(w) THEN w[k - j + 1] ELSE buf[k]
    BY <1>3, <2>2, <2>4, Zenon
  <2>6. j + 3 <= n
    BY <1>1, <1>2, <1>5 DEF Encode
  <2>7. \A k \in 0..(j' - 1) : buf'[k] \in OutChars
    <3>1. SUFFICES ASSUME NEW k \in 0..(j + 2) PROVE buf'[k] \in OutChars
      BY <1>2, <2>4
    <3>2. k \in 0..n
      BY <1>2, <2>6
    <3>3. CASE k < j
      BY <1>2, <2>5, <3>2, <3>3 DEF OutputCore
    <3>4. CASE j <= k
      <4>1. k - j + 1 \in 1..3 /\ k < j + Len(w)
        BY <1>2, <2>3, <3>4, LenProperties
      <4>2. buf'[k] = w[k - j + 1]
        BY <2>5, <3>2, <3>4, <4>1
      <4>3. QED
        BY <2>3, <4>1, <4>2
    <3>5. QED
      BY <1>2, <3>3, <3>4
  <2>8. QED
    BY <2>4, <2>7 DEF OutputCore
<1>6. CASE Terminate
  <2>1. <<0>> \in Seq(0..255) /\ Len(<<0>>) = 1 /\ <<0>>[1] = 0
    OBVIOUS
  <2>2. buf' = WriteAt(buf, j, <<0>>) /\ j' = j /\ pc' = "done" /\ i = Len(str)
    BY <1>6 DEF Terminate
  <2>3. \A k \in 0..n : buf'[k] = IF j <= k /\ k < j + Len(<<0>>) THEN <<0>>[k - j + 1] ELSE buf[k]
    BY <1>3, <2>1, <2>2, Zenon
  <2>4. j <= n
    BY <1>1, <1>2, <2>2
  <2>5. buf'[j] = 0
    BY <1>2, <2>3, <2>4
  <2>6. \A k \in 0..(j' - 1) : buf'[k] \in OutChars
    BY <1>2, <2>2, <2>3, <2>4 DEF OutputCore
  <2>7. QED
    BY <2>2, <2>5, <2>6 DEF OutputCore
<1>7. CASE UNCHANGED vars
  BY <1>7 DEF vars, OutputCore
<1>8. QED
  BY <1>4, <1>5, <1>6, <1>7 DEF Next

\* When the loop has returned, the string urlencodeup hands back (szRet up to
\* its first NUL) is exactly buf[0 .. j-1]: every earlier cell holds an
\* output character, none of which is NUL, and buf[j] is the NUL.
LEMMA ResultIsPrefix ==
    ASSUME OutputInv, pc = "done"
    PROVE  Result = [k \in 1..j |-> buf[k - 1]]
<1>1. PICK n \in Nat : n = 3 * Len(str)
  BY LenProperties DEF OutputInv, IndexInv, TypeOK
<1>2. buf \in [0..n -> 0..255] /\ j \in 0..n /\ DOMAIN buf = 0..n
  BY <1>1 DEF OutputInv, IndexInv, TypeOK
<1>3. /\ \A k \in 0..(j - 1) : buf[k] \in OutChars
      /\ buf[j] = 0
  BY DEF OutputInv
<1>4. Cardinality(DOMAIN buf) = n + 1
  BY <1>2, FS_Interval
<1> DEFINE Z == {k \in DOMAIN buf : buf[k] = 0} \cup {Cardinality(DOMAIN buf)}
<1>5. j \in Z /\ \A y \in Z : j <= y
  <2>1. 0 \notin OutChars
    BY DEF OutChars
  <2>2. QED
    BY <1>2, <1>3, <1>4, <2>1
<1>6. Min(Z) = j
  BY <1>5, <1>2, <1>4 DEF Min
<1>7. QED
  BY <1>6 DEF Result

\* So the returned string is [A-Za-z0-9%]*.
LEMMA ResultAtDone ==
    ASSUME OutputInv, pc = "done"
    PROVE  OutputAlphabet
<1>1. j \in Nat /\ \A k \in 0..(j - 1) : buf[k] \in OutChars
  BY DEF OutputInv, IndexInv, TypeOK
<1>2. Result = [k \in 1..j |-> buf[k - 1]]
  BY ResultIsPrefix
<1>3. Len(Result) = j /\ \A k \in 1..j : Result[k] \in OutChars
  BY <1>1, <1>2
<1>4. QED
  BY <1>3 DEF OutputAlphabet, OutChars

\* Whenever snprintf may write the four bytes of "%XX" and its NUL, the
\* string urlencodeup returns holds only letters, digits and '%', for every
\* password, every char signedness and every longer bound (a sign-extended
\* "%FFFFFFxx" is cut to its first three characters by the next write or by
\* the final NUL). The nonascii run shows the text then differs from %XX.
THEOREM OutputOnlyUnreserved ==
    ASSUME FmtSize >= 4
    PROVE  Spec => []OutputAlphabet
<1>1. OutputInv /\ [Next]_vars => OutputInv'
  BY NextIndex, NextOutput DEF OutputInv, OutputCore
<1>2. OutputInv => OutputAlphabet
  BY ResultAtDone DEF OutputAlphabet
<1>3. QED
  BY InitOutput, <1>1, <1>2, PTL DEF Spec

-----------------------------------------------------------------------------
(* StepEmitsSpecChunk: one iteration emits the spec's chunk for its byte.  *)

\* Every reachable state satisfies IndexInv.
LEMMA IndexInvariant == Spec => []IndexInv
BY InitIndex, NextIndex, PTL DEF Spec

\* A byte whose char is not negative and that isalnum accepts is its own
\* chunk.
LEMMA CopyChunk ==
    ASSUME NonNegativeChars, NEW b \in Bytes, Unreserved(CharOf(b))
    PROVE  SpecChunk(b) = <<b>>
<1>1. CharOf(b) = b
  BY NonNegativeCharOf, CharOfRange
<1>2. QED
  BY <1>1 DEF SpecChunk

\* For any other byte with a non-negative char, snprintf with room for four
\* bytes writes the spec's three-character chunk "%XX" and its NUL.
LEMMA EncodeChunk ==
    ASSUME NonNegativeChars, FmtSize >= 4, NEW b \in Bytes, ~Unreserved(CharOf(b))
    PROVE  LET w == SnprintfOut(FmtSize, Formatted(CharOf(b)))
           IN  /\ Len(SpecChunk(b)) = 3
               /\ Len(w) >= 3
               /\ \A k \in 1..3 : w[k] = SpecChunk(b)[k]
<1>1. CharOf(b) = b /\ b \in 0..255
  BY NonNegativeCharOf, CharOfRange, BytesAssumption
<1>2. PICK t : t = Formatted(b)
  OBVIOUS
<1>3. t = <<37>> \o Hex2(b) /\ SpecChunk(b) = t
  BY <1>1, <1>2, CharOfRange DEF Formatted, UIntHex, SpecChunk, Unreserved
<1>4. t \in Seq(FmtChars) /\ Len(t) = 3
  <2>1. b \in -128..255 /\ b >= 0
    BY <1>1
  <2>2. Formatted(b) \in Seq(FmtChars) /\ Len(Formatted(b)) = IF b < 0 THEN 9 ELSE 3
    BY <2>1, FormattedShape
  <2>3. QED
    BY <1>2, <2>1, <2>2
<1>5. PICK w : w = SnprintfOut(FmtSize, t)
  OBVIOUS
<1>6. /\ Len(w) = (IF FmtSize - 1 <= Len(t) THEN FmtSize - 1 ELSE Len(t)) + 1
      /\ \A k \in 1..(IF FmtSize - 1 <= Len(t) THEN FmtSize - 1 ELSE Len(t)) : w[k] = t[k]
  BY <1>4, <1>5, SnprintfShape
<1>7. Len(w) >= 3 /\ \A k \in 1..3 : w[k] = t[k]
  BY <1>4, <1>6
<1>8. QED
  BY <1>1, <1>2, <1>3, <1>4, <1>5, <1>7, Zenon

\* Each step of the loop, from a state of IndexInv, is a step of
\* EmitsSpecChunk: Copy writes the byte at j and moves j by one, Encode
\* writes "%XX" at j .. j+2 and moves j by three, and Terminate and
\* stuttering leave i alone.
LEMMA NextChunk ==
    ASSUME NonNegativeChars, FmtSize >= 4
    PROVE  IndexInv /\ [Next]_vars => [EmitsSpecChunk]_vars
<1> SUFFICES ASSUME IndexInv, [Next]_vars PROVE [EmitsSpecChunk]_vars
  OBVIOUS
<1>1. PICK n \in Nat : n = 3 * Len(str)
  BY LenProperties DEF IndexInv, TypeOK
<1>2. /\ Len(str) \in Nat /\ str \in [1..Len(str) -> Bytes]
      /\ buf \in [0..n -> 0..255] /\ j \in Nat /\ i \in 0..Len(str) /\ j <= 3 * i
  BY <1>1, LenProperties DEF IndexInv, TypeOK
<1>3. ASSUME NEW w, buf' = WriteAt(buf, j, w)
      PROVE  \A k \in 0..n : buf'[k] = IF j <= k /\ k < j + Len(w) THEN w[k - j + 1] ELSE buf[k]
  <2>1. \A k \in 0..n : WriteAt(buf, j, w)[k] =
            IF j <= k /\ k < j + Len(w) THEN w[k - j + 1] ELSE buf[k]
    BY <1>2 DEF WriteAt
  <2>2. QED
    BY <1>3, <2>1, Zenon
<1>4. CASE Copy
  <2>0. str[i + 1] \in Bytes /\ Unreserved(CharOf(str[i + 1]))
    BY <1>2, <1>4 DEF Copy
  <2>1. PICK b \in Bytes : b = str[i + 1] /\ Unreserved(CharOf(b))
    BY <2>0, Zenon
  <2>2. SpecChunk(b) = <<b>>
    BY <2>1, CopyChunk
  <2>3. PICK w : w = <<b>>
    OBVIOUS
  <2>4. buf' = WriteAt(buf, j, w) /\ j' = j + 1 /\ i' = i + 1
    BY <1>4, <2>1, <2>3 DEF Copy
  <2>5. \A k \in 0..n : buf'[k] = IF j <= k /\ k < j + Len(w) THEN w[k - j + 1] ELSE buf[k]
    BY <1>3, <2>4, Zenon
  <2>6. j \in 0..n /\ Len(w) = 1 /\ w[1] = b
    BY <1>1, <1>2, <1>4, <2>3 DEF Copy
  <2>7. buf'[j] = b
    BY <2>5, <2>6
  <2>8. Len(SpecChunk(b)) = 1 /\ SpecChunk(b)[1] = b
    BY <2>2
  <2>9. j' = j + Len(SpecChunk(b))
    BY <2>4, <2>8
  <2>10. \A k \in 1..Len(SpecChunk(b)) : buf'[j + k - 1] = SpecChunk(b)[k]
    BY <1>2, <2>7, <2>8
  <2>11. QED
    BY <2>1, <2>9, <2>10, Zenon DEF EmitsSpecChunk
<1>5. CASE Encode
  <2>0. str[i + 1] \in Bytes /\ ~Unreserved(CharOf(str[i + 1]))
    BY <1>2, <1>5 DEF Encode
  <2>1. PICK b \in Bytes : b = str[i + 1] /\ ~Unreserved(CharOf(b))
    BY <2>0, Zenon
  <2>2. PICK w : w = SnprintfOut(FmtSize, Formatted(CharOf(b)))
    OBVIOUS
  <2>3. Len(SpecChunk(b)) = 3 /\ Len(w) >= 3 /\ \A k \in 1..3 : w[k] = SpecChunk(b)[k]
    BY <2>1, <2>2, EncodeChunk
  <2>4. buf' = WriteAt(buf, j, w) /\ j' = j + 3 /\ i' = i + 1
    BY <1>5, <2>1, <2>2 DEF Encode
  <2>5. \A k \in 0..n : buf'[k] = IF j <= k /\ k < j + Len(w) THEN w[k - j + 1] ELSE buf[k]
    BY <1>3, <2>4, Zenon
  <2>6. j + 3 <= n
    BY <1>1, <1>2, <1>5 DEF Encode
  <2>7. \A k \in 1..3 : buf'[j + k - 1] = SpecChunk(b)[k]
    <3>1. SUFFICES ASSUME NEW k \in 1..3 PROVE buf'[j + k - 1] = SpecChunk(b)[k]
      OBVIOUS
    <3>2. PICK q \in 0..n : q = j + k - 1
      BY <1>2, <2>6
    <3>3. j <= q /\ q < j + Len(w) /\ q - j + 1 = k
      BY <1>2, <2>3, <3>2
    <3>4. buf'[q] = w[k]
      BY <2>5, <3>3
    <3>5. QED
      BY <2>3, <3>2, <3>4
  <2>8. j' = j + Len(SpecChunk(b)) /\ \A k \in 1..Len(SpecChunk(b)) : buf'[j + k - 1] = SpecChunk(b)[k]
    BY <2>3, <2>4, <2>7
  <2>9. QED
    BY <2>1, <2>8, Zenon DEF EmitsSpecChunk
<1>6. CASE Terminate
  <2>1. i' = i
    BY <1>6 DEF Terminate
  <2>2. QED
    BY <1>2, <2>1 DEF EmitsSpecChunk
<1>7. CASE UNCHANGED vars
  BY <1>7 DEF vars
<1>8. QED
  BY <1>4, <1>5, <1>6, <1>7 DEF Next

\* When plain char is unsigned or the password is 7-bit, and snprintf may
\* write "%XX" and its NUL, every iteration of urlencodeup's loop writes the
\* spec 4.A encoding of the byte it consumes at szRet[j] and moves j just
\* past it, for every password length. (That the chunks then add up to
\* UrlEncodeSpec is EncodesAsSpec, which TLC checks.)
THEOREM StepMatchesSpec ==
    ASSUME NonNegativeChars, FmtSize >= 4
    PROVE  Spec => StepEmitsSpecChunk
BY IndexInvariant, NextChunk, PTL DEF Spec, StepEmitsSpecChunk

-----------------------------------------------------------------------------
(* EncodesByChunks: the returned string is the spec's encoding.           *)

\* The chunks of the bytes consumed so far sit at their places in szRet, and
\* j is where the next chunk goes.
ChunkCore ==
    /\ j = ChunkEnd(str, i)
    /\ \A k \in 1..i : \A m \in 1..Len(SpecChunk(str[k])) :
          buf[ChunkEnd(str, k - 1) + m - 1] = SpecChunk(str[k])[m]

ChunkInv == OutputInv /\ ChunkCore

\* A copied byte's chunk is one character, an encoded byte's three.
LEMMA SpecChunkLen ==
    ASSUME NEW b \in Int
    PROVE  Len(SpecChunk(b)) = IF Unreserved(b) THEN 1 ELSE 3
<1>1. CASE Unreserved(b)
  BY <1>1 DEF SpecChunk
<1>2. CASE ~Unreserved(b)
  <2>1. PICK t \in Seq(Int) : t = Hex2(b) /\ Len(t) = 2
    <3>1. Hex2(b) \in Seq(Int) /\ Len(Hex2(b)) = 2
      BY DEF Hex2, HexDigit
    <3>2. QED
      BY <3>1, Zenon
  <2>2. <<37>> \in Seq(Int) /\ Len(<<37>>) = 1
    OBVIOUS
  <2>3. Len(<<37>> \o t) = Len(<<37>>) + Len(t)
    BY <2>1, <2>2, ConcatProperties
  <2>4. Len(<<37>> \o t) = 3
    BY <2>1, <2>2, <2>3
  <2>5. QED
    BY <1>2, <2>1, <2>4, Zenon DEF SpecChunk
<1>3. QED
  BY <1>1, <1>2

\* The encoded bytes among the first k form a finite set of at most k.
LEMMA CountFinite ==
    ASSUME NEW s, NEW k \in Nat
    PROVE  /\ IsFiniteSet({m \in 1..k : ~Unreserved(s[m])})
           /\ Cardinality({m \in 1..k : ~Unreserved(s[m])}) \in 0..k
<1>1. IsFiniteSet(1..k) /\ Cardinality(1..k) = k
  BY FS_Interval
<1>2. QED
  BY <1>1, FS_Subset, FS_CardinalityType

\* Before the first byte, no chunk has been laid out.
LEMMA ChunkEndZero ==
    ASSUME NEW s
    PROVE  ChunkEnd(s, 0) = 0
<1>1. {m \in 1..0 : ~Unreserved(s[m])} = {}
  OBVIOUS
<1>2. QED
  BY <1>1, FS_EmptySet DEF ChunkEnd

\* The chunk of byte k + 1 ends one or three characters after that of k.
LEMMA ChunkEndStep ==
    ASSUME NEW s, NEW k \in Nat
    PROVE  ChunkEnd(s, k + 1) = ChunkEnd(s, k) + IF Unreserved(s[k + 1]) THEN 1 ELSE 3
<1> DEFINE A == {m \in 1..k : ~Unreserved(s[m])}
           B == {m \in 1..(k + 1) : ~Unreserved(s[m])}
<1>1. IsFiniteSet(A) /\ Cardinality(A) \in Nat
  <2>1. IsFiniteSet(A) /\ Cardinality(A) \in 0..k
    BY CountFinite, Zenon
  <2>2. QED
    BY <2>1
<1>2. CASE Unreserved(s[k + 1])
  <2>1. B = A
    BY <1>2
  <2>2. QED
    BY <1>1, <1>2, <2>1 DEF ChunkEnd
<1>3. CASE ~Unreserved(s[k + 1])
  <2>1. B = A \cup {k + 1} /\ k + 1 \notin A
    BY <1>3
  <2>2. Cardinality(A \cup {k + 1}) = Cardinality(A) + 1
    BY <1>1, <2>1, FS_AddElement
  <2>3. Cardinality(B) = Cardinality(A) + 1
    BY <2>1, <2>2
  <2>4. QED
    BY <1>1, <1>3, <2>3 DEF ChunkEnd
<1>4. QED
  BY <1>2, <1>3

\* Chunks end in order: a later byte's chunk ends no earlier.
LEMMA ChunkEndMono ==
    ASSUME NEW s, NEW k \in Nat, NEW l \in Nat, k <= l
    PROVE  ChunkEnd(s, k) \in Nat /\ ChunkEnd(s, k) <= ChunkEnd(s, l)
<1> DEFINE A == {m \in 1..k : ~Unreserved(s[m])}
           B == {m \in 1..l : ~Unreserved(s[m])}
<1>1. IsFiniteSet(B) /\ Cardinality(A) \in Nat /\ Cardinality(B) \in Nat
  <2>1. Cardinality(A) \in 0..k
    BY CountFinite, Zenon
  <2>2. IsFiniteSet(B) /\ Cardinality(B) \in 0..l
    BY CountFinite, Zenon
  <2>3. QED
    BY <2>1, <2>2
<1>2. A \subseteq B
  OBVIOUS
<1>3. Cardinality(A) <= Cardinality(B)
  BY <1>1, <1>2, FS_Subset
<1>4. QED
  BY <1>1, <1>3 DEF ChunkEnd

\* A step never changes a cell below j, and never moves j back: each write
\* of the loop starts at j.
LEMMA BelowUnchanged ==
    IndexInv /\ [Next]_vars => j <= j' /\ \A k \in 0..(j - 1) : buf'[k] = buf[k]
<1> SUFFICES ASSUME IndexInv, [Next]_vars
             PROVE  j <= j' /\ \A k \in 0..(j - 1) : buf'[k] = buf[k]
  OBVIOUS
<1>1. PICK n \in Nat : n = 3 * Len(str)
  BY LenProperties DEF IndexInv, TypeOK
<1>2. buf \in [0..n -> 0..255] /\ j \in 0..n
  BY <1>1 DEF IndexInv, TypeOK
<1>3. ASSUME NEW w, buf' = WriteAt(buf, j, w)
      PROVE  \A k \in 0..(j - 1) : buf'[k] = buf[k]
  <2>1. \A k \in 0..(j - 1) : WriteAt(buf, j, w)[k] = buf[k]
    BY <1>2 DEF WriteAt
  <2>2. QED
    BY <1>3, <2>1, Zenon
<1>4. CASE Copy
  BY <1>2, <1>3, <1>4 DEF Copy
<1>5. CASE Encode
  BY <1>2, <1>3, <1>5 DEF Encode
<1>6. CASE Terminate
  BY <1>2, <1>3, <1>6 DEF Terminate
<1>7. CASE UNCHANGED vars
  BY <1>2, <1>7 DEF vars
<1>8. QED
  BY <1>4, <1>5, <1>6, <1>7 DEF Next

\* The chunk of byte k, for k <= last, lies in the cells before
\* ChunkEnd(s, last).
LEMMA ChunkInside ==
    ASSUME NEW s \in Seq(Bytes), NEW last \in 0..Len(s), NEW k \in 1..last,
           NEW m \in 1..Len(SpecChunk(s[k]))
    PROVE  ChunkEnd(s, k - 1) + m - 1 \in 0..(ChunkEnd(s, last) - 1)
<1>1. PICK p \in Nat : p + 1 = k
  OBVIOUS
<1>2. ChunkEnd(s, p + 1) = ChunkEnd(s, p) + IF Unreserved(s[p + 1]) THEN 1 ELSE 3
  BY ChunkEndStep
<1>3. PICK b \in Bytes : b = s[k]
  <2>1. k \in 1..Len(s)
    OBVIOUS
  <2>2. s[k] \in Bytes
    BY <2>1, ElementOfSeq
  <2>3. QED
    BY <2>2, Zenon
<1>4. b \in Int
  BY BytesAssumption
<1>5. Len(SpecChunk(b)) = IF Unreserved(b) THEN 1 ELSE 3
  BY <1>4, SpecChunkLen
<1>6. ChunkEnd(s, k) = ChunkEnd(s, p) + IF Unreserved(b) THEN 1 ELSE 3
  BY <1>1, <1>2, <1>3, Zenon
<1>7. m \in 1..Len(SpecChunk(b))
  BY <1>3, Zenon
<1>8. /\ ChunkEnd(s, p) \in Nat /\ ChunkEnd(s, k) \in Nat /\ ChunkEnd(s, last) \in Nat
      /\ ChunkEnd(s, k) <= ChunkEnd(s, last)
  <2>1. ChunkEnd(s, p) \in Nat
    BY ChunkEndMono
  <2>2. ChunkEnd(s, k) \in Nat /\ ChunkEnd(s, k) <= ChunkEnd(s, last)
    BY ChunkEndMono
  <2>3. ChunkEnd(s, last) \in Nat
    BY ChunkEndMono
  <2>4. QED
    BY <2>1, <2>2, <2>3
<1>9. ChunkEnd(s, k - 1) = ChunkEnd(s, p)
  BY <1>1
<1>10. ChunkEnd(s, p) + m - 1 \in 0..(ChunkEnd(s, last) - 1)
  BY <1>5, <1>6, <1>7, <1>8
<1>11. QED
  BY <1>9, <1>10, Zenon

\* Initially no byte is consumed and j is 0, where the first chunk goes.
LEMMA InitChunk == Init => ChunkInv
<1> SUFFICES ASSUME Init PROVE ChunkInv
  OBVIOUS
<1>1. OutputInv
  BY InitOutput
<1>2. j = ChunkEnd(str, i)
  BY ChunkEndZero DEF Init
<1>3. QED
  BY <1>1, <1>2 DEF Init, ChunkInv, ChunkCore

\* A step keeps every placed chunk, since it only writes from j on, and an
\* iteration places the next chunk at j and moves j to where it ends.
LEMMA NextChunkCore ==
    ASSUME NonNegativeChars, FmtSize >= 4
    PROVE  ChunkInv /\ [Next]_vars => ChunkCore'
<1> SUFFICES ASSUME IndexInv, ChunkCore, [Next]_vars PROVE ChunkCore'
  BY DEF ChunkInv, OutputInv
<1>1. str \in Seq(Bytes) /\ Len(str) \in Nat /\ i \in 0..Len(str) /\ j \in Nat
  BY LenProperties DEF IndexInv, TypeOK
<1>2. str' = str
  BY DEF Next, Copy, Encode, Terminate, vars
<1>3. [EmitsSpecChunk]_vars
  BY NextChunk
<1>4. j <= j' /\ \A q \in 0..(j - 1) : buf'[q] = buf[q]
  BY BelowUnchanged
<1>5. (i' = i /\ j' = j) \/ (i' = i + 1 /\ i < Len(str))
  BY DEF Next, Copy, Encode, Terminate, vars
<1>6. \A k \in 1..i : \A m \in 1..Len(SpecChunk(str[k])) :
         buf'[ChunkEnd(str, k - 1) + m - 1] = SpecChunk(str[k])[m]
  <2>1. SUFFICES ASSUME NEW k \in 1..i, NEW m \in 1..Len(SpecChunk(str[k]))
                 PROVE  buf'[ChunkEnd(str, k - 1) + m - 1] = SpecChunk(str[k])[m]
    OBVIOUS
  <2>2. PICK q \in 0..(ChunkEnd(str, i) - 1) : q = ChunkEnd(str, k - 1) + m - 1
    BY <1>1, ChunkInside
  <2>3. q \in 0..(j - 1)
    BY <2>2 DEF ChunkCore
  <2>4. buf[q] = SpecChunk(str[k])[m]
    BY <2>2 DEF ChunkCore
  <2>5. QED
    BY <1>4, <2>2, <2>3, <2>4
<1>7. CASE i' = i /\ j' = j
  BY <1>2, <1>6, <1>7 DEF ChunkCore
<1>8. CASE i' = i + 1 /\ i < Len(str)
  <2>1. EmitsSpecChunk
    BY <1>1, <1>3, <1>8 DEF vars
  <2>2. PICK b \in Bytes : b = str[i + 1]
    <3>1. str[i + 1] \in Bytes
      BY <1>1, <1>8, ElementOfSeq
    <3>2. QED
      BY <3>1, Zenon
  <2>3. /\ j' = j + Len(SpecChunk(b))
        /\ \A m \in 1..Len(SpecChunk(b)) : buf'[j + m - 1] = SpecChunk(b)[m]
    BY <1>8, <2>1, <2>2, Zenon DEF EmitsSpecChunk
  <2>4. ChunkEnd(str, i + 1) = j + Len(SpecChunk(b))
    <3>0. i \in Nat
      BY <1>1
    <3>1. ChunkEnd(str, i + 1) = ChunkEnd(str, i) + IF Unreserved(b) THEN 1 ELSE 3
      BY <3>0, <2>2, ChunkEndStep, Zenon
    <3>2. Len(SpecChunk(b)) = IF Unreserved(b) THEN 1 ELSE 3
      BY BytesAssumption, SpecChunkLen
    <3>3. QED
      BY <3>1, <3>2 DEF ChunkCore
  <2>5. j' = ChunkEnd(str', i')
    BY <1>2, <1>8, <2>3, <2>4, Zenon
  <2>6. \A m \in 1..Len(SpecChunk(str[i + 1])) :
           buf'[ChunkEnd(str, i) + m - 1] = SpecChunk(str[i + 1])[m]
    BY <2>2, <2>3, Zenon DEF ChunkCore
  <2>7. \A k \in 1..i' : \A m \in 1..Len(SpecChunk(str[k])) :
           buf'[ChunkEnd(str, k - 1) + m - 1] = SpecChunk(str[k])[m]
    <3>1. SUFFICES ASSUME NEW k \in 1..i' PROVE
            \A m \in 1..Len(SpecChunk(str[k])) :
              buf'[ChunkEnd(str, k - 1) + m - 1] = SpecChunk(str[k])[m]
      OBVIOUS
    <3>2. CASE k \in 1..i
      BY <1>6, <3>2
    <3>3. CASE k = i + 1
      <4>1. k - 1 = i
        BY <1>1, <3>3
      <4>2. QED
        BY <2>6, <3>3, <4>1, Zenon
    <3>4. QED
      BY <1>1, <1>8, <3>2, <3>3
  <2>8. QED
    BY <1>2, <2>5, <2>7, Zenon DEF ChunkCore
<1>9. QED
  BY <1>5, <1>7, <1>8

\* At the return, szRet up to its NUL is buf[0 .. j-1], with j at the end of
\* the last chunk, so the returned string is the chunks laid end to end.
LEMMA ChunksAtDone ==
    ASSUME ChunkInv, pc = "done"
    PROVE  ChunksAt(str, Result)
<1>1. Result = [q \in 1..j |-> buf[q - 1]]
  BY ResultIsPrefix DEF ChunkInv
<1>2. str \in Seq(Bytes) /\ Len(str) \in Nat /\ i = Len(str) /\ j \in Nat
  BY LenProperties DEF ChunkInv, OutputInv, IndexInv, TypeOK
<1>3. j = ChunkEnd(str, Len(str))
  BY <1>2 DEF ChunkInv, ChunkCore
<1>4. Len(Result) = ChunkEnd(str, Len(str))
  BY <1>1, <1>2, <1>3
<1>5. \A k \in 1..Len(str) : \A m \in 1..Len(SpecChunk(str[k])) :
         Result[ChunkEnd(str, k - 1) + m] = SpecChunk(str[k])[m]
  <2>1. SUFFICES ASSUME NEW k \in 1..Len(str), NEW m \in 1..Len(SpecChunk(str[k]))
                 PROVE  Result[ChunkEnd(str, k - 1) + m] = SpecChunk(str[k])[m]
    OBVIOUS
  <2>2. PICK q \in 0..(ChunkEnd(str, Len(str)) - 1) : q = ChunkEnd(str, k - 1) + m - 1
    <3>1. Len(str) \in 0..Len(str) /\ k \in 1..Len(str)
      BY <1>2
    <3>2. ChunkEnd(str, k - 1) + m - 1 \in 0..(ChunkEnd(str, Len(str)) - 1)
      BY <1>2, <3>1, ChunkInside, Zenon
    <3>3. QED
      BY <3>2, Zenon
  <2>3. Result[q + 1] = buf[q]
    <3>1. q \in 0..(j - 1)
      BY <1>3, <2>2
    <3>2. QED
      BY <1>1, <1>2, <3>1
  <2>4. buf[q] = SpecChunk(str[k])[m]
    BY <1>2, <2>2 DEF ChunkInv, ChunkCore
  <2>5. q + 1 = ChunkEnd(str, k - 1) + m
    <3>1. k - 1 \in Nat /\ k - 1 <= Len(str)
      BY <1>2
    <3>2. ChunkEnd(str, k - 1) \in Nat
      BY <1>2, <3>1, ChunkEndMono
    <3>3. QED
      BY <2>2, <3>2
  <2>6. QED
    BY <2>3, <2>4, <2>5, Zenon
<1>6. QED
  BY <1>4, <1>5 DEF ChunksAt

\* When plain char is unsigned or the password is 7-bit, and snprintf may
\* write "%XX" and its NUL (as the code's j += 3 presumes), the string
\* urlencodeup returns is the spec 4.A encoding of the password: the chunk of
\* every byte, in order, back to back, and nothing else, for every password
\* length. The nonascii run shows that a signed char breaks it.
THEOREM EncodesPasswordAsSpec ==
    ASSUME NonNegativeChars, FmtSize >= 4
    PROVE  Spec => []EncodesByChunks
<1>1. ChunkInv /\ [Next]_vars => ChunkInv'
  BY NextIndex, NextOutput, NextChunkCore DEF ChunkInv, OutputInv, OutputCore
<1>2. ChunkInv => EncodesByChunks
  BY ChunksAtDone DEF EncodesByChunks
<1>3. QED
  BY InitChunk, <1>1, <1>2, PTL DEF Spec

=============================================================================
