------------------------------ MODULE UrlEncode ------------------------------
(***************************************************************************)
(* urlencodeup (web-form.c): the loop that percent-encodes the password    *)
(* into a calloc'ed buffer of 3*len+1 chars. Characters are byte values;   *)
(* the buffer is a function from its indices to bytes, and a write past    *)
(* its end is recorded in oob instead of being performed.                  *)
(***************************************************************************)
EXTENDS Integers, SequencesExt

CONSTANTS
    Bytes,       \* the byte values a password may contain (no NUL)
    MaxLen,      \* the longest password enumerated
    SignedChar,  \* whether plain char is signed on the target ABI
    FmtSize      \* sizeof(URL_ENCODE_BYTE_FMT), the bound given to snprintf

ASSUME BytesAssumption == Bytes \subseteq 1..255
ASSUME MaxLenAssumption == MaxLen \in Nat
ASSUME SignedCharAssumption == SignedChar \in BOOLEAN
ASSUME FmtSizeAssumption == FmtSize \in Nat \ {0}

\* char c = szStr[i]: the byte read as a plain char.
CharOf(b) == IF SignedChar /\ b >= 128 THEN b - 256 ELSE b

\* BETWEEN(lo, c, hi) of web-form.h, on the (possibly negative) char.
Between(lo, c, hi) == lo <= c /\ c <= hi

\* The characters copied unchanged: a-z, A-Z, 0-9.
Unreserved(c) == Between(97, c, 122) \/ Between(65, c, 90) \/ Between(48, c, 57)

\* An uppercase hexadecimal digit, as its ASCII code.
HexDigit(d) == IF d < 10 THEN 48 + d ELSE 55 + d

\* %02X of a value in 0..255.
Hex2(v) == <<HexDigit(v \div 16), HexDigit(v % 16)>>

\* %02X of (unsigned int) c. A negative char converts to 2^32 + c, whose
\* eight hex digits are six F's followed by the two digits of c + 256.
UIntHex(c) == IF c < 0 THEN [k \in 1..6 |-> 70] \o Hex2(c + 256) ELSE Hex2(c)

\* The text URL_ENCODE_BYTE_FMT ("%%%02X") produces for c.
Formatted(c) == <<37>> \o UIntHex(c)

\* What snprintf(dst, n, ...) stores: at most n - 1 characters of the
\* text, then a NUL.
SnprintfOut(n, text) == SubSeq(text, 1, Min({n - 1, Len(text)})) \o <<0>>

\* The buffer after storing the characters w from index pos on, and the
\* indices of w that fall outside it.
WriteAt(b, pos, w) ==
    [k \in DOMAIN b |-> IF pos <= k /\ k < pos + Len(w) THEN w[k - pos + 1] ELSE b[k]]
Spill(b, pos, w) == {pos + k - 1 : k \in 1..Len(w)} \ DOMAIN b

VARIABLES
    str,  \* szStr, the password as a sequence of bytes
    buf,  \* szRet, indices 0..3*iLen
    i,    \* loop index i
    j,    \* output index j
    oob,  \* indices written past the end of szRet (heap overflow)
    pc    \* "loop" while in the for loop, "done" once szRet is returned

vars == <<str, buf, i, j, oob, pc>>

\* Mutants: the plausible bugs the properties are checked to catch.
EncodeAdvanceTwo ==
    /\ pc = "loop"
    /\ i < Len(str)
    /\ ~Unreserved(CharOf(str[i + 1]))
    /\ LET w == SnprintfOut(FmtSize, Formatted(CharOf(str[i + 1])))
       IN /\ buf' = WriteAt(buf, j, w)
          /\ oob' = oob \cup Spill(buf, j, w)
    /\ j' = j + 2
    /\ i' = i + 1
    /\ UNCHANGED <<str, pc>>

InitNoTerminatorRoom ==
    /\ str \in SeqOf(Bytes, MaxLen)
    /\ buf = [k \in 0..(3 * Len(str) - 1) |-> 0]
    /\ i = 0 /\ j = 0 /\ oob = {} /\ pc = "loop"

CopyWideRange ==
    /\ pc = "loop"
    /\ i < Len(str)
    /\ Between(65, CharOf(str[i + 1]), 122) \/ Between(48, CharOf(str[i + 1]), 57)
    /\ buf' = WriteAt(buf, j, <<str[i + 1]>>)
    /\ oob' = oob \cup Spill(buf, j, <<str[i + 1]>>)
    /\ j' = j + 1
    /\ i' = i + 1
    /\ UNCHANGED <<str, pc>>

-----------------------------------------------------------------------------
\* strlen, then charcalloc(iLen * 3 + 1): a zeroed buffer.
Init ==
    /\ str \in SeqOf(Bytes, MaxLen)
    /\ buf = [k \in 0..(3 * Len(str)) |-> 0]
    /\ i = 0
    /\ j = 0
    /\ oob = {}
    /\ pc = "loop"

\* An alphanumeric character is copied: szRet[j] = c; j += 1.
Copy ==
    /\ pc = "loop"
    /\ i < Len(str)
    /\ Unreserved(CharOf(str[i + 1]))
    /\ buf' = WriteAt(buf, j, <<str[i + 1]>>)
    /\ oob' = oob \cup Spill(buf, j, <<str[i + 1]>>)
    /\ j' = j + 1
    /\ i' = i + 1
    /\ UNCHANGED <<str, pc>>

\* Any other character: snprintf(szRet + j, sizeof(URL_ENCODE_BYTE_FMT),
\* URL_ENCODE_BYTE_FMT, (unsigned int) c); j += 3.
Encode ==
    /\ pc = "loop"
    /\ i < Len(str)
    /\ ~Unreserved(CharOf(str[i + 1]))
    /\ LET w == SnprintfOut(FmtSize, Formatted(CharOf(str[i + 1])))
       IN /\ buf' = WriteAt(buf, j, w)
          /\ oob' = oob \cup Spill(buf, j, w)
    /\ j' = j + 3
    /\ i' = i + 1
    /\ UNCHANGED <<str, pc>>

\* After the loop: szRet[j] = '\0'; return szRet.
Terminate ==
    /\ pc = "loop"
    /\ i = Len(str)
    /\ buf' = WriteAt(buf, j, <<0>>)
    /\ oob' = oob \cup Spill(buf, j, <<0>>)
    /\ pc' = "done"
    /\ UNCHANGED <<str, i, j>>

Next == Copy \/ Encode \/ Terminate

Spec == Init /\ [][Next]_vars /\ WF_vars(Next)

-----------------------------------------------------------------------------
\* The C string szRet holds: its characters up to the first NUL.
Result ==
    LET n == Min({k \in DOMAIN buf : buf[k] = 0} \cup {Cardinality(DOMAIN buf)})
    IN  [k \in 1..n |-> buf[k - 1]]

\* The encoding spec 4.A asks for: a-z, A-Z and 0-9 unchanged, every other
\* byte as '%' and its two uppercase hex digits.
SpecChunk(b) == IF Unreserved(b) THEN <<b>> ELSE <<37>> \o Hex2(b)

UrlEncodeSpec(s) == FlattenSeq([k \in 1..Len(s) |-> SpecChunk(s[k])])

\* The same encoding laid out without recursion: the chunk of the k-th byte
\* ends at ChunkEnd(s, k), one character per byte and two more per encoded
\* byte, and e holds each chunk at its place. The chunks tile 1..Len(e), so
\* ChunksAt(s, e) determines e.
ChunkEnd(s, k) == k + 2 * Cardinality({m \in 1..k : ~Unreserved(s[m])})

ChunksAt(s, e) ==
    /\ Len(e) = ChunkEnd(s, Len(s))
    /\ \A k \in 1..Len(s) : \A m \in 1..Len(SpecChunk(s[k])) :
          e[ChunkEnd(s, k - 1) + m] = SpecChunk(s[k])[m]

\* Every variable holds a value of its type.
TypeOK ==
    /\ str \in Seq(Bytes)
    /\ buf \in [0..(3 * Len(str)) -> 0..255]
    /\ i \in 0..Len(str)
    /\ j \in 0..(3 * Len(str))
    /\ oob \subseteq Nat
    /\ pc \in {"loop", "done"}

\* The returned string is the spec's encoding of the password (spec 8.1:
\* decoding it yields the password byte for byte). This is about the loop's
\* index bookkeeping: each snprintf NUL must be overwritten by the next
\* character, and the final NUL land right after the last one.
EncodesAsSpec ==
    pc = "done" => Result = UrlEncodeSpec(str)

\* Each iteration of the for loop emits exactly the spec's encoding of the
\* byte it consumes: szRet[j .. j'-1] holds that chunk and j moves past it,
\* so the next write starts where the chunk ends. This is the step of
\* EncodesAsSpec, stated for one iteration of the j++ / j += 3 bookkeeping.
EmitsSpecChunk ==
    i' = i + 1 =>
        LET ch == SpecChunk(str[i + 1])
        IN  /\ j' = j + Len(ch)
            /\ \A k \in 1..Len(ch) : buf'[j + k - 1] = ch[k]

StepEmitsSpecChunk == [][EmitsSpecChunk]_vars

\* The returned string holds the spec 4.A chunk of every password byte, in
\* order and back to back, and nothing after the last one: the loop's j++ and
\* j += 3 keep pace with the chunks, each snprintf NUL is overwritten by the
\* next chunk, and the final NUL lands right after the last.
EncodesByChunks ==
    pc = "done" => ChunksAt(str, Result)

\* No iteration of urlencodeup writes past the 3*iLen+1 chars it allocated.
NoHeapOverflow ==
    oob = {}

\* The returned string only holds [A-Za-z0-9%] (spec 8.1), whatever bytes
\* the password holds.
OutputAlphabet ==
    pc = "done" =>
        \A k \in 1..Len(Result) :
            Result[k] \in (97..122) \cup (65..90) \cup (48..57) \cup {37}

=============================================================================
