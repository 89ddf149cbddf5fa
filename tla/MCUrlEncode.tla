----------------------------- MODULE MCUrlEncode -----------------------------
(* urlencodeup on passwords of up to three bytes.                           *)
EXTENDS UrlEncode

\* ' ', '%', '&', '0', 'Z', '_', 'a': digits, letters at both ends of the
\* copied ranges, and characters just outside them.
AsciiBytes == {32, 37, 38, 48, 90, 95, 97}

\* The same with bytes above 0x7F, which a signed char reads as negative.
AllBytes == AsciiBytes \cup {128, 233, 255}
=============================================================================
