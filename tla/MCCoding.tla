------------------------------ MODULE MCCoding ------------------------------
(***************************************************************************)
(* Instances of Coding for TLC: bytes of 5 bits, so that every character   *)
(* the texts tell apart has a code, and varint groups of 4, so that the    *)
(* longest varint has bits to spare as the real ones do.                   *)
(***************************************************************************)
EXTENDS Coding

\* Both sides of every boundary between varint lengths; the longest slice needs a
\* longer length with padding than without.
MCValues32 == {0, 15, 16, 255, 256, 1023}
MCValues64 == MCValues32 \cup {4095, 4096, 32767}
MCSigned64 == {-16384, -2049, -2048, -9, -8, -1, 0, 1, 7, 8, 2047, 2048, 16383}
MCContents ==
  {<< >>, << 0 >>, << 31 >>, << 16, 16 >>, << 3, 5, 0 >>, << 3, 5, 9, 31 >>, [k \in 1 .. 15 |-> k]}

\* Every key of three user keys, two sequence numbers and three types; the user
\* keys' numbers differ in both of their low bytes.
MCKeys ==
  [user_key : {1, 31, 32}, sequence : SequenceNumbers,
   type : {0, kTypeRangeDeletion, kValueTypeForSeek}]

\* The largest 64 bit number, the next one, and numbers cut to others.
MCNumbers == {0, 7, 10, 32767, 32768, 32770, 99999}
MCOptions ==
  {<< >>, << LF >>, << CR, Hash >>, << Backslash >>, << Charn >>, << Backslash, Charn >>,
   << Backslash, Backslash >>, << Colon, 30, LF >>}
MCIntVectors == {<< >>, << 0 >>, << -1 >>, << 12, 3 >>, << -20, 0, 5 >>}
=============================================================================
