------------------------------- MODULE Bytes -------------------------------
(***************************************************************************)
(* Byte strings, as sequences of numbers in 0..255, with the slices and    *)
(* the big-endian integers that every codec of the crates is written with. *)
(* Err is the Err(..) of a Result, whatever the reason it gives; None is   *)
(* the None of an Option.                                                  *)
(***************************************************************************)
EXTENDS Integers, SequencesExt

CONSTANTS Err, None

Take(s, n) == SubSeq(s, 1, n)
Drop(s, n) == SubSeq(s, n + 1, Len(s))

\* n equal bytes: a body whose content no property looks at.
Fill(n, b) == [i \in 1..n |-> b]

Be16(n) == <<(n \div 256) % 256, n % 256>>
Be24(n) == <<(n \div 65536) % 256>> \o Be16(n)

\* A value of two bytes is read from two bytes, no fewer and no more.
ReadU16(b) == IF Len(b) = 2 THEN b[1] * 256 + b[2] ELSE Err
ReadU24(b) == b[1] * 65536 + b[2] * 256 + b[3]

\* A fixed number of bytes, read as they are.
ReadArray(n, b) == IF Len(b) = n THEN b ELSE Err

\* `width` bits of byte b, the lowest of them bit `low`.
Bits(b, low, width) == (b \div 2^low) % 2^width
Flag(b, i) == Bits(b, i, 1) = 1

\* The byte string cut into n-byte pieces; Err when bytes are left over.
Chunks(n, b) ==
    IF Len(b) % n # 0 THEN Err
    ELSE [i \in 1..(Len(b) \div n) |-> SubSeq(b, (i - 1) * n + 1, i * n)]

\* f of every element; Err when f refuses one of them, or s is Err already.
Each(f(_), s) ==
    IF s = Err THEN Err
    ELSE IF \E i \in DOMAIN s : f(s[i]) = Err THEN Err
    ELSE [i \in DOMAIN s |-> f(s[i])]
=============================================================================
