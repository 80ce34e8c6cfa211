-------------------------------- MODULE Bytes --------------------------------
(* Byte sequences, as the program's buffers and the files and blobs it      *)
(* writes use them, and the numbers in them, little endian.                *)
EXTENDS Integers, Sequences

Byte == 0..255

(* Overwrite from position pos (counted from 0) on, as a seek and a write  *)
(* do.  Writing behind the end pads with zeros; writing nothing pads       *)
(* nothing.                                                                *)
Patch(bytes, pos, data) ==
  LET end == pos + Len(data)
  IN  IF data = <<>> THEN bytes
      ELSE [i \in 1..(IF end > Len(bytes) THEN end ELSE Len(bytes)) |->
              IF i \in (pos + 1)..end THEN data[i - pos]
              ELSE IF i <= Len(bytes) THEN bytes[i] ELSE 0]

(* n >> 8 * i, for the up to 8 bytes of a number.                          *)
Shifted(n) ==
  LET rest[i \in 0..8] == IF i = 0 THEN n ELSE rest[i - 1] \div 256
  IN  rest

Fits(n, width) == Shifted(n)[width] = 0

Encode_NoMask(n, width) == [i \in 1..width |-> Shifted(n)[i - 1]]

Encode(n, width) == [i \in 1..width |-> Shifted(n)[i - 1] % 256]

Decode(bytes) ==
  LET from[i \in 1..Len(bytes) + 1] ==
        IF i > Len(bytes) THEN 0 ELSE bytes[i] + 256 * from[i + 1]
  IN  from[1]

=============================================================================
