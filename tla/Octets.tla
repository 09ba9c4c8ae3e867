-------------------------------- MODULE Octets --------------------------------
(***************************************************************************)
(* The octets of files and of the buffers of ports, and what a write does  *)
(* to a sequence of them (write(2) after lseek(2), bytevector-copy!).      *)
(***************************************************************************)
EXTENDS Integers, Sequences

CONSTANTS
  Octet,
  Gap        \* the octet a file holds where nothing was written

\* What the constants must satisfy.
Assumptions == Gap \notin Octet

\* FILE with the octets BS from the position AT on.
Overwritten(file, at, bs) ==
  IF bs = <<>> THEN file
  ELSE [i \in 1 .. (IF at + Len(bs) > Len(file) THEN at + Len(bs) ELSE Len(file)) |->
          IF i \in at + 1 .. at + Len(bs) THEN bs[i - at]
          ELSE IF i <= Len(file) THEN file[i] ELSE Gap]

=============================================================================
