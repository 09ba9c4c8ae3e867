------------------------------- MODULE FilePort -------------------------------
(***************************************************************************)
(* What a binary input/output port on a file promises: the octets it is    *)
(* given are in the file at the position they were given for, and what it  *)
(* answers is what the file holds.  There is no buffer: the file changes   *)
(* when octets are put, the position when they are put or taken or when    *)
(* the port is positioned.                                                 *)
(***************************************************************************)
EXTENDS Octets

VARIABLES
  content,   \* of the file
  position,  \* of the port
  isOpen,
  answer     \* the octets of the last answer, EofObject or WouldBlock

vars == <<content, position, isOpen, answer>>

EofObject == -1

WouldBlock == -2

Init ==
  /\ content \in Seq(Octet) /\ position = 0
  /\ isOpen = TRUE /\ answer = <<>>

\* N octets, whatever they are, that the new content has at the position.
Put(n) ==
  /\ isOpen
  /\ content' \in Seq(Octet \cup {Gap}) /\ position + n <= Len(content')
  /\ LET bs == SubSeq(content', position + 1, position + n)
     IN bs \in Seq(Octet) /\ content' = Overwritten(content, position, bs)
  /\ position' = position + n
  /\ UNCHANGED <<isOpen, answer>>

\* N more octets of the answer are consumed.
Take(n) ==
  /\ isOpen /\ position + n <= Len(content)
  /\ answer' = answer \o SubSeq(content, position + 1, position + n)
  /\ position' = position + n
  /\ UNCHANGED <<content, isOpen>>

\* The next N octets as far as they are known: the octets that are missing are
\* missing because the content ends, or because the port would have to wait.
Look(n) ==
  /\ isOpen
  /\ \E k \in 0 .. n, missing \in {EofObject, WouldBlock} :
       /\ k = 0 \/ position + k <= Len(content)
       /\ (missing = EofObject /\ k < n) => position + k >= Len(content)
       /\ answer' = SubSeq(content, position + 1, position + k)
                      \o [i \in 1 .. n - k |-> missing]
  /\ UNCHANGED <<content, position, isOpen>>

\* A question is asked: what was answered before is no part of its answer.
Ask ==
  /\ isOpen
  /\ answer' = <<>>
  /\ UNCHANGED <<content, position, isOpen>>

Seek ==
  /\ isOpen
  /\ position' \in Nat
  /\ UNCHANGED <<content, isOpen, answer>>

Close ==
  /\ isOpen' = FALSE
  /\ UNCHANGED <<content, position, answer>>

Next ==
  \/ \E n \in 1 .. Len(content') : Put(n)
  \/ \E n \in 1 .. Len(content) : Take(n)
  \/ Look(1) \/ Look(2)
  \/ Ask
  \/ Seek
  \/ Close

Spec == Init /\ [][Next]_vars

=============================================================================
