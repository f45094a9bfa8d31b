------------------------------- MODULE ByteFifo -------------------------------
(***************************************************************************)
(* What an fmbuf promises its caller: a bounded queue of bytes.  q is the  *)
(* content, cap the capacity; ret and got are what the last call returned  *)
(* (0 success, 1 failure; the bytes delivered).  Nothing here knows of     *)
(* offsets, wrapping or the order in which memory is copied.               *)
(***************************************************************************)
EXTENDS Integers, Sequences

CONSTANTS Byte,      \* the values of a byte
          MaxSize    \* bound on the capacity

VARIABLES q, cap, ret, got

vars == <<q, cap, ret, got>>

Bytes(n) == [1..n -> Byte]

Init == /\ q = <<>>
        /\ cap \in 0..MaxSize
        /\ ret = 0
        /\ got = <<>>

\* n bytes can be added / taken.
Fits(n) == n > 0 /\ Len(q) + n <= cap
Holds(n) == n > 0 /\ n <= Len(q)

Done(r, d) == ret' = r /\ got' = d

Put(d) == \/ Fits(Len(d)) /\ q' = q \o d /\ cap' = cap /\ Done(0, <<>>)
          \/ ~Fits(Len(d)) /\ UNCHANGED <<q, cap>> /\ Done(1, <<>>)

\* Take n bytes and deliver them, or drop them undelivered.
Get(n) == \/ /\ Holds(n)
             /\ q' = SubSeq(q, n + 1, Len(q))
             /\ cap' = cap
             /\ Done(0, SubSeq(q, 1, n))
          \/ ~Holds(n) /\ UNCHANGED <<q, cap>> /\ Done(1, <<>>)

Drop(n) == \/ Holds(n) /\ q' = SubSeq(q, n + 1, Len(q)) /\ cap' = cap /\ Done(0, <<>>)
           \/ ~Holds(n) /\ UNCHANGED <<q, cap>> /\ Done(1, <<>>)

Peek(n) == /\ UNCHANGED <<q, cap>>
           /\ \/ Holds(n) /\ Done(0, SubSeq(q, 1, n))
              \/ ~Holds(n) /\ Done(1, <<>>)

\* Space for n bytes whose value the caller fills in later.
Reserve(n) == \/ /\ Len(q) + n <= cap
                 /\ \E d \in Bytes(n) : q' = q \o d
                 /\ cap' = cap
                 /\ Done(0, <<>>)
              \/ Len(q) + n > cap /\ UNCHANGED <<q, cap>> /\ Done(1, <<>>)

\* Give back bytes already taken (their value is whatever the memory holds), and
\* withdraw bytes from the end.
Ungrab(n) == /\ Len(q) + n <= cap
             /\ \E d \in Bytes(n) : q' = d \o q
             /\ cap' = cap
             /\ Done(0, <<>>)

Retract(n) == /\ n <= Len(q)
              /\ q' = SubSeq(q, 1, Len(q) - n)
              /\ cap' = cap
              /\ Done(0, <<>>)

Clear == q' = <<>> /\ cap' = cap /\ Done(0, <<>>)

\* Resizing keeps the content: the capacity never gets below it.
Resize(n) == q' = q /\ cap' = (IF n > Len(q) THEN n ELSE Len(q)) /\ Done(0, <<>>)

\* Moving the bytes inside the memory shows nothing.
Compact == UNCHANGED <<q, cap>> /\ Done(0, <<>>)

Next == \/ \E n \in 0..MaxSize + 1 :
             \/ \E d \in Bytes(n) : Put(d)
             \/ Get(n) \/ Drop(n) \/ Peek(n)
             \/ Reserve(n) \/ Ungrab(n) \/ Retract(n)
        \/ \E n \in 0..MaxSize : Resize(n)
        \/ Clear \/ Compact

Spec == Init /\ [][Next]_vars
=============================================================================
