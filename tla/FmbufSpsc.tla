------------------------------ MODULE FmbufSpsc ------------------------------
(***************************************************************************)
(* One fmbuf between two threads without a lock, the way flog.c (a logging *)
(* thread and the fetcher) and fthread_pool.c (the poster and a worker)    *)
(* use it: the producer only calls fmbuf_push, the consumer fmbuf_pop.     *)
(*                                                                         *)
(* A call is split where the other thread can come in between: the load of *)
(* the other's pointer, the copy, the store of the own pointer.  These are *)
(* plain accesses, so what happens depends on the build.  This module is   *)
(* the release build (.Makefile.inc: -O2): the compiler loads the other's  *)
(* pointer once and computes the wrapped own pointer in a register, so     *)
(* that it is stored once.  The debug build is not modelled.  Stores       *)
(* become visible in program order (x86; the code has FMEM_BARRIER only    *)
(* on the wrapping paths).  The specification is SSpec: its name and those *)
(* of its parts leave Spec to the pool of threads that is built on it.     *)
(***************************************************************************)
EXTENDS FmbufMath

CONSTANTS Size,        \* size of the buffer
          MaxSent      \* bound: bytes the producer pushes in all

ASSUME SpscAssumption == /\ Size \in Nat \ {0}
                         /\ MaxSent \in Nat

VARIABLES head, tail, buf,   \* the shared fmbuf
          pushpc, pn,        \* producer: pc and length of the push in progress
          poppc, cn,         \* consumer: pc and length of the pop in progress
          sent,              \* bytes pushed so far; byte i has the value i
          rcvd               \* the bytes popped so far

svars == <<head, tail, buf, pushpc, pn, poppc, cn, sent, rcvd>>
pvars == <<pushpc, pn, sent>>
cvars == <<poppc, cn, rcvd>>

SInit == /\ head = 0 /\ tail = 0
         /\ buf = [k \in 0..Size |-> 0]
         /\ pushpc = "idle" /\ pn = 0
         /\ poppc = "idle" /\ cn = 0
         /\ sent = 0 /\ rcvd = <<>>

\* The data of the push in progress.
Data == [i \in 1..pn |-> sent + i]

-----------------------------------------------------------------------------
(* fmbuf_push: the check with the head as it is now, the copy, the store.  *)

\* (Mutant: the byte that keeps full apart from empty is given away.)
Room_NoReserve(n) == MBUF_FREE(head, tail, Size) + 1 >= n

Room(n) == MBUF_FREE(head, tail, Size) >= n

PushCall(n) == /\ pushpc = "idle" /\ sent + n <= MaxSent
               /\ pn' = n
               /\ pushpc' = IF Room(n) THEN "copy" ELSE "idle"
               /\ UNCHANGED <<head, tail, buf, sent>> /\ UNCHANGED cvars

PushCopy == /\ pushpc = "copy"
            /\ buf' = PushStore(buf, tail, Data, Size)
            /\ pushpc' = "store"
            /\ UNCHANGED <<head, tail, pn, sent>> /\ UNCHANGED cvars

PushPublish == /\ pushpc = "store"
               /\ tail' = PushTail(tail, pn, Size)
               /\ pushpc' = "idle"
               /\ sent' = sent + pn
               /\ UNCHANGED <<head, buf, pn>> /\ UNCHANGED cvars

-----------------------------------------------------------------------------
(* fmbuf_pop: the same on the other side.                                  *)

\* (Mutant: a pop of one byte more than there is.)
Ready_OffByOne(n) == n <= MBUF_USED(head, tail, Size) + 1

Ready(n) == n <= MBUF_USED(head, tail, Size)

PopCall(n) == /\ poppc = "idle"
              /\ cn' = n
              /\ poppc' = IF Ready(n) THEN "copy" ELSE "idle"
              /\ UNCHANGED <<head, tail, buf, rcvd>> /\ UNCHANGED pvars

PopCopy == /\ poppc = "copy"
           /\ rcvd' = rcvd \o ReadBytes(buf, head, cn, Size)
           /\ poppc' = "store"
           /\ UNCHANGED <<head, tail, buf, cn>> /\ UNCHANGED pvars

PopPublish == /\ poppc = "store"
              /\ head' = PopHead(head, cn, Size)
              /\ poppc' = "idle"
              /\ UNCHANGED <<tail, buf, cn, rcvd>> /\ UNCHANGED pvars

-----------------------------------------------------------------------------
SNext == \/ \E n \in 1..Size : PushCall(n)
         \/ PushCopy
         \/ PushPublish
         \/ \E n \in 1..Size : PopCall(n)
         \/ PopCopy
         \/ PopPublish

SSpec == SInit /\ [][SNext]_svars

-----------------------------------------------------------------------------
(* Properties.                                                             *)

\* Type invariant; also between the steps of the two calls neither pointer
\* leaves the memory.
STypeOK == /\ head \in 0..Size
           /\ tail \in 0..Size
           /\ buf \in [0..Size -> 0..MaxSent]
           /\ pushpc \in {"idle", "copy", "store"}
           /\ poppc \in {"idle", "copy", "store"}
           /\ pn \in 0..Size /\ cn \in 0..Size
           /\ sent \in 0..MaxSent
           /\ rcvd \in Seq(0..MaxSent)

\* The consumer gets the bytes the producer pushed, each once and in order, and
\* a pop succeeds only when that many bytes have been pushed (fmbuf.h of
\* fmbuf_pop: "failure: the mbuf size < user expected size"), whatever the
\* interleaving of the two calls.
StreamIntact == /\ Len(rcvd) <= sent
                /\ \A i \in 1..Len(rcvd) : rcvd[i] = i

\* What is between head and tail is what has been pushed and not yet popped: the
\* producer never overwrites a byte the consumer may still be copying.
Popped == IF poppc = "store" THEN Len(rcvd) - cn ELSE Len(rcvd)

UnreadKept ==
  LET u == MBUF_USED(head, tail, Size)
  IN  /\ Popped + u = sent
      /\ ReadBytes(buf, head, u, Size) = [i \in 1..u |-> Popped + i]
=============================================================================
