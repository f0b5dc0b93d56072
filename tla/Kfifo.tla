------------------------------ MODULE Kfifo ------------------------------
(***************************************************************************)
(* The kernel's byte queue, struct kfifo, as seri.c uses it.  Each call    *)
(* runs with interrupts off (the queues are allocated with a spinlock), so *)
(* each is one step.  kfifo is kernel code, not code of the repository.    *)
(***************************************************************************)
EXTENDS Integers, Sequences

Least(a, b) == IF a <= b THEN a ELSE b

(* kfifo_put(fifo, s, Len(s)) copies what fits and drops the rest of s.    *)
KfifoRoom(q, s, size) == Least(Len(s), size - Len(q))
KfifoPut(q, s, size)  == q \o SubSeq(s, 1, KfifoRoom(q, s, size))

(* kfifo_get(fifo, buf, n) takes up to n bytes from the front.             *)
KfifoTaken(q, n) == SubSeq(q, 1, Least(n, Len(q)))
KfifoGet(q, n)   == SubSeq(q, Least(n, Len(q)) + 1, Len(q))
=============================================================================
