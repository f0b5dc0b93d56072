--------------------------- MODULE BoundedStack ---------------------------
(***************************************************************************)
(* What push and pop of Problem_Set_6/stack.c do, each at one instant, for *)
(* those who call them concurrently: a stack of at most Size elements, of  *)
(* which a push adds the last and a pop removes the last.                  *)
(*                                                                         *)
(* It is not what stack.h:20-21 promises.  Neither call reports a full or  *)
(* an empty stack: each waits until there is room or an element, and push  *)
(* always returns 1.  And pop does not return the element that it removes: *)
(* it reads the slot above it (stack.c:41).  There it finds the element    *)
(* that the pop before it removed, if nothing was pushed since, and no     *)
(* element otherwise: NULL, or memory that nothing was stored in.          *)
(***************************************************************************)
EXTENDS Naturals, Sequences

CONSTANTS
    Elements, Size,
    Consumers,      \* those who pop
    Null, Junk      \* NULL; uninitialised memory

VARIABLES
    stack,
    removed,        \* what the last call removed; Null if it was a push
    popped          \* what the last pop of each consumer returned

Init ==
    /\ stack = <<>>
    /\ removed = Null
    /\ popped = [t \in Consumers |-> Null]

Push(e) ==
    /\ Len(stack) < Size
    /\ stack' = Append(stack, e)
    /\ removed' = Null
    /\ UNCHANGED popped

Pop(t) ==
    /\ stack # <<>>
    /\ stack' = SubSeq(stack, 1, Len(stack) - 1)
    /\ removed' = stack[Len(stack)]
    /\ \E r \in IF removed = Null THEN {Null, Junk} ELSE {removed} :
          popped' = [popped EXCEPT ![t] = r]

Next ==
    \/ \E e \in Elements : Push(e)
    \/ \E t \in Consumers : Pop(t)

vars == <<stack, removed, popped>>

Spec == Init /\ [][Next]_vars
=============================================================================
