------------------------------ MODULE Allocator ------------------------------
(***************************************************************************)
(* What malloc_page and mfree_page promise their callers: memory of one's  *)
(* own.  A block is a function from its addresses to the cells of memory   *)
(* behind them.  A block that is handed out has only cells that nobody     *)
(* holds, and stays as it is, address by address, until its holder gives   *)
(* it back.                                                                *)
(***************************************************************************)
CONSTANT Client

VARIABLE held    \* the blocks of each client

Cells(block) == {block[x] : x \in DOMAIN block}
Taken == UNION {Cells(b) : b \in UNION {held[c] : c \in Client}}

AllocatorInit == held = [c \in Client |-> {}]

Give(c, block) == /\ Cells(block) \cap Taken = {}
                  /\ held' = [held EXCEPT ![c] = @ \cup {block}]

TakeBack(c, block) == held' = [held EXCEPT ![c] = @ \ {block}]

AllocatorNext ==
  \E c \in Client : \/ \E block \in held'[c] \ held[c] : Give(c, block)
                    \/ \E block \in held[c] \ held'[c] : TakeBack(c, block)

AllocatorSpec == AllocatorInit /\ [][AllocatorNext]_held
=============================================================================
