---------------------------- MODULE AbstractHeap ----------------------------
(***************************************************************************)
(* What a caller of kmalloc, kcalloc, krealloc and kfree may rely on: the  *)
(* live blocks are disjoint stretches of one arena, each at least as long  *)
(* as was asked, a call changes no block but the one it is about, and what *)
(* it writes there fits.  Nothing is said of headers, of the list or of    *)
(* which gap is chosen; any call may be refused, with the pointer 0.       *)
(***************************************************************************)
EXTENDS Integers

CONSTANTS First, End,      (* the arena is [First, End)                    *)
          Sizes,           (* what may be asked for                        *)
          Largest          (* of a larger request less is promised         *)

VARIABLES live,            (* the length of the block at each live pointer *)
          answer,          (* the last request and the pointer it returned *)
          wrote            (* the bytes the last call wrote into a block,  *)
                           (* and the block they are from, 0 for zeros     *)

heapVars == <<live, answer, wrote>>

NothingWritten == wrote' = [at |-> 0, from |-> 0, length |-> 0]

Bytes(ptr, length) == ptr .. (ptr + length - 1)

Untouched(ptrs) == \A q \in ptrs : q \in DOMAIN live' /\ live'[q] = live[q]

(* A block that holds size bytes appears, clear of the other live ones.    *)
Fresh(ptr, size) ==
  /\ ptr \in DOMAIN live' \ DOMAIN live
  /\ size <= Largest => live'[ptr] >= size
  /\ Bytes(ptr, live'[ptr]) \subseteq First .. End - 1
  /\ \A q \in DOMAIN live : Bytes(ptr, live'[ptr]) \cap Bytes(q, live[q]) = {}

New(ptr, size) ==
  /\ Fresh(ptr, size)
  /\ DOMAIN live' = DOMAIN live \cup {ptr}
  /\ Untouched(DOMAIN live)
  /\ answer' = [size |-> size, ptr |-> ptr]

Malloc(size) == (\E ptr \in DOMAIN live' : New(ptr, size)) /\ NothingWritten

(* All that was asked for is cleared, inside the block.                    *)
Calloc(size) ==
  \E ptr \in DOMAIN live' :
    /\ New(ptr, size)
    /\ live'[ptr] >= size
    /\ wrote' = [at |-> ptr, from |-> 0, length |-> size]

Refuse(size) ==
  /\ answer' = [size |-> size, ptr |-> 0]
  /\ NothingWritten
  /\ UNCHANGED live

Free(ptr) ==
  /\ DOMAIN live' = DOMAIN live \ {ptr}
  /\ Untouched(DOMAIN live')
  /\ NothingWritten
  /\ UNCHANGED answer

(* The block at old already holds size bytes, ...                          *)
Keep(old, size) ==
  /\ live[old] >= size
  /\ answer' = [size |-> size, ptr |-> old]
  /\ NothingWritten
  /\ UNCHANGED live

(* ... or all of its contents are copied to one that has room for them.    *)
Move(old, size) ==
  \E ptr \in DOMAIN live' :
    /\ Fresh(ptr, size)
    /\ live'[ptr] >= live[old]
    /\ DOMAIN live' = (DOMAIN live \ {old}) \cup {ptr}
    /\ Untouched(DOMAIN live \ {old})
    /\ answer' = [size |-> size, ptr |-> ptr]
    /\ wrote' = [at |-> ptr, from |-> old, length |-> live[old]]

(* A larger request may end with a write that does not fit: the block it   *)
(* returns is as long as it says, and of the others nothing is known.      *)
Ruin(size) ==
  /\ size > Largest
  /\ answer'.size = size /\ answer'.ptr \in DOMAIN live'
  /\ wrote'.at = answer'.ptr
  /\ wrote'.length > live'[answer'.ptr]

HeapInit ==
  /\ live = [ptr \in {} |-> 0]
  /\ answer = [size |-> 0, ptr |-> 0]
  /\ wrote = [at |-> 0, from |-> 0, length |-> 0]

HeapNext ==
  \/ \E size \in Sizes : Malloc(size) \/ Calloc(size) \/ Refuse(size) \/ Ruin(size)
  \/ \E ptr \in DOMAIN live : Free(ptr)
  \/ \E ptr \in DOMAIN live, size \in Sizes : Keep(ptr, size) \/ Move(ptr, size)

HeapSpec == HeapInit /\ [][HeapNext]_heapVars
=============================================================================
