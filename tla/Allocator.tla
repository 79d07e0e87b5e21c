------------------------------ MODULE Allocator ------------------------------
(* The allocator that the wasm build installs for tree-sitter. C asks for     *)
(* blocks by size and gives them back by pointer alone; the allocator of Rust *)
(* wants the layout back that it was asked for. So each block is larger than  *)
(* requested: a header before the pointer keeps the layout and the way to the *)
(* base. Sizes come from the parser and may be as large as a word.            *)
EXTENDS Integers

CONSTANTS
  Align,       \* ALIGN, 16 in the code
  HeaderSize,  \* HEADER_SIZE, 8 on wasm32
  MaxWord,     \* usize::MAX
  MaxLayout,   \* isize::MAX, which a layout rounded up to Align may not exceed
  Memory,      \* the bytes of the linear memory
  Sizes,       \* the sizes and counts the parser asks with
  Contents,    \* what the parser writes to a block
  Any          \* nothing is known of a byte

ASSUME AlignAssumption == Align \in Nat \ {0} /\ HeaderSize \in Nat \ {0}
ASSUME WordAssumption == {MaxWord, MaxLayout, Memory} \subseteq Nat /\ Sizes \subseteq 0..MaxWord

Null == 0
Addresses == 1..(Memory - 1)

(* A byte of memory: the start of a header, the rest of one, or data. *)
HeaderCell(layout, offset) == <<"header", layout, offset>>
HeaderRest == <<"header", 0, 0>>
Zero == <<"data", 0, 0>>
Junk == <<"data", 0, 1>>
Byte(content, i) == <<"data", content, i>>

VARIABLES
  heap,    \* blocks of the allocator of Rust: the size of the layout at each base
  memory,  \* the bytes
  blocks,  \* the pointers the parser holds, and the size it asked for
  relied,  \* what the parser relies on to be at an address
  answer   \* what the last call returned

vars == <<heap, memory, blocks, relied, answer>>
-----------------------------------------------------------------------------
(* Faulty: the additions wrap around.                                         *)
LayoutWrapped(size) == (size + HeaderSize + Align - 1) % (MaxWord + 1)

Layout(size) == size + HeaderSize + Align - 1

(* allocate: the early returns before memory is asked for. *)
Accepts(size) ==
  /\ size # 0
  /\ Layout(size) <= MaxWord
  /\ Layout(size) + Align - 1 <= MaxLayout

(* Where the header ends and the parser's bytes begin. *)
User(base) ==
  LET end == base + HeaderSize + Align - 1 IN end - (end % Align)

(* Places the allocator of Rust may choose: aligned, within memory and apart  *)
(* from what is in use. It may also find none that it likes.                  *)
Room(size) ==
  {base \in Addresses :
     /\ base % Align = 0
     /\ base + Layout(size) <= Memory
     /\ \A other \in DOMAIN heap :
          other + heap[other] <= base \/ base + Layout(size) <= other}

Area(pointer, size) == pointer..(pointer + size - 1)

(* The bytes after a grant: the header is written, the rest zeroed on demand. *)
Granted(base, size, zeroed) ==
  [a \in Addresses |->
     IF a = User(base) - HeaderSize THEN HeaderCell(Layout(size), User(base) - base)
     ELSE IF a \in Area(User(base) - HeaderSize, HeaderSize) THEN HeaderRest
     ELSE IF zeroed /\ a \in Area(base, Layout(size)) THEN Zero
     ELSE memory[a]]

With(table, key, value) == [k \in DOMAIN table \union {key} |-> IF k = key THEN value ELSE table[k]]
Without(table, key) == [k \in DOMAIN table \ {key} |-> table[k]]

Fails == answer' = Null /\ UNCHANGED <<heap, memory, blocks, relied>>

Allocate(size, zeroed) ==
  \/ Fails
  \/ /\ Accepts(size)
     /\ \E base \in Room(size) :
          /\ heap' = With(heap, base, Layout(size))
          /\ memory' = Granted(base, size, zeroed)
          /\ blocks' = With(blocks, User(base), size)
          /\ relied' = [a \in Addresses |->
               IF a \in Area(User(base), size) THEN (IF zeroed THEN Zero ELSE Any) ELSE relied[a]]
          /\ answer' = User(base)

(* malloc, and realloc of a null pointer. *)
Malloc == \E size \in Sizes : Allocate(size, FALSE)

Calloc ==
  \E count, size \in Sizes :
    IF count * size > MaxWord THEN Fails ELSE Allocate(count * size, TRUE)

(* read_header and requested_size *)
Header(pointer) == memory[pointer - HeaderSize]
LayoutOf(pointer) == Header(pointer)[2]

(* Faulty: the slack for alignment is taken to be Align bytes.                *)
RequestedLess(pointer) == LayoutOf(pointer) - HeaderSize - Align

Requested(pointer) == LayoutOf(pointer) - HeaderSize - (Align - 1)

(* Faulty: the block is taken to begin with its header.                       *)
BaseAtHeader(pointer) == pointer - HeaderSize

Base(pointer) == pointer - Header(pointer)[3]

(* free, and realloc to nothing: the layout of the header goes back. *)
Free ==
  \E pointer \in DOMAIN blocks :
    /\ heap' = Without(heap, Base(pointer))
    /\ blocks' = Without(blocks, pointer)
    /\ relied' = [a \in Addresses |-> IF a \in Area(pointer, blocks[pointer]) THEN Any ELSE relied[a]]
    /\ answer' = Null
    /\ UNCHANGED memory

Copied(pointer, size) == IF Requested(pointer) < size THEN Requested(pointer) ELSE size

(* realloc proper: a new block, as much of the old one as fits, then free.    *)
(* Without a new block the old one stays as it is.                            *)
Move(pointer, size, base) ==
  LET kept == Area(User(base), Copied(pointer, size))
      old(a) == pointer + (a - User(base))
      fresh == Granted(base, size, FALSE)
  IN  /\ heap' = Without(With(heap, base, Layout(size)), Base(pointer))
      /\ memory' = [a \in Addresses |-> IF a \in kept THEN fresh[old(a)] ELSE fresh[a]]
      /\ blocks' = With(Without(blocks, pointer), User(base), size)
      /\ relied' = [a \in Addresses |->
           IF a \in Area(User(base), size)
           THEN (IF old(a) \in Area(pointer, blocks[pointer]) THEN relied[old(a)] ELSE Any)
           ELSE IF a \in Area(pointer, blocks[pointer]) THEN Any ELSE relied[a]]
      /\ answer' = User(base)

Realloc ==
  \E pointer \in DOMAIN blocks, size \in Sizes \ {0} :
    \/ Fails
    \/ Accepts(size) /\ \E base \in Room(size) : Move(pointer, size, base)

(* The parser writes to a block it holds. *)
Write ==
  \E pointer \in DOMAIN blocks, content \in Contents :
    LET written(old) == [a \in Addresses |->
          IF a \in Area(pointer, blocks[pointer]) THEN Byte(content, a - pointer) ELSE old[a]]
    IN  /\ memory' = written(memory)
        /\ relied' = written(relied)
        /\ UNCHANGED <<heap, blocks, answer>>

Init ==
  /\ heap = [b \in {} |-> 0]
  /\ memory = [a \in Addresses |-> Junk]
  /\ blocks = [p \in {} |-> 0]
  /\ relied = [a \in Addresses |-> Any]
  /\ answer = Null

Next == Malloc \/ Calloc \/ Free \/ Realloc \/ Write

Spec == Init /\ [][Next]_vars
-----------------------------------------------------------------------------
(* However large the sizes, the parser's blocks are aligned and lie, with      *)
(* their headers, within the memory and apart from each other.                *)
BlocksAreApart ==
  \A p \in DOMAIN blocks :
    /\ p % Align = 0
    /\ p - HeaderSize \in Addresses /\ p + blocks[p] <= Memory
    /\ \A q \in DOMAIN blocks :
         p # q => p + blocks[p] <= q - HeaderSize \/ q + blocks[q] <= p - HeaderSize

(* What free hands back is what was taken: the header of each block the       *)
(* parser holds names the base and the size of one that the allocator of Rust *)
(* gave out, and every block of it is named, so that none leaks.              *)
HeapIsAccountedFor ==
  /\ \A p \in DOMAIN blocks :
       Base(p) \in DOMAIN heap /\ heap[Base(p)] = LayoutOf(p) /\ p + blocks[p] <= Base(p) + LayoutOf(p)
  /\ \A base \in DOMAIN heap : \E p \in DOMAIN blocks : Base(p) = base

(* A block keeps what the parser wrote to it, also when it is moved and when  *)
(* it could not be moved; what calloc gave out is zero.                       *)
ContentsAreKept == \A a \in Addresses : relied[a] # Any => memory[a] = relied[a]
=============================================================================
