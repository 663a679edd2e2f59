------------------------------ MODULE WordTree -------------------------------
(***************************************************************************)
(* Words in a tree, and names in a list that is sorted by merging.          *)
(***************************************************************************)
EXTENDS Integers, SequencesExt, FiniteSetsExt

(***************************************************************************)
(* The search tree of src/count-words.c, which takes its words from a file *)
(* letter by letter, and of src/tree.c, which has a line each and looks    *)
(* for one of them: words are inserted, the tree is printed with a stack   *)
(* instead of recursion, and freed without either, by turning left         *)
(* branches over to the right until there is none.  Memory may run out at  *)
(* any allocation, and the file end, or be found unreadable, anywhere.     *)
(*                                                                         *)
(* A node is named by its word.  A slot is the place of a pointer: the     *)
(* root, or a side of a node.                                              *)
(***************************************************************************)
CONSTANTS
  Readers,    \* the programs: a subset of {"count-words", "tree"}
  Words,      \* numbers, in the order of strcmp
  Spelling,   \* Spelling[w]: the letters of w, which are numbers, all lower case
  Letters,    \* those in the file
  Capitals,   \* Capitals[c]: the lower case of a capital c
  MaxWord,    \* MAX_WORD: 1024
  Wanted,     \* "Hello"
  Null,
  StackSize,  \* cap_size: 128
  MaxWords    \* bound on the words inserted

VARIABLES
  reader,     \* the program
  pc,         \* "open", "read", "insert", "added", "find", "print", "free" or "ended"
  link,       \* what each slot points to
  alive,      \* nodes allocated and not freed
  count,
  word,       \* of insert_node
  slot,       \* current of insert_node
  curr,       \* of print_node and of release_node
  stack, cap,
  printed,
  total,      \* what print_node returns
  letters,    \* of count_words: the first index letters of word
  size,       \* word_size: word has one place more
  held,       \* word is allocated
  ending,     \* fread has returned 0
  counted,
  answer,     \* tokens and unique words that are printed
  found,      \* of main in tree.c
  given,      \* for the properties: the words inserted, one after the other
  nomem       \* for the properties: an allocation has failed

treevars == <<reader, pc, link, alive, count, word, slot, curr, stack, cap, printed, total, letters,
              size, held, ending, counted, answer, found, given, nomem>>
buffer == <<letters, size, held, ending, counted>>
ends == <<answer, found, reader>>
tree == <<link, alive, count>>
walk == <<curr, stack, cap, printed, total>>

Root == <<0, "root">>
Left(n) == <<n, "left">>
Right(n) == <<n, "right">>
Slots == {Root} \cup (Words \X {"left", "right"})

TreeInit ==
  /\ reader \in Readers
  /\ pc = IF reader = "tree" THEN "read" ELSE "open"
  /\ link = [s \in Slots |-> Null] /\ alive = {} /\ count = [w \in Words |-> 0]
  /\ word = 0 /\ slot = Root
  /\ curr = Null /\ stack = <<>> /\ cap = StackSize /\ printed = <<>> /\ total = 0
  /\ letters = <<>> /\ size = MaxWord /\ held = FALSE /\ ending = FALSE /\ counted = 0
  /\ answer = <<>> /\ found = FALSE
  /\ given = <<>> /\ nomem = FALSE

----------------------------------------------------------------------------
\* proc_count_words: a file that cannot be opened, or a buffer that cannot be had.
Open ==
  /\ pc = "open"
  /\ \/ pc' = "read" /\ held' = TRUE /\ UNCHANGED <<answer, nomem>>
     \/ pc' = "ended" /\ UNCHANGED <<held, answer, nomem>>
     \/ pc' = "ended" /\ answer' = <<0, 0>> /\ nomem' = TRUE /\ UNCHANGED held
  /\ UNCHANGED <<reader, tree, word, slot, walk, letters, size, ending, counted, found, given>>

Lower(c) == IF c \in DOMAIN Capitals THEN Capitals[c] ELSE c
Reading == pc = "read" /\ reader = "count-words"
Full == Len(letters) >= size - 1

Letter(c) ==
  /\ Reading /\ ~ending /\ Len(given) < MaxWords
  /\ letters' = Append(letters, Lower(c))
  /\ \E w \in Words : IsPrefix(letters', Spelling[w])
  /\ size' = IF Full THEN 2 * size ELSE size
  /\ UNCHANGED <<pc, tree, word, slot, walk, held, ending, counted, ends, given, nomem>>

\* The tree is given back, and the answer for the file is 0.
GiveUp ==
  /\ pc' = "free" /\ curr' = link[Root] /\ nomem' = TRUE
  /\ held' = FALSE /\ counted' = 0
  /\ UNCHANGED <<tree, word, slot, stack, cap, printed, total, letters, size, ending, ends, given>>

\* The buffer cannot grow.
LetterFails == Reading /\ Full /\ GiveUp

\* The word ends: another character comes, or there is none.
WordEnds ==
  /\ Reading
  /\ word' \in {w \in Words : Spelling[w] = letters}
  /\ pc' = "insert" /\ slot' = Root
  /\ ending' \in BOOLEAN
  /\ UNCHANGED <<tree, walk, letters, size, held, counted, ends, given, nomem>>

\* A buffer that has grown for the word is replaced by a small one, but not behind the last word.
Long == Len(letters) > MaxWord /\ ~ending
Added ==
  /\ pc = "added"
  /\ size' = IF Long THEN MaxWord ELSE size
  /\ counted' = counted + 1 /\ letters' = <<>>
  /\ pc' = "read"
  /\ UNCHANGED <<tree, word, slot, walk, held, ending, ends, given, nomem>>

AddedFails == pc = "added" /\ Long /\ GiveUp

----------------------------------------------------------------------------
\* tree.c has the word at once.
Insert(w) ==
  /\ pc = "read" /\ reader = "tree" /\ Len(given) < MaxWords
  /\ pc' = "insert" /\ word' = w /\ slot' = Root
  /\ UNCHANGED <<tree, walk, buffer, ends, given, nomem>>

Inserted ==
  /\ pc' = IF reader = "tree" THEN "read" ELSE "added"
  /\ given' = Append(given, word)

\* tree.c does not count: there count is for the properties.
Descend ==
  /\ pc = "insert" /\ link[slot] # Null
  /\ LET n == link[slot]
     IN  IF word = n
         THEN count' = [count EXCEPT ![n] = @ + 1] /\ Inserted /\ UNCHANGED slot
         ELSE /\ slot' = IF word < n THEN Left(n) ELSE Right(n)
              /\ UNCHANGED <<pc, count, given>>
  /\ UNCHANGED <<link, alive, word, walk, buffer, ends, nomem>>

Create ==
  /\ pc = "insert" /\ link[slot] = Null
  /\ link' = [link EXCEPT ![slot] = word, ![Left(word)] = Null, ![Right(word)] = Null]
  /\ alive' = alive \cup {word} /\ count' = [count EXCEPT ![word] = 1]
  /\ Inserted
  /\ UNCHANGED <<word, slot, walk, buffer, ends, nomem>>

\* create_node fails: nothing is printed.
CreateFails == pc = "insert" /\ link[slot] = Null /\ GiveUp

----------------------------------------------------------------------------
\* tree.c, when there is no line left, looks for one word.
StartFind ==
  /\ pc = "read" /\ reader = "tree"
  /\ pc' = "find" /\ slot' = Root
  /\ UNCHANGED <<tree, word, walk, buffer, ends, given, nomem>>

Find ==
  /\ pc = "find" /\ link[slot] \notin {Null, Wanted}
  /\ slot' = IF Wanted < link[slot] THEN Left(link[slot]) ELSE Right(link[slot])
  /\ UNCHANGED <<pc, tree, word, walk, buffer, ends, given, nomem>>

StartPrint ==
  /\ \/ Reading /\ letters = <<>> /\ found' = found
     \/ pc = "find" /\ link[slot] \in {Null, Wanted} /\ found' = (link[slot] = Wanted)
  /\ pc' = "print" /\ curr' = link[Root] /\ stack' = <<>> /\ cap' = StackSize /\ held' = FALSE
  /\ UNCHANGED <<tree, word, slot, printed, total, letters, size, ending, counted, answer, reader,
                 given, nomem>>

\* The stack cannot be allocated, or cannot grow: print_node returns 0.
PrintFails ==
  /\ pc = "print" /\ curr # Null
  /\ Len(stack) >= cap \/ (stack = <<>> /\ printed = <<>>)
  /\ pc' = "free" /\ curr' = link[Root] /\ nomem' = TRUE
  /\ UNCHANGED <<tree, word, slot, stack, cap, printed, total, buffer, ends, given>>

Push ==
  /\ pc = "print" /\ curr # Null
  /\ cap' = IF Len(stack) >= cap THEN 2 * cap ELSE cap
  /\ stack' = Append(stack, curr)
  /\ curr' = link[Left(curr)]
  /\ UNCHANGED <<pc, tree, word, slot, printed, total, buffer, ends, given, nomem>>

Pop ==
  /\ pc = "print" /\ curr = Null /\ stack # <<>>
  /\ stack' = Front(stack)
  /\ printed' = Append(printed, Last(stack))
  /\ curr' = link[Right(Last(stack))]
  /\ UNCHANGED <<pc, tree, word, slot, cap, total, buffer, ends, given, nomem>>

Printed ==
  /\ pc = "print" /\ curr = Null /\ stack = <<>>
  /\ total' = Len(printed)
  /\ pc' = "free" /\ curr' = link[Root]
  /\ UNCHANGED <<tree, word, slot, stack, cap, printed, buffer, ends, given, nomem>>

\* release_node: the left branch l takes the place of n, and n goes to the right of l;
\* what was there goes to the left of n.
Dropped(n, l) == [link EXCEPT ![Left(n)] = Null, ![Right(l)] = n]
Turned(n, l) == [link EXCEPT ![Left(n)] = link[Right(l)], ![Right(l)] = n]

Turn ==
  /\ pc = "free" /\ curr # Null /\ link[Left(curr)] # Null
  /\ link' = Turned(curr, link[Left(curr)])
  /\ curr' = link[Left(curr)]
  /\ UNCHANGED <<pc, alive, count, word, slot, stack, cap, printed, total, buffer, ends, given, nomem>>

Free ==
  /\ pc = "free" /\ curr # Null /\ link[Left(curr)] = Null
  /\ alive' = alive \ {curr}
  /\ curr' = link[Right(curr)]
  /\ UNCHANGED <<pc, link, count, word, slot, stack, cap, printed, total, buffer, ends, given, nomem>>

Freed ==
  /\ pc = "free" /\ curr = Null
  /\ pc' = "ended"
  /\ answer' = IF reader = "tree" THEN answer ELSE <<counted, total>>
  /\ UNCHANGED <<tree, word, slot, walk, buffer, found, reader, given, nomem>>

TreeNext ==
  \/ Open \/ LetterFails \/ WordEnds \/ Added \/ AddedFails \/ StartFind \/ Find
  \/ Descend \/ Create \/ CreateFails \/ StartPrint \/ PrintFails \/ Push \/ Pop \/ Printed
  \/ Turn \/ Free \/ Freed
  \/ \E w \in Words : Insert(w)
  \/ \E c \in Letters : Letter(c)

TreeSpec == TreeInit /\ [][TreeNext]_treevars

-----------------------------------------------------------------------------
(***************************************************************************)
(* Properties.                                                             *)
(***************************************************************************)
\* The nodes below n from left to right, one by one as often as they are met, down to a
\* depth no tree of these words has.
InOrder(n) ==
  LET below[m \in Words \cup {Null}, d \in 0..(Cardinality(Words) + 1)] ==
        IF m = Null THEN <<>>
        ELSE IF d = 0 THEN <<m>>
        ELSE below[link[Left(m)], d-1] \o <<m>> \o below[link[Right(m)], d-1]
  IN  below[n, Cardinality(Words) + 1]

Ascending(set) == SetToSortSeq(set, LAMBDA a, b : a < b)

\* The words not yet freed are met exactly once, in order, from the root, and while the
\* tree is freed from the node at work: the turns lose no branch, and no node is freed
\* twice.
Searchable == InOrder(IF pc \in {"free", "ended"} THEN curr ELSE link[Root]) = Ascending(alive)

\* The word in the buffer is the one inserted, its end is within the buffer however often that
\* was made longer and shorter, and what the file is said to hold is what was taken from it,
\* or nothing at all.
Taken ==
  reader = "count-words" =>
    /\ held <=> pc \in {"read", "insert", "added"}
    /\ held => Len(letters) <= size
    /\ pc \in {"insert", "added"} => Spelling[word] = letters
    /\ pc \in {"open", "read", "insert", "print"} => counted = Len(given)
    /\ answer # <<>> => \/ answer = <<Len(given), Cardinality(Range(given))>>
                        \/ nomem /\ answer \in {<<0, 0>>, <<Len(given), 0>>}

\* Each word once, with the number of times it was given, though the tree does not know
\* its depth in advance and the stack is too small for it; unless memory ran out all of
\* them are printed.  A word looked for is found if it was given.
TreeRight ==
  /\ Searchable
  /\ \A w \in Words : count[w] = Cardinality({i \in DOMAIN given : given[i] = w})
  /\ IsPrefix(printed, Ascending(Range(given)))
  /\ pc = "ended" => alive = {} /\ (~nomem => Len(printed) = Cardinality(Range(given)))
  /\ total \in {0, Len(printed)}
  /\ Taken
  /\ reader = "tree" /\ pc = "print" => (found <=> Wanted \in Range(given))

(***************************************************************************)
(* src/dir-r.c: the names below a directory in a linked list, which is     *)
(* sorted by merging and printed.                                          *)
(*                                                                         *)
(* A directory is the sequence of its entries as readdir gives them.  An   *)
(* entry is its rank in the order of the paths, which also names its node, *)
(* and the sequence of its own entries if it is a directory.               *)
(***************************************************************************)
CONSTANTS
  Directories,   \* those looked at
  Ranks,
  File           \* in the place of the entries of a file

VARIABLES
  npc,       \* "idle", "open", "list", "sort", "merge", "print", "free", "failed", "undefined" or
             \* "ended"
  frames,    \* calls of dir_list, the innermost first: entries left, n, and the tail
  head,      \* dirs
  next,      \* next[r]: of the node of rank r
  isFile,    \* nodes of type_file
  nalive,    \* nodes allocated and not freed
  todo,      \* calls of merge_sort and merge that are left
  sorted,    \* lists they have returned, last first
  left, right, first, last,   \* of merge: dummy.next and tail
  node,      \* of print_node and cleanup_node
  nprinted,
  listed     \* for the properties: the entries of the directories that could be opened

namevars == <<npc, frames, head, next, isFile, nalive, todo, sorted, left, right, first, last, node,
          nprinted, listed>>
list == <<head, next, isFile, nalive>>
merging == <<todo, sorted, left, right, first, last>>
printing == <<node, nprinted>>

NamesInit ==
  /\ npc = "idle" /\ frames = <<>>
  /\ head = Null /\ next = [r \in Ranks |-> Null] /\ isFile = {} /\ nalive = {}
  /\ todo = <<>> /\ sorted = <<>> /\ left = Null /\ right = Null /\ first = Null /\ last = Null
  /\ node = Null /\ nprinted = <<>> /\ listed = {}

-----------------------------------------------------------------------------
(***************************************************************************)
(* dir_list.                                                               *)
(***************************************************************************)
\* The nodes of a list, first to last.
Chain(r) ==
  LET behind[s \in Ranks \cup {Null}, k \in 0..Cardinality(Ranks)] ==
        IF s = Null \/ k = 0 THEN <<>> ELSE <<s>> \o behind[next[s], k-1]
  IN  behind[r, Cardinality(Ranks)]

\* What the slot behind the node t, or the head, points to, and its end.
Slot(t) == IF t = Null THEN head ELSE next[t]
End(t) == IF Slot(t) = Null THEN t ELSE Last(Chain(Slot(t)))

AppendAt(t, r) ==
  IF t = Null THEN head' = r /\ next' = [next EXCEPT ![r] = Null]
  ELSE next' = [next EXCEPT ![t] = r, ![r] = Null] /\ UNCHANGED head

Top == frames[1]
Entry == Top.entries[1]
InList == npc = "list" /\ Top.entries # <<>>
RanksOf(entries) == {entries[i].rank : i \in DOMAIN entries}

Start ==
  /\ npc = "idle"
  /\ npc' = "open"
  /\ \E d \in Directories : frames' = <<[entries |-> d, start |-> Null, tail |-> Null]>>
  /\ UNCHANGED <<list, merging, printing, listed>>

OpenDir ==
  /\ npc = "open"
  /\ npc' = "list"
  /\ listed' = listed \cup RanksOf(Top.entries)
  /\ UNCHANGED <<frames, list, merging, printing>>

\* dir_list returns, well or not, to a call of its own, which looks for the end of the list.
StaysAtEntry == [frames[2] EXCEPT !.tail = @]
Resumed == [frames[2] EXCEPT !.tail = End(@)]
Return == frames' = <<Resumed>> \o Tail(Tail(frames)) /\ npc' = "list"

\* A directory that cannot be opened ends the program only if it is the outermost.
OpenFails ==
  /\ npc = "open"
  /\ IF Len(frames) = 1 THEN npc' = "failed" /\ UNCHANGED frames ELSE Return
  /\ UNCHANGED <<list, merging, printing, listed>>

\* An entry gets a node behind the tail; a directory is then listed behind it.
AddNode ==
  /\ InList
  /\ LET r == Entry.rank
         rest == [Top EXCEPT !.entries = Tail(@), !.tail = r]
     IN  /\ AppendAt(Top.tail, r)
         /\ nalive' = nalive \cup {r}
         /\ IF Entry.inside = File
            THEN /\ isFile' = isFile \cup {r}
                 /\ frames' = <<rest>> \o Tail(frames)
                 /\ UNCHANGED npc
            ELSE /\ frames' = <<[entries |-> Entry.inside, start |-> r, tail |-> r], rest>> \o Tail(frames)
                 /\ npc' = "open"
                 /\ UNCHANGED isFile
  /\ UNCHANGED <<merging, printing, listed>>

\* create_node fails.  For a directory a null pointer is dereferenced.  For a file the list
\* of this call is freed, and the outermost call ends the program; the caller of another
\* goes through the nodes just freed, or if there are none, on with its own entries.
NodeFails ==
  /\ InList
  /\ LET own == Chain(Slot(Top.start))
     IN  IF Entry.inside # File \/ (Len(frames) > 1 /\ own # <<>>)
         THEN npc' = "undefined" /\ UNCHANGED <<frames, nalive>>
         ELSE /\ nalive' = nalive \ Range(own)
              /\ IF Len(frames) = 1 THEN npc' = "failed" /\ UNCHANGED frames ELSE Return
  /\ listed' = listed \ RanksOf(Top.entries)
  /\ UNCHANGED <<head, next, isFile, merging, printing>>

EndOfDir ==
  /\ npc = "list" /\ Top.entries = <<>>
  /\ IF Len(frames) = 1
     THEN npc' = "sort" /\ todo' = <<[op |-> "sort", from |-> head]>> /\ UNCHANGED frames
     ELSE Return /\ UNCHANGED todo
  /\ UNCHANGED <<list, sorted, left, right, first, last, printing, listed>>

-----------------------------------------------------------------------------
(***************************************************************************)
(* merge_sort.                                                             *)
(***************************************************************************)
\* get_middle: the slow pointer when the fast one is at the end.
Middle(r) == Chain(r)[(Len(Chain(r)) + 1) \div 2]

SortList ==
  /\ npc = "sort" /\ todo # <<>> /\ todo[1].op = "sort"
  /\ LET r == todo[1].from
     IN  IF Len(Chain(r)) <= 1
         THEN sorted' = <<r>> \o sorted /\ todo' = Tail(todo) /\ UNCHANGED next
         ELSE /\ next' = [next EXCEPT ![Middle(r)] = Null]
              /\ todo' = <<[op |-> "sort", from |-> r],
                           [op |-> "sort", from |-> next[Middle(r)]],
                           [op |-> "merge", from |-> Null]>> \o Tail(todo)
              /\ UNCHANGED sorted
  /\ UNCHANGED <<npc, frames, head, isFile, nalive, left, right, first, last, printing, listed>>

StartMerge ==
  /\ npc = "sort" /\ todo # <<>> /\ todo[1].op = "merge"
  /\ npc' = "merge" /\ todo' = Tail(todo)
  /\ left' = sorted[2] /\ right' = sorted[1] /\ sorted' = Tail(Tail(sorted))
  /\ first' = Null /\ last' = Null
  /\ UNCHANGED <<frames, list, printing, listed>>

\* tail->next, where the tail is the dummy at first.
Link(r) ==
  IF last = Null THEN first' = r /\ UNCHANGED next
  ELSE next' = [next EXCEPT ![last] = r] /\ UNCHANGED first

Merge ==
  /\ npc = "merge" /\ left # Null /\ right # Null
  /\ IF left <= right
     THEN Link(left) /\ last' = left /\ left' = next[left] /\ UNCHANGED right
     ELSE Link(right) /\ last' = right /\ right' = next[right] /\ UNCHANGED left
  /\ UNCHANGED <<npc, frames, head, isFile, nalive, todo, sorted, printing, listed>>

Remainder == IF left # Null THEN left ELSE right

Merged ==
  /\ npc = "merge" /\ (left = Null \/ right = Null)
  /\ Link(Remainder)
  /\ sorted' = <<first'>> \o sorted
  /\ left' = Null /\ right' = Null /\ last' = Null
  /\ npc' = "sort"
  /\ UNCHANGED <<frames, head, isFile, nalive, todo, printing, listed>>

Sorted ==
  /\ npc = "sort" /\ todo = <<>>
  /\ npc' = "print"
  /\ head' = sorted[1] /\ sorted' = <<>> /\ node' = head'
  /\ UNCHANGED <<frames, next, isFile, nalive, todo, left, right, first, last, nprinted, listed>>

-----------------------------------------------------------------------------
\* Directories are not nprinted.
PrintNode ==
  /\ npc = "print" /\ node # Null
  /\ nprinted' = IF node \in isFile THEN nprinted \o <<node>> ELSE nprinted
  /\ node' = next[node]
  /\ UNCHANGED <<npc, frames, list, merging, listed>>

AllPrinted ==
  /\ npc = "print" /\ node = Null
  /\ npc' = "free" /\ node' = head
  /\ UNCHANGED <<frames, list, merging, nprinted, listed>>

FreeNode ==
  /\ npc = "free" /\ node # Null
  /\ node' = next[node] /\ nalive' = nalive \ {node}
  /\ UNCHANGED <<npc, frames, head, next, isFile, merging, nprinted, listed>>

AllFreed ==
  /\ npc = "free" /\ node = Null
  /\ npc' = "ended"
  /\ UNCHANGED <<frames, list, merging, printing, listed>>

NamesNext ==
  \/ Start \/ OpenDir \/ OpenFails \/ AddNode \/ NodeFails \/ EndOfDir
  \/ SortList \/ StartMerge \/ Merge \/ Merged \/ Sorted
  \/ PrintNode \/ AllPrinted \/ FreeNode \/ AllFreed

NamesSpec == NamesInit /\ [][NamesNext]_namevars

-----------------------------------------------------------------------------
(***************************************************************************)
(* Properties.                                                             *)
(***************************************************************************)
Rising(s) == s = Ascending(Range(s))

\* The merged part ends at its tail, whose next is not yet what it will be.
MergedPart ==
  IF last = Null THEN <<>> ELSE SubSeq(Chain(first), 1, CHOOSE i \in DOMAIN Chain(first) : Chain(first)[i] = last)

\* All lists in hand.
Lists ==
  CASE npc \in {"open", "list"} -> <<Chain(head)>>
    [] npc \in {"sort", "merge"} ->
         [i \in DOMAIN todo |-> Chain(todo[i].from)] \o [i \in DOMAIN sorted |-> Chain(sorted[i])]
           \o <<MergedPart, Chain(left), Chain(right)>>
    [] npc = "print" -> <<Chain(head)>>
    [] npc = "free" -> <<Chain(node)>>
    [] OTHER -> <<>>

\* Every node is in exactly one list, at each step of the sort, and in none when all are
\* freed; lists that merge_sort has returned are in order.
NodesHeld ==
  LET all == FlattenSeq(Lists)
  IN  /\ Range(all) = nalive /\ Len(all) = Cardinality(nalive)
      /\ \A i \in DOMAIN sorted : Rising(Chain(sorted[i]))
      /\ Rising(MergedPart)

\* The program prints the files of all directories it could open, each once and in order,
\* and keeps no node; a failure leaves nothing behind.  (Where create_node fails within an
\* inner directory the behaviour of the code is undefined, and nothing is said.)
NamesRight ==
  npc # "undefined" =>
    /\ NodesHeld
    /\ npc \in {"print", "free", "ended"} => IsPrefix(nprinted, Ascending(listed \cap isFile))
    /\ npc = "ended" => Len(nprinted) = Cardinality(listed \cap isFile) /\ listed \cap isFile = isFile
=============================================================================
