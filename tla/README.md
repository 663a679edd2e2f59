# A TLA+ verification of C2x.Examples

The repository is a collection of C programs: small servers and their clients,
data structures with the programs that use them, sorting and graph algorithms, a
Huffman file compressor, and demonstrations of Unix interprocess communication.
This directory models the parts with logic of their own, checks them with TLC and
proves theorems about them with TLAPS.

Run a model with `tlc -config <cfg> <module>` and a proof with `tlapm <module>.tla`;
`PROJECT.json` lists every run, for each property a mutation of the code that
breaks it, the source lines of every definition, the hazards and the theorems.
Paths below are those of the repository, whose C files are all under `src/`.

## 1. The system and its parts

There is no one program: each directory is built by itself. The parts meet in three
ways. Programs link a structure (`hashtable`, `open_address`, `set`, `heap`, `deque`)
and own what they store in it; `network/*` links `mx_socket`; and a server and its
client are two processes that share byte streams. Threads exist in
`network/socket_server_queue`, `network/fileserve`, `network/socket_server` and the
semaphore and mutex programs only.

### Concurrent programs

**Message server** (`network/socket_server_queue`, client `network/socket_connect`).
State: the deque of messages, `server_running` (atomic, read without the mutex), the
mutex and the condition variable, the listening socket, one detached worker per
connection, one consumer. Workers receive, push and signal; the consumer waits, pops
and prints; `exit` as a message, or a failing call of the main thread, stops the
server; main then wakes and joins the consumer, frees the deque and destroys the
mutex, while workers may still be at work. Hard: interleavings at every unlocked read
of the flag, the lost wakeup, the teardown, TCP without message boundaries. Right if:
one thread at a time is in the critical section, nothing popped is missing, repeated
or freed, an exit is not slept through and ends the server, an accepted message is
printed unless the server is stopped.

**File server and client** (`network/fileserve/fileserve.c`). State: `active_loop`,
the connections with their threads, two byte streams per connection, the client's
parser of headers (`ls`, `help`, `get`, `exit`). Hard: recv returns any part of the
stream; answers carry no mark of their command; SIGINT reaches any thread at any
time, and ends blocking calls without `SA_RESTART`; calls that fail half-way through
a download. Right if: an answer is taken for its own command, what is reported as
saved is the file asked for, a command ends, a stop is not forgotten.

**Pipes, FIFOs and message queues** (`pipe.c`, `pipe_message.c` with `rwlib`,
`fifo_serv.c`, `fifo_cli.c`, `mq`). State: what the medium holds, how far each side is
in its message, whether the receiver is to stop. Hard: short counts, a process that is
killed, messages joined or cut by one read, the moments between a test of the flag and
the blocking call behind it, and between the end of file and the close. Right if: what
is printed are the messages that were sent, whole and in order, and a server stops for
nothing but `exit`, a signal or a failed open.

**Socket layer** (`network/mx_socket.c`, and the line readers of `getline` and of the
mains). State: descriptors and what each `MXSocket` says of its own, the growing buffer
of a line. Hard: a failure after each call of an opening, modes that change for an
accept, lines cut by EAGAIN, by NUL and by the end. Right if: a descriptor has one owner
and the mode it is said to have, and no byte is lost that the caller is not told of.

**Servers without an answer** (`network/uds_server` with `uds_client`,
`network/socket_server`). One client after the other over a Unix socket, until SIGINT;
a detached thread per connection. Hard: the path left by an earlier run, a signal before
the accept, unchecked writes, a read that brings a NUL between two messages, who frees the
cell handed to a thread, main's return under the threads.

**HTTP client** (`network/dl/dl-file.c`). State: the buffer of the header, the file,
how much was written, the progress bar. Hard: recv cuts the header anywhere and brings a
part of the body with it; the connection ends early. Right if: the file is what came
behind the header, OK is said only for as much as was announced, and the bar never runs
ahead.

**Semaphores, shared memory, signals** (`semaphore_*.c`, `thread-ex1.c`, `shm`,
`system.c`, `fork.c`, `signal*.c`, `progress.c`, `cursor.c`, `kill.c`). Hard: increments
that are two steps, objects that outlive their name, dispositions and masks to be put
back on every path while signals come, handlers in the middle of a printf. Right if:
the counts are exact and every program ends, the caller of a command is as it was
before, and an interrupted loop has written what it printed, its message last, but for
what it flushes behind it.

### Structures

**Deque** (`deque`; `socket_server_queue/deque.c` is the same code). Nodes with two
links, two ends and a count; push, pop and peek at both ends, destroy. Hard: the back
links, which calls at the front must keep right; calls that fail half-way. Right if it
behaves as a sequence and no node leaks or is freed twice.

**Open-addressing table** (`hashtable/open_address/oa_hashtable.c`). Slots with
tombstones, `count` and `deleted`, growth at 70%. Hard: tombstones in probe paths,
growth that is half done, the last free slot, failures after growth, who owns a value.
Right if it behaves as a map, and each value is owned once.

**Chained table** (`hashtable/hashtable.c`). Buckets of doubly linked nodes; `set`,
`get`, `remove`, `merge`, `clone_merge` with buffers owned by nodes. Hard: relinking,
merges of which an allocation fails in the middle, all-or-nothing replacement.

**Sets** (`set/set.c`). Lists of distinct items with counts; insert, remove, concat,
union, intersection, difference, comparisons. Hard: three calls insert without
looking, and each may fail in the middle.

**Heap** (`heap/heap.c`; `compression/heap.c` is the same code). An array of pointers
under a comparison. Hard: both loops, growth, ends of the array.

### Programs on the structures

**Word counters** (`hashtable/hash-sorted.c`, `hash-count.c`, `open_address/oa-count.c`,
`set/match.c`): words of files read in blocks, counted per file and over all files.
Hard: words across blocks, the last character of a full buffer, files that fail.
**Compressor** (`compression`): Huffman codes per block, a temporary file, a rename.
Hard: the decoder rebuilds the tree and must break ties alike; failures and kills.
**Sorting** (`quicksort`, `mergesort`, `countsort`, `insertion-sort.c`, `heap_sort_*`):
scans without bounds, merges, counts; `sort.c`, `llist-sort.c` and `binary_search` are
small loops whose ends matter. **Shortest paths** (`heap/heap-path.c`,
`graph/matrix.c`, `graph/visual-graph.c`, `graph/webasm`): entries of the heap that
are out of date, unreachable vertices.
**Ordered lines** (`heap/pqueue.c`, `heap/structure.c`, `heap/sort.c`): lines of files
put into the heap and given out in order. Hard: lines longer than the buffer, the last
line without its newline, malformed lines and failures with entries already owned.
**Block cipher** (`encrypt`): 16 rounds between two tables; a program that pads,
enciphers, deciphers and removes the padding. Hard: the order of the subkeys on the way
back, the halves that change places, texts that fill their blocks, unchecked calls.
**Trees and lists** (`count-words.c`, `tree.c`, `dir-r.c`, `stack`, `llist`, `llist.c`,
`llist-sort.c`, `doubly-link.c`, `hashtable.c`): a search tree printed with a stack and
freed without one; names of a directory tree in a list that is merge sorted; lists worked
on through pointers to links. Hard: rotations while the tree is freed, lists cut and
joined, failures within nested calls, a word buffer that grows and shrinks.
**File tools** (`copy-file.c`, `count*.c`, `seek-test.c`, `mem-map.c`, `skip-cp.c`, `dir.c`,
`dir-sort.c`, `binary_search/main.c`): programs that read or change a file somebody else
may be using. Hard: truncation under a mapping or a reader, what a killed copy leaves for
the next run, blocks that cut words.
**Test programs** (`set/main.c`, `deque/main.c`, `deque/macro.c`, `heap/main.c`, `test.c`,
`peek.c`, `object`, `matrix.c`, `hashtable/main.c`, `fscanf.c`, `struct.c`): each failing
call has its own list of what is to be given back.

### Drawing

**OpenGL** (`SDL3/GL`, `SDL3/app`): glad's loader fills pointers by the version and the
extensions of the driver; `gl_init.c`, `cmx_gl` with two examples and `app` acquire
window, context, shaders, buffers, and draw. Hard: failures half-way, drivers that lack
what they announce. **Graphs in a window** (`graph/visual-graph.c`,
`graph/webasm/visual-graph2.c`): a shortest path that is recomputed when the graph is
replaced. Hard: pointers freed and not replaced when that fails.

### Parts that are not modelled

`PROJECT.json` has every part with its reason. Left out: the generated headers of glad and
volk, the commands of glad that no program of the repository calls, and `volk.c`, which
none calls either (with glad's second copy these are more than half of the lines of
the repository); demonstrations of one
feature of C or of the library that keep no state (`getopt.c`, `locale.c`, `time.c` and
the like); the programs that only call the library's `qsort`; `dl/main.c` and
`echo_ip.c`, one request each; the byte layout of a compressed header; and whatever only
formats text. Nothing more of these has behaviour a model could get wrong.

## 2. Modules

| module | of | shape |
| --- | --- | --- |
| `QueueServer` | message server and client | one action per step of main, consumer, worker and client between accesses to shared state; `Mailbox` is its abstract specification |
| `DequeList` | deque | one action per call, pointers explicit; `AbstractDeque` |
| `OAHash` | open-addressing table | one action per call, growth slot by slot; `AbstractMap` |
| `FileTransfer` | one connection of the file server | client and session over two token streams |
| `FileServer` | accept loop, threads, SIGINT | one action per step of main and of each session |
| `SocketLayer` | `mx_socket.c`, line readers | one action per system call; byte by byte |
| `SocketServers` | Unix socket server, threaded server | one action per system call of each process or thread |
| `Channels` | pipes, FIFO, message queue | one action per read, write, open and close of each process |
| `SharedMemory` | `shm`, semaphore programs | one action per system call; an increment is a read and a write |
| `Signals` | `system_cmd`, interrupted loops | one action per system call, signals in between |
| `ChainedHash` | chained table | one action per call; merges node by node |
| `MultiSet` | sets | one action per call; walks node by node |
| `WordCount` | word counters | character by character, block by block; listings |
| `WordTree` | search trees with their readers; list of directory names | one action per turn of a loop; nested calls of `dir_list` as a stack |
| `LinkedLists` | stack and three lists | one action per call, pointers explicit |
| `Heap` | heap | one action per turn of a loop; `AbstractQueue` |
| `HeapOps` | heap calls in one piece | for the programs that use the heap |
| `Huffman` | compressor | tree building merge by merge, decoding bit by bit; the program, one action per call on files |
| `Sorting` | eight sorts and a binary search | loops turn by turn, recursion as a stack of calls |
| `Paths` | two shortest-path programs with the graphs they make | one action per vertex and edge |
| `LineHeap` | three programs that order lines | one action per line and call |
| `Cipher` | `DES_main` | one action per round; tables, boxes and key schedule of the code as operators |
| `CipherFile` | the enciphering program | one action per block, any number of runs on a few files |
| `Download` | HTTP client, progress bar | one action per recv and per write |
| `FileTools` | file tools, skipping copy, listing, spelling checker | one action per block, entry or word |
| `Drivers` | test programs; the first hash table | a program is the table of its calls, one action each |
| `OpenGL` | loader and four programs | one action per group of commands, per acquisition |
| `VisualGraph` | two programs with a window | one action per event and per step of a recomputation |

`XProofs` has the theorems about `X` (`SystemProofs` also those about the components of
`System`, `RoundTripProofs` those about `FileTransfer`, `Cipher`, `CipherFile` and
`Download`: what comes out at the other end is what went in); `MCX` gives constants for TLC
where the `.cfg` cannot. `System` puts the programs that act on each other side by side:
`FileServer` and the parts of `SocketLayer`, `SocketServers`, `Signals`, `SharedMemory` and
`Channels`; the theorems of `SystemProofs` are about it. `MCSystem` adds the programs that
run alone (`LinkedLists`, whose theorems are in `DequeProofs`, test programs, first hash
table, drawing), for TLC: its steps are those of `System` or of an added part, so every behaviour TLC looks at is one of `System`,
with steps in between that change nothing there. `MCHeap` (`Heap`, `Huffman`, `Sorting`, `Paths`) and `MCPrograms` (twelve parts:
ciphers, words, lines, downloads, trees, file tools) do the same for others. A behaviour
belongs to one of the parts (`part`) and the others stand still.

### How state and actions correspond to the code

*QueueServer.* `main`, `cons` and `work[c]` are program counters named for what the
thread does next; a step ends before the next access to state another thread may
change, so `server_running` may be stored between the consumer's tests at main.c:96,
97 and 106. `queue` is the deque, as a sequence (`DequeList` says why it may be);
`mutex` the holder; `stream[c]` the pieces of messages that are on their way, of which
one `Recv` returns any prefix; the worker keeps the first of them, as `_strdup` stops
at the first NUL. `accepted` and `delivered` are history: what was pushed and what was
printed. After an exit message the consumer unlocks twice (main.c:119 and 132), which
is undefined: the second unlock leaves the mutex free, whoever held it. `Crowded`
names the only place where that lets two workers in; a push of both at once is then a
race on the deque and ends in `crashed` or in the queue as one of the two leaves it.

*DequeList.* `next`, `prev`, `data` are fields of nodes, `allocated` is the heap of
the C library, `order` (history) the nodes from front to back. A freed node keeps its
fields. *AbstractDeque* is a sequence with a `reply`; refusals are allowed only if
empty, out of room, or out of memory.

*OAHash.* `key`, `val` are arrays of slots; `oldKey`, `oldVal`, `at` the array that
`hash_resize` still moves from. `req` is the call that waits for the growth. `owned`
is the set of buffers the table must free. *AbstractMap* is a function from keys.

*FileTransfer.* A stream is a sequence of tokens: words, names, single digits of a
length, units of a file, line ends. `Ends` says after which kinds of tokens a recv may
end, `Room` how much it takes. So the two runs tell streams that come in lines from
those that do not. Numbers are written in base two; a digit token also carries the number
that it and the digits before it make, which is what strtoul has read when it stops there,
so that a length cut short is a shorter number. A name with the letters `ls` makes the server list its directory
(`AsksList`), whatever the command: `strstr` at fileserve.c:127.

*FileServer.* `conn[c]` follows a connection from the backlog through main's hands to
its thread; `late` is history, connections accepted after the stop.

*ChainedHash, MultiSet.* Memory is a set of cells (`Nodes`, `Bufs`); malloc takes any
free one (`CHOOSE`: which one is not visible) or fails. `job` is the walk in progress
of a merge or of a set operation. Merging a table into itself is left out: no program
does it. `Trail` is what `next` leads to from a node, `Chain` that of a bucket;
`job.was` and `answer.was` are history, the tables before the call.

*WordCount.* Four programs share the tokenizer; `Programs` names them. A table is a
bag, and `listing` what was printed last. Where the programs differ the model does:
hash-count adds the numbers of unique words of the files, hash-sorted counts the words
that are unique over all files, although both print it as the total (hash-count.c:211,
hash-sorted.c:227). `stdin` is a run without arguments.

*Heap.* `tree` is the array, `pos` the index of the loop, `moving` states have one
node out of place. *HeapOps* is the same loops as functions for callers.

*Huffman.* `node` is the table of tree nodes, `hheap` the heap of those not merged,
codes are bit sequences. In the program `disk` maps names (and `n.tmp`) to items:
bytes, packed blocks, the end mark. `lost` says that the unchecked `fclose` at
compression/main.c:205 lost buffered data; `CompressorRight` excepts it, as the program
cannot know. *Sorting.* `todo` is the stack of calls; elements carry their first place,
so that stability can be stated. *Paths.* `heap` holds entries (vertex, distance);
`TestGraphs` and `TestMatrices` are what the generators of the two mains can make.

*LineHeap.* A line is what its program makes of it: its form, its place in the order,
whether it is cut, whether a newline ends it. `owned` is the memory of the entries.
`pqueue.c` takes any last line without its newline for too long (`Truncated`: the
return at pqueue.c:47 comes before the reset at 53); a longer line in the middle is
taken as it is cut.

*Cipher.* A block is a function from places to bits; `left`, `right` are `lblk`, `rblk`;
`trail` (history) the halves after each round of the first pass. The bit order within a
byte does not matter, as every access goes through `bit_get` and `bit_set`. `Schedule`
and `Mix` are parameters, since the proofs hold for all; TLC is given `DES_Subkey` and
`DES_Mix`, which are the code's. *CipherFile.*
A file holds bytes or enciphered blocks, which are pairs of a block and a key;
deciphering with another key gives any block. `origin` (history) is the text and the key
a file was made from.

*Download.* The answer is a sequence of header lines, line ends and symbols of a body;
`ExtractHeader(n)` and
`ReadBody(n)` are a recv of `n` of them. The bar keeps what it showed last.

*Channels.* `stream` is what the pipe holds, byte by byte; `Write(n)`, `Read(n)` are one
system call inside the loops of `write_all` and `read_all`, so `EINTR` is a step in which
nothing happens. Of the FIFO the kernel's part is in the guards: opening waits for the
other side, reading gives 0 only without a writer, and what is in a FIFO nobody has open
is gone (`Kept`). `mqueue` is ordered as the kernel orders it, by priority and age.

*SocketLayer.* `held` are the open descriptors, `sock` what the `MXSocket`s say; `target`
and `left` are the locals of a call on its way. *SocketServers.* `proc_cmd` of the Unix
server writes once what one read brought and looks at no result (server.c:12): of `Copy`,
the rest of a short or failing write is gone, and `ReadFails` ends the client (14-15);
`complained` (history) are the clients of whom the server's `perror` told, `dropped` those
whose connection it closed unread. A signal without a handler, as SIGPIPE when nobody reads
the output, ends the process (`Killed`). Of the server with threads, `cells` is the memory
that carries a descriptor to its thread, `carries` what it holds; a `Hear` is a read of any
number of pieces of which `"%s"` prints those before the first NUL (main.c:13-14; `Nuls` are
the numbers of the pieces that are zero bytes, as the repository's clients send behind a line).

*SharedMemory.* `phase` is main, `at[w]` a worker's next step, `reg[w]` the counter as it
read it. *Signals.* `disp`, `blocked` are the caller's, `cdisp`, `cblocked` the child's;
`stdio` is the buffer of stdout and `screen` what was written. `quit` of `cursor.c` puts
the code that clears the screen into `stdio` and writes its message past it (cursor.c:14-18);
`exit` then flushes the code behind the message, which so is erased.

*WordTree.* `link` says what each pointer points to; words are numbers, in the order of
`strcmp`, and `letters`, `size` the buffer of `count_words`. `frames` are the nested calls
of `dir_list`, each with the node behind which its list begins and its tail; `todo` and
`sorted` the recursion of `merge_sort`. Where the code reads freed memory or a null
pointer (`NodeFails`), the model ends in `"undefined"`. *LinkedLists.* `root`, `next`,
`prev` are the pointers, `call` the last call with its answer; a sort moves the data
between the nodes, by some permutation of their places. In *Drivers* a program is
a sequence of records: what a call gets or gives back, what becomes of its failure.

*FileTools.* `content` is what is on the disk, `run[p]` the program of a process with its
locals; of a mapping only the length was fixed, each access looks at `content`. For
skip-cp.c `kframes` are the nested calls of `cp_dir`, paths are sequences of names, and `layout`
says how the two directories lie: apart, the output inside the input (refused, and removed if
just made: `Refuse`; a failing realpath leaves it: `NotResolved`), the output around the input
(`in_output_dir` passes over every directory), or the input the root of all files, where
only `same_dir` keeps the copy from itself. `skipped` and `stays` are history.

*OpenGL.* `pointers` are the commands whose pointer is set, `driver` what the
implementation says and what it lacks; the sets `load_GL_VERSION_*` have, of
the commands that function of `glad.c` loads, those the programs call, or one of the others
if they call none. `gl_init.c` has a `load_spv` of its own, which does what `mx_load_spv` does. *VisualGraph.* `ptr` says of each pointer
whether it is null, live or dangling; an access through one that is not live goes to
`fault` and ends the behaviour.

## 3. Runs

All bounds are the constants of the `.cfg`; each is named in its module.

**queue_safety** - two connections, one message each, either `hello` or `exit`, and
every failure (`memory`, `syscall`, spurious `wakeup`). Two workers are needed for any
race between them and enough, as workers are alike and the third thread, the consumer,
is there too; a message of each suffices to have one behind an exit.
`ServerInv` (the inductive invariant of the proofs: types, mutual exclusion, order of
the queue, the consumer's program counter against the queue), `ConsumerAccessSafe`
(no pop of an empty or freed deque), `PrintedBufferLive` (a worker prints the buffer
it has pushed while it still holds the mutex and the consumer cannot have freed it),
`ExitWakesConsumer` (no wait begins once an exit was accepted).

**queue_liveness** - the same without failures, under fairness. `ExitTerminates`,
`AcceptedDelivered` (printed, or the server is shutting down), and `MailboxSpec`:
deliveries are in order, none follows an exit, at most one follows the drop of the flag.

**queue_exit_lost** - expected violation, see section 6.

**deque** - four nodes, elements of two sizes, buffers of three; every call in every
order, failing allocations; nodes are symmetric. Four nodes give a first, a last and
two inner ones; a fifth would repeat an inner one. `ListInv` (both directions of links give
one sequence and its reverse, nothing leaks), `DequeSpec`.

**oa_hash** - four keys whose codes (6, 14, 22, 7) collide and wrap, two values,
tables of one and of three slots that grow to eight: every probe path with a tombstone
at every place, growth with every number of slots moved. `HashInv`, `Room` (a probe loop
always finds its slot), `Ownership` (each buffer is owned once, none lost), `MapSpec`.

**transfer** - four commands on four names and three files of different lengths, recv
ending after lines and anywhere in file data, at most five tokens. Without failures
`GetGetsFile` and `CommandEnds` hold; with signals, failing opendir and fstat, short
sendfile and a local file that cannot be opened or written, `TransferInv` (requests and
answers stay matched: the inductive invariant) and
`SavedRight` (what is saved is a part of what was asked for, and all of it when nothing
was cut) do, up to the first failure of the local file. Four commands let an answer be left
over for two later ones. **transfer_split_header** - expected violation.

**system** - the file server and seventeen parts, each by itself.

* The file server: four connections, three signals. `ServeInv`, `StopSticks` (a stop is
  not undone once the server listens; a signal before the store of TRUE is lost and not in
  its scope), `StopsAtNextClient` (a stopped server ends or
  waits for a client; the next one ends it). Three signals: one for main before it
  listens, one for a session, one for the accept.
* `SocketsSound`: three descriptors and two addresses for every opening with a failure
  after any call (an owner for each descriptor, the mode its `MXSocket` says); two
  clients of two pieces, a backlog of one, two runs of the Unix server, a signal in each,
  any read or write failing (what was copied is a part of what was sent and nobody's text is
  resumed; all of it, unless the server complained, was stopped or closed the connection);
  two connections and two cells of `socket_server`, four pieces on each of which the second
  is a zero byte (what is printed is in order, and is what was read up to the first NUL of
  each read).  Two clients are one served and one waiting, all that a backlog can tell.
* `ProcessesSound`: `system_cmd` with every disposition and mask its caller may have and
  two signals between any steps (the caller gets back what it had, its child starts with
  it, no signal for the command reaches the caller, the status is the command's); loops
  of three turns interrupted at each step, on a terminal and in a pipe (the message of the
  handler is the last on the screen, and of `cursor.c` is followed by the code that clears
  it, and by nothing else); two creators
  and two readers of shared memory; two workers of three increments.
* `ChannelsSound`: texts of up to four bytes with NULs and line ends through line readers
  with buffers of three that grow to six (every line once); three messages of four bytes through a pipe of six, either process
  killed at any point; three FIFO clients, one of which says `exit`, and a signal, where a
  read takes one message and a half; three senders of two priorities, a queue of two.
* `ChainsSound`, `ListsRight`: the mains of the lists and every sequence of calls on lists
  of up to three nodes of two values: the pointers lead to exactly what is allocated, and
  each call does to the values what a stack, an indexed list or a sort promises. (A sort is
  modelled by what it leaves, the ascending order of the same values, not by its exchanges.)
* `AloneSound`: eleven test programs and the first hash table with every call failing;
  drivers of every version that changes what is loaded, with and without commands they
  should have; every acquisition failing; graphs of four vertices whose path is computed
  again after any key.
* `AllEnd`: clients of the Unix server, `system_cmd`, loops of a hundred turns (three
  here), semaphore programs and a receiver that was told to stop come to their end.

**sets** - three items, three sets, counts up to two, all calls, an allocation failing
at each node: all pairs of sets on three items, with a third for the result.
`SetsRight`: nothing leaks, and results and comparisons are those of set theory.

**chained_hash** - three keys in one table with chains of up to three, and two tables
merged into one another with every allocation failing. `TablesInv` (chains sound in both
directions, no cell leaked), `MergesRight` (a merge keeps what there was;
`hash_clone_merge` is all or nothing), `OthersKeep` (a call changes one key).

**heap** - seven objects (three levels) with equal ranks and a first capacity of two:
`HeapInv`, `QueueSpec`. The codec on all short blocks and one of each table of
frequencies of up to five symbols in up to seven bytes, `MaxDepth` three, and the program
on two names, three runs, blocks of two bytes, with failing reads, writes, renames and
kills: `CompressorRight` (decoding gives the block back, and nothing leaks when memory
runs out; no user's file is destroyed, an output is complete or is not there). Arrays of
up to five keys of three values, all graphs of four vertices with weights 1, 2, 4 in one
or both directions, and what the generators make of three, with edges to the same place
twice: `AlgorithmsRight` (sorted, a permutation, stable where the code is, scans in
bounds; the search finds what is there, for every key from below the least to above the
greatest; distances are shortest, predecessors lead back to the start). Code with a bound of its own (depth 32, INFINITE) is given a bound
the small instance can reach or cannot, as the code's sizes allow: 65536 bytes give
codes of at most 22 bits, `BlocksAssumption`.

**programs** - twelve parts, each by itself.

* `WordsRight`: four word counters, two files of up to four characters (a few longer) of
  two letters and a separator, or standard input, blocks and first word buffers of two
  characters, so that words span up to three blocks and their buffers grow at each
  boundary; the totals are those of exactly the files that were counted, a listing has
  every word once and in order. Three line programs with two files of up to two lines,
  good (of two ranks, or cut), malformed or out of range, the last with or without a
  newline; a program that succeeds has delivered every line it should, greatest first,
  one that fails nothing, and no entry is leaked. Trees of four words, five insertions in
  every order, read letter by letter into a buffer of two that doubles twice, a stack of
  one, an allocation failing anywhere; every turn of the release keeps all that is not
  yet freed. Directories nested two deep with five entries in every order, each directory
  and allocation failing; each node is in exactly one list at every step of the sort.
* `CipherInv`: blocks of 64 bits and 16 rounds with the tables, boxes and key schedule of
  the code; the invariant of the proof. Three keys and four texts, one of each with a
  pattern.
* `EncryptRight`: three examples of the literature on the standard give what they should
  (key, plain and cipher text); two runs on two files, blocks of two bytes, texts of 0 to 4
  bytes, of values up to three (`MaxByte`), with last bytes that look like padding: what is
  deciphered is the text, whatever its length.
* `DownloadRight`: headers with a length in the middle, at the end, malformed, malformed
  and then good, or not there, bodies that contain empty lines, every cut by recv, every
  short write; bars of three widths.
* `FilesRight`: two processes with the four tools on two files of up to three bytes, blocks
  and pages of two; a directory in a directory, copied twice with some files there before,
  beside its output or around it, killed at any step; three names of every kind in every
  order; texts of up to four characters in blocks of three against a dictionary.
  A run of skip-cp that reports success has copied all, but for what failed without a
  report, what stood in the output before and what its guards pass over (`RunComplete`);
  a refusal leaves no directory, unless realpath failed, rmdir failed or a run was killed
  (`RefusedClean`).

## 4. Fairness

Weak fairness of `MainStep`, `ConsRun` and each `WorkStep` in `QueueServer`: a thread
that can run is run, and `poll` in main returns after 250 ms (main.c:187) so that main
sees the flag without a client. Clients, failures and spurious wakeups are not fair;
nobody has to connect. The mutex needs no strong fairness in the properties checked,
as there are finitely many messages. `FileServer`: only `MainStep`; `accept` blocks
as long as there is no client and no signal, which is why a stop is only promised for
the next client. `FileTransfer`: the session and the client's reads, not the user.
In `System`, and so in `MCSystem`, each part has the fairness of its own processes: a client's write that
can go on, the child of `system_cmd`, a loop between its sleeps, the workers with a
semaphore (`LockNext` as a whole: one of those that can run does), the receiver of
messages. `accept`, `mq_receive` and a user's signal are under none: they happen when
somebody else acts.
The other modules make no claim about progress; their loops end because every step
uses up what bounds it, and deadlock is allowed only where the program is at its end or
waits for its user.

## 5. Proofs

For every value of the constants, under the named assumptions of the modules:

* `QueueServerProofs`, from `ServerAssumption`. `ServerInv` is inductive. Mutual
  exclusion alone is not, because of the double unlock: it holds until the consumer's
  last statement, so the invariant says where every thread may be when the consumer is
  at `done`, that an exit is delivered only there, that the deque is freed only after
  the join, and that a test of the queue made under the mutex is still true at the pop.
  From it: `ConsumerAccessSafe`, `PrintedBufferLive`, `ExitWakesConsumer`, the order of
  messages, and the refinement of `Mailbox`, step by step.
* `DequeProofs`, from `DequeAssumption`. `ListInv` ties `next`, `prev`, `top`, `tail`,
  `count` and `allocated` to `order`; it is inductive as it stands because `order` has
  what a call needs to know of both neighbours. `DequeSpec` follows: the sequence of
  `data` along `order` is the abstract one.
  The same module has the other lists: `ChainsKept` and `CallsRight`, from `ListsAssumption`
  (memory is finite, null is none of its cells), for any values, any length of the mains
  and any calls of the stack and the lists of `LinkedLists`. `ListsInv` says
  that there is a row of nodes, none of them twice, along which the pointers lead and
  which has all that is allocated (`Shape`); for the stack and the doubly linked list it
  is led along backwards too. That `Follow`, a recursive function, gives this row is an
  induction on its places, no further than there are nodes (`FollowIs`; `RowLength`).
  What a call does is then to put a node into the row or take one out (`LinkedGood`,
  `UnlinkedGood`), and the values follow the row (`InsVals`, `DelVals`); a sort
  permutes the places, so each value is held as often as before (`SortGood`). That the
  values come out in ascending order is what the model says a sort does; of the exchanges
  of the code nothing is proved.
* `OAHashProofs`, from `HashAssumption`: `HashInv` (types, every key reachable by
  probing, no duplicates, exact counters). The counters are cardinalities, and the
  theorem `Room` is the pigeonhole argument that a probe always meets a free slot.
  `FindsExactly`: a lookup finds a key if and only if a slot has it. `OwnedOnce` is
  `Ownership`, which needs `HashInv` and `Brought` (the value that a call brings is nobody's
  until it is placed); `ImplementsMap` is `MapSpec`: `ContentsAre` reads the map off the
  slots, `PutRefines` is the one way a value gets into them, and growth, which moves a key
  from the old slots to the new, is a stutter.
* `HeapProofs`, from `HeapAssumption`: `HeapInv` (order, but for the node that moves,
  which is below its grandparent), that the root is greatest (by least index, since
  induction over the depth is not available), and `QueueSpec`. Then two programs around it:
  + `LinesDelivered`, from `ArgumentsAssumption` (arguments are sequences of files, files
    sequences of lines, of which only the last may lack its newline): `LineHeap` for any
    files and failures. An entry is in the heap, at hand, or out, and in one of these
    (`LinesInv`); a program that succeeds has put out each line it should, once and in
    order. The heap is that of `HeapOps`, whose loops are recursive functions, by `InsertedRule` (what goes up
    keeps the order below it) and `ExtractedRule`.
  + `FilesReplaced`, from `FilesAssumption` (no file has the name of a temporary one, a
    block has a byte): `FilesRight` of `Huffman`. `CopyGoes` says of the loop that what is in
    the temporary file unpacks to what was read of the input, in blocks that are full but
    for the last, unless fread has failed, which `ok` then says; `CopyDone` that a copy taken
    for good is complete, or has lost its end in fclose and is then no packed file;
    `PackedWell` that whatever a user may take for packed was packed by a run.
    The text of a file is a `FlattenSeq`, treated as in `SystemProofs`.
* `RoundTripProofs`, first part, from `TransferAssumption` and the hypothesis `InLines`: a
  recv ends after a line end or within file data, never within a line, and no name has the
  letters of ls. (TCP promises neither half of the first; `transfer_split_header` shows
  what happens otherwise.) `InSync` alone is not inductive, for it says nothing of the
  time between a command and its answer. `Matched` says, for each place the client may be
  at, what is in both streams: at the prompt nothing is on its way back and only words
  without an answer are on their way to the session (`AtPrompt`); behind a command, either
  the session has yet to read it, which it can only do whole (`Asked`, `AskedRule`,
  `WholeCommand`), or all was read and the answer is a listing with one terminator at its
  end (`Ended`), an error, nothing after a failing fstat, or the header and a part of the
  file, of which the rest is yet to be sent (`Answered`, `Coming`). `HeaderRead` is what
  the client makes of a recv that holds a header: the length is the number that was
  written and what follows the line end is the beginning of the file. `Digits` is a
  recursive function; that it is what its equation says (`DigitsDef`), and what it writes
  (`DigitsRule`), is proved by induction in the form of a least counterexample (`Least`,
  `Induction`), which takes a set and no operator. From `TransferInv`, for any number of
  files, sizes and commands, any pieces and any failures, and still under `InLines`: `InSync`,
  `SavedRight`, and `GetGetsFile` as a property of steps. These are theorems about streams
  cut where `InLines` says; `transfer_split_header` is a stream cut elsewhere, for which the
  last is false and other bytes are saved.
* `RoundTripProofs`, second part, from `CipherAssumption` and `TablesAssumption` (the tables at both ends
  are inverse to each other, which TLC evaluates for the code's): `CipherInv`, for every
  round function, key schedule, block size and number of rounds. `Restored` says nothing
  about the middle of the second pass; so `trail` records the first pass, `TrailRight`
  says that each step of it is a round, and `OnTrail` that the second pass is at the same
  place with the halves exchanged: a round undoes a round because its half was mixed
  under the same subkey from a half that is still there.
* `RoundTripProofs`, third part, from `CipherFileAssumption` (a block has a byte or more, a
  byte can hold its length, texts are sequences of bytes): `FileRestored`, for any width,
  files, texts and keys. It is about two runs with others in between; so `Made` says of each
  file that a run enciphered without a failure that it is, block by block, its text with
  its padding, whoever runs next, and `Doing` where the run in progress is: the blocks
  written are those of the first `position` bytes (`PartEnciphered`), or what was
  deciphered is the beginning of the text that so many blocks hold (`PartDeciphered`). How
  many blocks a text fills is a quotient, given by its two bounds (`InBlocks`,
  `WholeBlocks`); the last byte of the last block is what tells a full block from a
  padded one.
* `RoundTripProofs`, fourth part. From `DownloadAssumption` (the first buffer has room,
  answers are sequences of symbols): `DownloadSaved`. `Collected` says that no empty line
  is in what has come yet, so that the one found is the first of the answer however recv
  cut it; `Parted` and `Written` follow the bytes behind it into the file. From
  `ProgressAssumption` (a length is a number and a read brings something): `ProgressInv`,
  for any lengths and terminals. It compares quotients of products, which the prover cannot
  do by itself: `ScaledUp`, `ScaledWhole`, `ScaledMore` say that the percentage grows with
  what has gone, is the whole for the whole only, and what a rounded quotient can lose. Together: `DownloadRight`.
* `MultiSetProofs`, from `SetAssumption`. `SetInv` is inductive: lists without an item
  twice, and a walk that has built exactly what the items behind it call for.
  `SetsCompute` adds that what a walk has built at its end is the union, intersection,
  difference or sum of the sets as they were when the call began, also where a set is its
  own operand, and that the comparisons agree with those of set theory: two lists without
  duplicates of which one is not longer and has all of the other.
* `ChainedHashProofs`, from `ChainAssumption`. Chains are sets that `next` reaches, and
  there is no induction along them; so `Reach` is the least set closed under `next`, from
  which all else follows: what is reached from a node's successor is what is reached from
  the node but for itself (`ReachRest`, since `prev` leads back and the first node has
  none: `NoLoop`), what a step does not touch is reached as before (`ReachFrame`), and
  `Trail`, the recursive definition TLC evaluates, is the same set because nodes are
  finite (`TrailIs`). `IInv` is then five parts: `Lists` (links, buckets, keys, disjoint
  tables, cells in use), `Values` (each buffer is one node's), `JobRight` (where a merge
  is), `ProgressRight` (what it has filled in, key by key) and `Outcome`. Each call is a
  push, an unlinking, a release or a change of a value (`PushLists`, `RemoveLists`,
  `ReleaseLists`, `StillLists`). From `IInv`: `TablesSound`, `MergesSound`, and
  `OthersStay` for single steps.
* `SystemProofs`. For each component the theorem of its own specification:
  + `Stopped`, `NotForgotten`: `ServeInv` and `StopSticks` of the file server.
  + `DescriptorsSound`, from `SocketAssumption` (-1 is no descriptor). `SockIInv` adds
    where in a call the descriptor is the call's own and not yet the `MXSocket`'s.
  + `UnixServerSound`, from `UdsAssumption` (a client is not nobody, a text is not
    empty). A client is served, waits, was given up, has not connected or is done, and in
    no two of these states (`OneQueue`, `Progress`); pieces copied and pieces unread are
    never more than the pieces written, and are these for a client with whom no call
    failed (`CountedPieces`); and only the client that is served may be the last
    in the output (`LastIsCurrent`), so a text is never resumed.
  + `ThreadServerSound`, from `ThrAssumption`: a cell is the listener's or that of a
    connection whose thread reads, one each (`ListenersCell`, `ThreadsCells`,
    `OwnCells`), whence the numbers of both agree. `HeardLines` compares what was printed of a
    connection with what has been read of it: ascending, and whatever is not in it lies
    behind a zero byte or a piece not printed either (`PrintsOn`, `JoinedNumbers`).
  + `ShmSound`, from `ShmAssumption` (no process is both a creator and a reader):
    `ShmIInv` adds what a process at each step knows of the object it opened, which stays
    true whoever unlinks the name. `CountersExact`, from `LockAssumption`: exclusion, no
    lost update, lines in order and a semaphore that outlives its users, for any number
    of rounds; exclusion needs that lock and workers inside add up to one, and the sum
    needs exclusion, since a worker about to store must have read what the counter still
    is.
  + `CallsSound`, `LoopsSound`: `SystemInv` and `InterruptInv`. The caller of
    `system_cmd` is as it was once the calls that put things back are behind it, and what
    a loop printed is the screen and the buffer together, at most one message in between,
    and from the handler on nothing but the clear-screen of `cursor.c` comes behind it.
  + `LinesRead`, from `ReaderAssumption` (a buffer of two bytes or more), for any texts.
    `SocketReads` says of `readline` that lines given, buffer, stream and what is to come are
    the text in this order; `FileReads` of the readers of files that what is left of the
    text begins where a line does (`Ahead`), so that the next line given is the next of the
    text, or its beginning (`GoodLine`).
  + `MessagesFramed`, from `PipeAssumption` (a message has a byte or more): `PipeIInv` gives
    every byte in the pipe its message and its place in it (`PipeFlow`), and what the parent
    has read of the current message is its beginning (`PipeGot`).
  + `ClientsHeard`, from `FifoAssumption` (a read takes something): `FifoBooks` says where
    every half of a message is - in a line, in the FIFO or given up -, `FifoLate` that what
    may be given up while the server is active came behind a read of 0, and `FifoStops`
    for which reasons the server may be where it stops.
  + `MessagesKept`, from `MqAssumption`: `Delivered` (a message sent is in the queue or among
    those received, once) and `Prompt` (a receiver that has seen the flag does not receive).

  What is read, joined, is `FlattenSeq`, a fold: `Flat` is the same by its equations, and
  what is proved of it by induction, as of `LinesOf`, takes a least counterexample (`Least`).

  A behaviour of `System` is one of each component, since its step is a step of the part
  or leaves the part's variables alone; so `ServerAlways`, `SocketsAlways`,
  `ProcessesAlways` and `ChannelsAlways` state the run's
  properties for every behaviour of `System`, from `SystemAssumption`, which is what the
  components assume.

Only model-checked:

* All liveness, since the prover has no ENABLED.
* `EncryptRight` for the three examples of the standard, which are computations; the rest of
  it is `FileGivenBack`.
* Of `CompressorRight` the codec (`CodecRight`; its program is `FilesReplaced`), of
  `WordsRight` all but the line programs (`LinesDelivered`), and `AlgorithmsRight`,
  `FilesRight` of the file utilities and, of `AloneSound`, the shortest path that is
  drawn: they compare what a program computed with a recursive definition over its data
  (the words of a text, the codes of a tree, the shortest of all paths, the files below a
  directory). Each
  such comparison is an induction over data; an operator cannot be handed to the library's
  theorems, and an induction by a least counterexample was carried out only where the data
  is a sequence and the recursion goes along it, as for lines and messages.
* The rest of `AloneSound`, about programs each of which is one table of calls or one
  sequence of acquisitions: TLC looks at all of them with every call failing.

## 6. What the models showed

* **An exit message may be lost** (`queue_exit_lost`). `process_input` keeps what one
  recv returned up to its first NUL (socket_server_queue/main.c:53). An exit that
  arrives together with the message before it is dropped; the client has printed
  "Quit message sent shutting down.." and the server runs on.
* **A header cut in its digits** (`transfer_split_header`). The client takes the digits
  one recv brought for the length (fileserve.c:306), writes the others into the file
  and reports it as saved.

Behaviour the models have and the properties do not forbid, worth knowing:

* A worker may push to the freed deque, and lock the destroyed mutex, when the server
  stops during its recv (workers are detached). The consumer cannot.
* When main stops by itself, its broadcast without the mutex (main.c:247) may fall
  between the consumer's test and its wait; main then joins for ever.
* After a failing local write, or when the local file cannot be opened, the rest of the
  file is read as answers to later commands.
* The node `hash_insert` of the open table returns is dangling after the next growth.
* `hash_clone_merge` drops values stored with 0 bytes.
* `quick_sort` calls itself on the same part again as long as rand() picks the last
  element and it is the only greatest; `MaxCalls` bounds how often.
* `insertion_sort` returns silently when it has no memory.
* `pqueue.c` leaves out the last line of a file that no newline ends, as too long.
* The enciphering program empties its input when it is also its output, and reports
  success whatever fread and fwrite say.
* `dl-file.c` saves nothing, and says nothing, when Content-Length is the last field of
  the header (dl-file.c:134).
* The parent of `pipe_message.c` reads end of file for ever when its child is killed.
* A message written to the FIFO between a read of 0 and the close behind it is lost when
  its writer closes first; a client that waits in open when the server unlinks the FIFO
  waits for ever; `exit` in one read with another message is not obeyed; and a signal
  stops the server only when its read has given 0 and the next client has opened the FIFO.
* `dir_list` walks freed nodes, or dereferences a null pointer, when memory runs out
  inside a nested directory (dir-r.c:139, 141, 148).
* A Unix server whose socket file is not there never starts: the path is to be removed
  first, and its absence is taken for a failure (mx_socket.c:16). Only a file left by an
  earlier run, or made by hand, lets it listen.
* A signal between the test of the flag and `accept` or `mq_receive` is noticed only when
  the next client or message has come.
* `semaphore_thread_wake.c` starts its semaphore at 1: the thread need not wait for the
  wake-up, whose post then stays in the semaphore.
* `copy-file.c` with its input as its output empties it and reports success; a program
  with a mapping of a file that is truncated is killed by SIGBUS; a read error in
  `count.c` looks like the end of the file (`copy-file.c` reports it).
* `skip-cp.c` takes a file that a killed run left for copied, and leaves out, silently, an
  entry at the top with the name of the output. With the input inside the output it passes
  over every subdirectory and reports success (skip-cp.c:48); when realpath fails it leaves
  the directory it has just made (115-120); an error of readdir looks like the end.
* Ctrl+C in `cursor.c` writes its message and erases it: the code that clears the screen is
  still in the buffer of stdout, and `exit` flushes it afterwards (cursor.c:14-18).
* The Unix server loses what a short write to its output does not take (uds_server/server.c:12),
  and gives a client up when a read fails. The server with threads prints, of what one recv
  joined, only what comes before the first zero byte, so a second message is lost
  (socket_server/main.c:13-14).
* The spelling checker gives a word that ends its line the number of the next line, stops
  looking at a block behind a zero byte, and ends at the first file it cannot open.
* When a graph cannot be made again, the native program goes on to draw through freed and
  null pointers, and frees twice (visual-graph.c:334); the one for the browser looks at no
  allocation at all.
* A failed loader leaves the OpenGL context, an empty shader file stays open, and `ex2`
  leaves its first program when the second fails.
* `set/main.c` leaks a set when one of its calls fails (139-146); `fscanf.c` and `struct.c`
  use memory they may not have got; the comparison of `struct.c` never says greater (73);
  `hashtable/main.c` and `struct.c` ask for ever at the end of their input.
* hash-sorted says "could not create flat list" for a file without words, and a listing
  for which there is no memory fails neither its file nor the program.
* `count-words.c` prints 0 tokens for a file for which memory ran out, and exits with
  success.

What the models leave out within the programs they model:

* The buffer of stdout that is full before a loop ends, and flushes itself (`Signals`).
* `skip-cp.c`: entries that are neither file nor directory, or of a type readdir does not
  know; a failing stat of the output, without which `same_dir` cannot stop a copy into itself.
* `QueueServer`: a text of which one half is itself `exit`.
* `ChainedHash`: `hash_set` without a cleanup; the copy that `hash_merge` makes of such a value
  (hashtable.c:300-306) is freed by nobody.
* `Paths`: the allocations of `heap-path.c`, most unchecked, and a failing `heap_insert`
  (heap-path.c:45-59).

Hazards that are modelled, and of which the properties say where they cannot happen but
not that they are wrong: the second unlock (socket_server_queue/main.c:132), the signal
that the store of `active_loop` overwrites (fileserve.c:172), enciphering a file onto
itself (encrypt/main.c:71), the freed list nodes (dir-r.c:140), a receiver without a
last message (mq-recv.c:47), the graph that cannot be made again
(visual-graph.c:334). No text of the repository says otherwise, so none is an expected
violation.

## 7. Done and left

Done: all parts of section 2 and the proofs of section 5. Left, by use:

1. Proofs: the loader and the programs of `OpenGL`, for any driver.
2. Damaged input of the compressor (the counts in the header, the lengths of codes), which
   needs its byte layout; `fiforead.c`, `fifowrite.c`, `dl/main.c`, with their one read into
   a buffer of fixed size.
