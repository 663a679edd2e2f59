------------------------------ MODULE WordCount -------------------------------
(***************************************************************************)
(* The programs that count the words of the files they are given:          *)
(*   hash-sorted  src/hashtable/hash-sorted.c: words per file, and the     *)
(*                words of all files in a global table;                    *)
(*   hash-count   src/hashtable/hash-count.c: words per file, and the sums *)
(*                over the files;                                          *)
(*   oa-count     src/hashtable/open_address/oa-count.c, the same;         *)
(*   match        src/set/match.c: how often each word is in all files.    *)
(* All read blocks and take words from them character by character; a word *)
(* may go on in the next block.  Memory may run out, or a read fail, at    *)
(* any place where the code looks for it.                                  *)
(*                                                                         *)
(* A table is a bag of words; ChainedHash, OAHash and MultiSet say how it  *)
(* is stored.  Letters are up to case, all else is a separator; a letter   *)
(* is its place in the order of strcmp.                                    *)
(***************************************************************************)
EXTENDS Naturals, SequencesExt, FiniteSets, Bags, TLC

CONSTANTS
  Programs,  \* which of "hash-sorted", "hash-count", "oa-count" and "match" are looked at
  Letters, Sep,
  Files,     \* number of arguments
  Contents,  \* what a file may be
  Block      \* BUFFER_SIZE, of the block and of the word

WordAssumption ==
  /\ Programs \subseteq {"hash-sorted", "hash-count", "oa-count", "match"}
  /\ Letters \subseteq Nat /\ Sep \notin Letters
  /\ Contents \subseteq Seq(Letters \cup {Sep})
  /\ {Files, Block} \subseteq Nat \ {0}

VARIABLES
  program,   \* the one that runs
  stdin,     \* without arguments it counts its standard input
  pc,        \* "open", "begin", "read", "scan", "last", "list", "total", "exit" or "failed"
  file,      \* number of the next argument
  rest,      \* what is left of the open file
  buffer,    \* what is left of the block
  word,      \* word[0..index)
  cap,       \* word_size
  table,     \* words of this file
  tokens, unique,          \* *token_count and count of this file
  global,    \* words of all files
  total, uniqueTotal, errors,
  listing,   \* lines just printed: whether there was a list of them, and the words with their counts
  given      \* for the properties: files opened and whether they were counted

vars == <<program, stdin, pc, file, rest, buffer, word, cap, table, tokens, unique, global, total,
          uniqueTotal, errors, listing, given>>
counts == <<table, tokens, unique>>
sums == <<global, total, uniqueTotal, errors>>

NoListing == [made |-> FALSE, lines |-> <<>>]
SumsFiles == program \in {"hash-count", "oa-count"}

Init ==
  /\ program \in Programs
  /\ stdin \in IF program = "match" THEN {FALSE} ELSE BOOLEAN
  /\ pc = IF stdin THEN "begin" ELSE "open"
  /\ file = 1
  /\ rest \in IF stdin THEN Contents ELSE {<<>>}
  /\ buffer = <<>>
  /\ word = <<>> /\ cap = Block
  /\ table = EmptyBag /\ tokens = 0 /\ unique = 0
  /\ global = EmptyBag /\ total = 0 /\ uniqueTotal = 0 /\ errors = 0
  /\ listing = NoListing
  /\ given = IF stdin THEN <<[text |-> rest, ok |-> FALSE]>> ELSE <<>>

\* errors after a file that could not be counted.
Uncounted == errors
OneMore == errors + 1

\* A file that cannot be opened is reported and passed over; match keeps no count of such
\* errors, the others do.
NotFound ==
  /\ pc = "open" /\ file <= Files
  /\ file' = file + 1
  /\ errors' = IF program = "match" THEN errors ELSE OneMore
  /\ UNCHANGED <<pc, rest, buffer, word, cap, counts, global, total, uniqueTotal, listing, given>>

Open ==
  /\ pc = "open" /\ file <= Files
  /\ pc' = "begin" /\ file' = file + 1
  /\ rest' \in Contents
  /\ buffer' = <<>> /\ word' = <<>> /\ cap' = Block
  /\ table' = EmptyBag /\ tokens' = 0 /\ unique' = 0
  /\ given' = Append(given, [text |-> rest', ok |-> FALSE])
  /\ listing' = NoListing
  /\ UNCHANGED sums

\* count_words or insert_words returns false: match gives up, the others go on to the next
\* file if there are any.
GiveUp ==
  /\ IF program = "match"
     THEN pc' = "failed" /\ UNCHANGED errors
     ELSE pc' = (IF stdin THEN "exit" ELSE "open") /\ errors' = OneMore
  /\ listing' = NoListing
  /\ UNCHANGED <<file, rest, buffer, word, cap, counts, global, total, uniqueTotal, given>>

\* count_words and insert_words begin with the word buffer; the former makes its table,
\* for the latter main has made a set.
Begin ==
  /\ pc = "begin"
  /\ pc' = "read"
  /\ UNCHANGED <<file, rest, buffer, word, cap, counts, sums, listing, given>>

BeginFails == pc = "begin" /\ GiveUp

\* fread, which at the end of the file or of a read error returns 0.
Read ==
  /\ pc = "read" /\ rest # <<>>
  /\ LET n == IF Len(rest) < Block THEN Len(rest) ELSE Block
     IN  buffer' = SubSeq(rest, 1, n) /\ rest' = SubSeq(rest, n + 1, Len(rest))
  /\ pc' = "scan"
  /\ UNCHANGED <<file, word, cap, counts, sums, listing, given>>

ReadFails == pc = "read" /\ GiveUp

EndOfFile ==
  /\ pc = "read" /\ rest = <<>>
  /\ pc' = "last"
  /\ UNCHANGED <<file, rest, buffer, word, cap, counts, sums, listing, given>>

EndOfBlock ==
  /\ pc = "scan" /\ buffer = <<>>
  /\ pc' = "read"
  /\ UNCHANGED <<file, rest, buffer, word, cap, counts, sums, listing, given>>

\* A letter goes to the word, which grows when it is full.
WriteLate == Len(word) > cap
WordFull == Len(word) >= cap

Letter ==
  /\ pc = "scan" /\ buffer # <<>> /\ Head(buffer) # Sep
  /\ word' = Append(word, Head(buffer))
  /\ cap' = IF WordFull THEN 2 * cap ELSE cap
  /\ buffer' = Tail(buffer)
  /\ UNCHANGED <<pc, file, rest, counts, sums, listing, given>>

GrowFails ==
  /\ pc = "scan" /\ buffer # <<>> /\ Head(buffer) # Sep /\ WordFull
  /\ GiveUp

\* insert_value and multiset_insert: the word is counted once more.
CountWord ==
  /\ table' = table (+) SetToBag({word})
  /\ tokens' = tokens + 1
  /\ unique' = IF BagIn(word, table) THEN unique ELSE unique + 1

NotCleared == word
Cleared == <<>>

Separator ==
  /\ pc = "scan" /\ buffer # <<>> /\ Head(buffer) = Sep
  /\ IF word = <<>> THEN UNCHANGED <<word, cap, counts>>
     ELSE /\ CountWord
          /\ word' = Cleared
          /\ cap' = IF program = "match" THEN cap ELSE Block
  /\ buffer' = Tail(buffer)
  /\ UNCHANGED <<pc, file, rest, sums, listing, given>>

\* A word new to the table, or a word buffer made anew, needs memory.
NeedsMemory == ~BagIn(word, table) \/ (program # "match" /\ cap > Block)

InsertFails ==
  /\ pc = "scan" /\ buffer # <<>> /\ Head(buffer) = Sep
  /\ word # <<>> /\ NeedsMemory
  /\ GiveUp

\* The word that the file ends with.
LastWordLost == UNCHANGED counts
LastWord == IF word = <<>> THEN UNCHANGED counts ELSE CountWord

CountLast ==
  /\ pc = "last"
  /\ LastWord
  /\ pc' = IF program = "match" THEN "total" ELSE "list"
  /\ UNCHANGED <<file, rest, buffer, word, cap, sums, listing, given>>

LastFails ==
  /\ pc = "last" /\ word # <<>> /\ ~BagIn(word, table)
  /\ GiveUp

-----------------------------------------------------------------------------
(***************************************************************************)
(* The listing of the words of a file.                                     *)
(***************************************************************************)
\* strcmp(v, w) > 0.
Follows(v, w) ==
  \E i \in DOMAIN v : /\ \A j \in 1..(i - 1) : j <= Len(w) /\ v[j] = w[j]
                      /\ (i <= Len(w)) => v[i] > w[i]

\* sort_node: passes over the list up to the last node that the pass before has put in
\* place, until one has swapped nothing.
Passed(list, last) ==
  FoldLeft(LAMBDA s, i : IF Follows(s[i], s[i + 1]) THEN [s EXCEPT ![i] = s[i + 1], ![i + 1] = s[i]] ELSE s,
           list, [i \in 1..(last - 1) |-> i])
sort_node(list) ==
  LET n == Len(list)
      after[k \in 0..n] == IF k = 0 THEN list ELSE Passed(after[k - 1], n - k + 1)
      done == CHOOSE k \in 1..n : after[k] = after[k - 1] /\ \A j \in 1..(k - 1) : after[j] # after[j - 1]
  IN  after[done]

\* hash_flat_list has the words in an order that depends on the hash; each is looked up.
Lines(list) == [i \in DOMAIN list |-> <<list[i], table[list[i]]>>]
Orders == SetToSeqs(DOMAIN table)

\* hash-sorted cannot tell an empty list from one there was no memory for.
PrintSorted ==
  /\ pc = "list" /\ program \in {"hash-sorted", "oa-count"}
  /\ IF DOMAIN table = {} THEN listing' = [NoListing EXCEPT !.made = (program = "oa-count")]
     ELSE \E order \in Orders : listing' = [made |-> TRUE, lines |-> Lines(sort_node(order))]
  /\ pc' = "total"
  /\ UNCHANGED <<file, rest, buffer, word, cap, counts, sums, given>>

\* Without memory there is no list, and the file is counted as the others are.
PrintFails ==
  /\ pc = "list" /\ program \in {"hash-sorted", "oa-count"} /\ DOMAIN table # {}
  /\ listing' = NoListing
  /\ pc' = "total"
  /\ UNCHANGED <<file, rest, buffer, word, cap, counts, sums, given>>

\* hash-count prints its buckets one after the other.
print_word_table ==
  /\ pc = "list" /\ program = "hash-count"
  /\ \E order \in Orders : listing' = [made |-> TRUE, lines |-> Lines(order)]
  /\ pc' = "total"
  /\ UNCHANGED <<file, rest, buffer, word, cap, counts, sums, given>>

-----------------------------------------------------------------------------
\* What becomes of the words of a file: hash_clone_merge keeps the counts of the words
\* that are there, multiset_concat adds to them.
WordsOf == IF program = "hash-sorted" THEN global @@ table
           ELSE IF program = "match" THEN global (+) table ELSE global

Total ==
  /\ pc = "total" /\ ~stdin
  /\ pc' = "open"
  /\ global' = WordsOf
  /\ total' = total + tokens
  /\ uniqueTotal' = IF SumsFiles THEN uniqueTotal + unique ELSE uniqueTotal
  /\ listing' = NoListing /\ given' = [given EXCEPT ![Len(given)].ok = TRUE]
  /\ UNCHANGED <<file, rest, buffer, word, cap, counts, errors>>

\* Memory runs out in hash_clone_merge; in multiset_concat, where match gives up.
TotalFails == pc = "total" /\ ~stdin /\ ~SumsFiles /\ GiveUp

\* Of the standard input there are no totals.
Answered ==
  /\ pc = "total" /\ stdin
  /\ pc' = "exit" /\ listing' = NoListing /\ given' = [given EXCEPT ![1].ok = TRUE]
  /\ UNCHANGED <<file, rest, buffer, word, cap, counts, sums>>

\* match prints the words of all files in an order that MultiSet says, with -m with their
\* counts.
Finish ==
  /\ pc = "open" /\ file > Files
  /\ pc' = "exit"
  /\ uniqueTotal' = IF SumsFiles THEN uniqueTotal ELSE Cardinality(DOMAIN global)
  /\ IF program = "match"
     THEN \E use_multi \in BOOLEAN, order \in SetToSeqs(DOMAIN global) :
            listing' = [made |-> TRUE,
                        lines |-> [i \in DOMAIN order |-> <<order[i], IF use_multi THEN global[order[i]] ELSE 1>>]]
     ELSE UNCHANGED listing
  /\ UNCHANGED <<file, rest, buffer, word, cap, counts, global, total, errors, given>>

\* Counting one file, from the first allocation to the listing.
count_words ==
  \/ Begin \/ BeginFails
  \/ Read \/ ReadFails
  \/ EndOfFile \/ EndOfBlock
  \/ Letter \/ GrowFails
  \/ Separator \/ InsertFails
  \/ CountLast \/ LastFails
  \/ PrintSorted \/ PrintFails \/ print_word_table

\* The rest of main: the arguments in turn, and the totals.
main ==
  \/ NotFound
  \/ Open
  \/ Total \/ TotalFails
  \/ Answered
  \/ Finish

Step ==
  \/ main
  \/ count_words

Next == Step /\ UNCHANGED <<program, stdin>>

Spec == Init /\ [][Next]_vars

-----------------------------------------------------------------------------
(***************************************************************************)
(* Properties.                                                             *)
(***************************************************************************)
\* The words of a text: its maximal runs of letters.
Runs(t) ==
  {<<i, j>> \in (1..Len(t)) \X (1..Len(t)) :
     /\ i <= j /\ \A k \in i..j : t[k] # Sep
     /\ i = 1 \/ t[i-1] = Sep
     /\ j = Len(t) \/ t[j+1] = Sep}

Words(t) ==
  LET at(w) == {r \in Runs(t) : SubSeq(t, r[1], r[2]) = w}
  IN  [w \in {SubSeq(t, r[1], r[2]) : r \in Runs(t)} |-> Cardinality(at(w))]

Counted == {i \in DOMAIN given : given[i].ok}
WordsIn(i) == Words(given[i].text)

\* Every variable stays in its range, and a word with its final 0 fits in its buffer.
TypeOK ==
  /\ pc \in {"open", "begin", "read", "scan", "last", "list", "total", "exit", "failed"}
  /\ file \in 1..(Files + 1) /\ errors \in 0..Files
  /\ IsABag(table) /\ IsABag(global)
  /\ Len(word) <= cap /\ cap >= Block
  /\ Len(buffer) <= Block

\* A file that was read to its end has been counted by its words, wherever blocks end and
\* however often the word buffer has grown.
FileCounted ==
  pc \in {"list", "total"} =>
    LET t == given[Len(given)].text
    IN  /\ table = Words(t)
        /\ tokens = Cardinality(Runs(t))
        /\ unique = Cardinality(DOMAIN Words(t))

\* Every argument is counted or an error, except that match is silent about files it
\* cannot open and gives up at the first failure.
EveryFileAnswered ==
  CASE program = "match" -> Counted = DOMAIN given
    [] stdin -> Cardinality(Counted) + errors = 1
    [] OTHER -> Cardinality(Counted) + errors = Files

\* At the end every file is accounted for, and the totals are those of the files that were
\* counted, and of no part of one that failed.
TotalsOfCounted ==
  pc = "exit" =>
    /\ EveryFileAnswered
    /\ LET all == UNION {DOMAIN WordsIn(i) : i \in Counted}
           count(i, w) == IF w \in DOMAIN WordsIn(i) THEN WordsIn(i)[w] ELSE 0
       IN  CASE stdin -> global = EmptyBag /\ total = 0
             [] program = "hash-sorted" ->
                  /\ DOMAIN global = all
                  /\ uniqueTotal = Cardinality(all)
                  /\ \A w \in all : \E i \in Counted : global[w] = count(i, w)
             [] program = "match" ->
                  /\ DOMAIN global = all
                  /\ \A w \in all : global[w] = BagCardinality([i \in {i \in Counted : count(i, w) > 0} |-> count(i, w)])
             [] OTHER ->
                  LET of(i) == Cardinality(DOMAIN WordsIn(i))
                  IN  uniqueTotal = BagCardinality([i \in {i \in Counted : of(i) > 0} |-> of(i)])

\* A list that is made has every word of the file once, with its count, and is in the order
\* of the words where the program sorts; it is missing without memory, and hash-sorted has
\* none for a file without words.
ListingRight ==
  (pc = "total" /\ program # "match") =>
    LET words == Words(given[Len(given)].text)
        lines == listing.lines
    IN  /\ listing.made =>
             /\ Len(lines) = Cardinality(DOMAIN words)
             /\ \A w \in DOMAIN words : \E i \in DOMAIN lines : lines[i] = <<w, words[w]>>
             /\ program # "hash-count" =>
                  \A i \in 1..(Len(lines) - 1) : Follows(lines[i + 1][1], lines[i][1])
        /\ program = "hash-count" => listing.made
        /\ (program = "hash-sorted" /\ words = EmptyBag) => ~listing.made

\* What the counting programs achieve, with the word buffer never overrun on the way.
CountsRight == TypeOK /\ FileCounted /\ ListingRight /\ TotalsOfCounted
=============================================================================
