----------------------------- MODULE CipherFile -------------------------------
(***************************************************************************)
(* The program of src/encrypt/main.c, run again and again on a few files:  *)
(* -e pads a file to whole blocks and enciphers them, -d deciphers them    *)
(* and removes the padding.  Cipher says how a block is enciphered; here   *)
(* an enciphered block is the block and the key, and deciphering it with   *)
(* another key gives any block.                                            *)
(*                                                                         *)
(* A file is a sequence of bytes or of enciphered blocks; the program is   *)
(* given one of the first kind for -e and one of the second for -d.        *)
(* fread, fwrite and fclose are never looked at for an error.              *)
(***************************************************************************)
EXTENDS Naturals, SequencesExt

CONSTANTS
  Names,     \* of files
  Plain,     \* contents a user has: sequences of bytes
  Keys,
  Width,     \* bytes of a block: 8
  MaxByte,   \* 255
  NoFile,
  MaxRuns    \* bound on the runs of the program

\* A block can hold the number of bytes that pad it, and no file is what stands for none.
CipherFileAssumption ==
  /\ Width \in Nat \ {0} /\ MaxByte \in Nat /\ MaxByte >= Width
  /\ Plain \subseteq Seq(0..MaxByte)
  /\ NoFile \notin [text : Seq(0..MaxByte), key : Keys]

VARIABLES
  pc,        \* "shell", "enc" or "dec"
  input, output, key,
  rest,      \* what the open input has left
  position,  \* ftell of the input
  disk,      \* what each file holds
  kind,      \* what the user knows each file for: "plain" or "cipher"
  faulty,    \* for the properties: a call has failed, or the process was killed
  text,      \* what the run should write if it deciphers, and reads if it enciphers
  origin,    \* origin[n]: text and key n was made from, in a run without a failure
  runs

vars == <<pc, input, output, key, rest, position, disk, kind, faulty, text, origin, runs>>
run == <<input, output, key, kind, text, runs>>

Bytes == 0..MaxByte
Block == [1..Width -> Bytes]
Enciphered == [key : Keys, block : Block]

Init ==
  /\ pc = "shell" /\ input \in Names /\ output = input /\ key \in Keys
  /\ rest = <<>> /\ position = 0
  /\ disk \in [Names -> Plain \cup {NoFile}] /\ kind = [n \in Names |-> "plain"]
  /\ faulty = FALSE /\ text = NoFile
  /\ origin = [n \in Names |-> NoFile] /\ runs = 0

\* The output is opened, and with that emptied, before the input is read.
Call ==
  /\ pc = "shell" /\ runs < MaxRuns
  /\ \E in, out \in Names, k \in Keys :
       /\ disk[in] # NoFile
       /\ pc' = IF kind[in] = "cipher" THEN "dec" ELSE "enc"
       /\ input' = in /\ output' = out /\ key' = k
       /\ disk' = [disk EXCEPT ![out] = <<>>]
       /\ kind' = [kind EXCEPT ![out] = IF pc' = "enc" THEN "cipher" ELSE "plain"]
       /\ rest' = disk'[in]
       /\ text' = IF in = out THEN NoFile
                  ELSE IF pc' = "enc" THEN disk[in]
                  ELSE IF origin[in] # NoFile /\ origin[in].key = k THEN origin[in].text
                  ELSE NoFile
       /\ origin' = [origin EXCEPT ![out] = NoFile]
  /\ position' = 0 /\ faulty' = FALSE /\ runs' = runs + 1

\* fwrite: what it fails to write is missing, and the loop goes on.
Write(items) ==
  \/ disk' = [disk EXCEPT ![output] = @ \o items] /\ UNCHANGED faulty
  \/ disk' = disk /\ faulty' = TRUE

Padded(chunk) ==
  [p \in 1..Width |-> IF p <= Len(chunk) THEN chunk[p] ELSE Width - Len(chunk)]
Cipher(block) == <<[key |-> key, block |-> block]>>

Encipher ==
  /\ pc = "enc" /\ rest # <<>>
  /\ LET n == IF Len(rest) < Width THEN Len(rest) ELSE Width
     IN  /\ Write(Cipher(Padded(SubSeq(rest, 1, n))))
         /\ rest' = SubSeq(rest, n + 1, Len(rest))
         /\ position' = position + n
  /\ UNCHANGED <<pc, run, origin>>

\* A block of padding only behind a text that fills its blocks.
NeverWhole == FALSE
Whole == position % Width = 0

Ended ==
  /\ pc' = "shell"
  /\ UNCHANGED <<run, rest, position>>

EncipherEnds ==
  /\ pc = "enc" /\ rest = <<>>
  /\ IF Whole THEN Write(Cipher(Padded(<<>>))) ELSE UNCHANGED <<disk, faulty>>
  /\ origin' = IF faulty' \/ text = NoFile THEN origin
               ELSE [origin EXCEPT ![output] = [text |-> text, key |-> key]]
  /\ Ended

Deciphered(item) == IF item.key = key THEN {item.block} ELSE Block

\* The last block ends with the number of bytes to leave out.
Unpadded(block) == SubSeq(block, 1, Width - block[Width])

\* ftell gives the size the file had before the loop.
AtEnd == position + Width = Width * Len(disk[input])

Decipher ==
  /\ pc = "dec" /\ rest # <<>>
  /\ \E block \in Deciphered(Head(rest)) :
       Write(IF AtEnd /\ block[Width] \in 1..Width THEN Unpadded(block) ELSE block)
  /\ rest' = Tail(rest) /\ position' = position + Width
  /\ UNCHANGED <<pc, run, origin>>

DecipherEnds ==
  /\ pc = "dec" /\ rest = <<>>
  /\ Ended
  /\ UNCHANGED <<disk, faulty, origin>>

\* fread fails, which looks like the end of the file; what it has read by then is used.
ReadFails ==
  /\ pc # "shell" /\ rest # <<>>
  /\ \E n \in 0..(Len(rest)-1) : rest' = SubSeq(rest, 1, n)
  /\ faulty' = TRUE
  /\ UNCHANGED <<pc, run, position, disk, origin>>

Kill ==
  /\ pc # "shell"
  /\ faulty' = TRUE
  /\ Ended
  /\ UNCHANGED <<disk, origin>>

Next ==
  Call \/ Encipher \/ EncipherEnds \/ Decipher \/ DecipherEnds \/ ReadFails \/ Kill

Spec == Init /\ [][Next]_vars

-----------------------------------------------------------------------------
(***************************************************************************)
(* Properties.                                                             *)
(***************************************************************************)
\* Every variable stays in its range.
TypeOK ==
  /\ pc \in {"shell", "enc", "dec"} /\ {input, output} \subseteq Names /\ key \in Keys
  /\ position \in Nat
  /\ \A n \in Names : disk[n] # NoFile =>
       disk[n] \in Seq(IF kind[n] = "plain" THEN Bytes ELSE Enciphered)

\* A file that a run without failures has enciphered has one block more than its text
\* fills, however long the text is.
OneMoreBlock ==
  \A n \in Names : origin[n] # NoFile =>
    Len(disk[n]) = Len(origin[n].text) \div Width + 1

\* When it is deciphered into another file with its key, without failures, that file holds
\* the text again, whatever its length and its last bytes: padding is added and removed
\* exactly.  (Input and output may not be the same file: it would be emptied.)
FileRestored ==
  /\ TypeOK /\ OneMoreBlock
  /\ pc = "shell" /\ text # NoFile /\ ~faulty /\ origin[output] = NoFile =>
       disk[output] = text
=============================================================================
