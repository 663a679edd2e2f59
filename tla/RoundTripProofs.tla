--------------------------- MODULE RoundTripProofs ----------------------------
(***************************************************************************)
(* What comes out at the other end is what went in: a file that is sent    *)
(* through the two byte streams of fileserve, a block and a file that are  *)
(* enciphered and deciphered, and an answer that is downloaded.            *)
(*                                                                         *)
(* The first parts are about one connection of FileTransfer, for any files *)
(* and sizes, any commands, any pieces a stream arrives in and any         *)
(* failures; the next is about Cipher, for any width, number of rounds,    *)
(* round function and schedule of subkeys; then come CipherFile and        *)
(* Download.                                                               *)
(***************************************************************************)
EXTENDS FileTransfer, Cipher, Download, FiniteSetTheorems, WellFoundedInduction, TLAPS

-----------------------------------------------------------------------------
(***************************************************************************)
(* Searching a stream.                                                     *)
(***************************************************************************)
\* A non-empty set of natural numbers has a least element.
LEMMA Least ==
  ASSUME NEW P, P \subseteq Nat, P # {}
  PROVE  \E p \in P : \A q \in P : p <= q
<1> DEFINE R == OpToRel(<, Nat)
<1>1. IsWellFoundedOn(R, Nat)
  BY NatLessThanWellFounded
<1>2. \A x, y \in Nat : <<x, y>> \in R <=> x < y
  BY DEF OpToRel
<1> HIDE DEF R
<1>3. PICK p \in P : \A q \in P : ~(<<q, p>> \in R)
  BY <1>1, WFMin
<1>4. ASSUME NEW q \in P PROVE p <= q
  <2>1. p \in Nat /\ q \in Nat /\ ~(q < p)
    BY <1>2, <1>3
  <2> QED
    BY <2>1
<1> QED
  BY <1>4

\* The least of some places in a stream.
LEMMA MinPlace ==
  ASSUME NEW P, NEW n \in Nat, P \subseteq 1..n, P # {}
  PROVE  /\ Min(P) \in P
         /\ \A q \in P : Min(P) <= q
<1>1. P \subseteq Nat
  OBVIOUS
<1>2. \E p \in P : \A q \in P : p <= q
  BY <1>1, Least
<1> QED
  BY <1>2 DEF Min

\* strstr finds the first token of a kind, or there is none.
LEMMA FindRule ==
  ASSUME NEW s, Len(s) \in Nat, NEW k
  PROVE  /\ Find(s, k) \in 0..Len(s)
         /\ Find(s, k) > 0 => /\ s[Find(s, k)].kind = k
                              /\ \A j \in 1..Len(s) : s[j].kind = k => Find(s, k) <= j
         /\ Find(s, k) = 0 => \A j \in 1..Len(s) : s[j].kind # k
<1> DEFINE P == {j \in 1..Len(s) : s[j].kind = k}
<1>1. Find(s, k) = IF P # {} THEN Min(P) ELSE 0
  BY DEF Find, SelectInSeq
<1>2. CASE P = {}
  BY <1>1, <1>2
<1>3. CASE P # {}
  <2>1. P \subseteq 1..Len(s)
    OBVIOUS
  <2>2. Min(P) \in P /\ \A q \in P : Min(P) <= q
    BY <1>3, <2>1, MinPlace
  <2>3. Find(s, k) = Min(P)
    BY <1>1, <1>3
  <2> HIDE DEF P
  <2>4. Find(s, k) \in P /\ \A q \in P : Find(s, k) <= q
    BY <2>2, <2>3
  <2> QED
    BY <2>4 DEF P
<1> QED
  BY <1>2, <1>3

\* What a stream is made of.
LEMMA Element ==
  ASSUME NEW S, NEW s \in Seq(S), NEW k \in 1..Len(s)
  PROVE  s[k] \in S
OBVIOUS

\* The number at the start of a stream: that of the last digit before another token.
LEMMA LengthRule ==
  ASSUME NEW s \in Seq(Tokens)
  PROVE  /\ Length(s) \in Nat
         /\ \A n \in 1..(Len(s)-1) :
              (\A j \in 1..n : s[j].kind = "digit") /\ s[n+1].kind # "digit"
                => Length(s) = s[n].at
<1> DEFINE P == {j \in 1..Len(s) : s[j].kind # "digit"}
           first == Min(P)
           stop == IF P # {} THEN first ELSE 0
           count == IF stop = 0 THEN Len(s) ELSE stop - 1
<1>1. SelectInSeq(s, LAMBDA t : t.kind # "digit") = stop
  BY DEF SelectInSeq
<1>2. Len(s) \in Nat /\ P \subseteq 1..Len(s)
  OBVIOUS
<1>3. P # {} => first \in P /\ \A q \in P : first <= q
  BY <1>2, MinPlace
<1>4. \A j \in 1..Len(s) : s[j].at \in Nat
  <2> SUFFICES ASSUME NEW j \in 1..Len(s) PROVE s[j].at \in Nat
    OBVIOUS
  <2>1. s[j] \in Tokens
    BY Element, Zenon
  <2> QED
    BY <2>1 DEF Tokens
<1>5. Length(s) = IF count = 0 THEN 0 ELSE s[count].at
  BY <1>1 DEF Length
<1>6. \A q \in P : q \in 1..Len(s) /\ s[q].kind # "digit"
  OBVIOUS
<1>7. \A q \in 1..Len(s) : s[q].kind # "digit" => q \in P
  OBVIOUS
<1>8. P # {} => first \in 1..Len(s)
  BY <1>3, <1>6, Zenon
<1> HIDE DEF P, first
<1>9. stop \in 0..Len(s)
  BY <1>2, <1>8
<1> HIDE DEF stop
<1>10. count \in 0..Len(s)
  BY <1>2, <1>9
<1> HIDE DEF count
<1>11. Length(s) \in Nat
  BY <1>2, <1>4, <1>5, <1>10
<1>12. ASSUME NEW n \in 1..(Len(s)-1), \A j \in 1..n : s[j].kind = "digit", s[n+1].kind # "digit"
       PROVE  Length(s) = s[n].at
  <2>1. n + 1 \in P
    BY <1>2, <1>7, <1>12
  <2>2. first \in P /\ first <= n + 1 /\ first \in 1..Len(s)
    BY <1>3, <1>8, <2>1
  <2>3. ~(first \in 1..n)
    BY <1>6, <1>12, <2>2
  <2>4. first = n + 1
    BY <1>2, <2>2, <2>3
  <2>5. count = n /\ n # 0
    BY <1>2, <2>1, <2>4 DEF count, stop
  <2> QED
    BY <1>5, <2>5
<1> QED
  BY <1>11, <1>12

\* The first line end.
LEMMA LineEndRule ==
  ASSUME NEW s, Len(s) \in Nat
  PROVE  /\ LineEnd(s) \in 0..Len(s)
         /\ LineEnd(s) > 0 => LineEnd(s) \in 1..(Len(s)-1) /\ s[LineEnd(s)].kind = "cr"
         /\ \A k \in 1..(Len(s)-1) :
              /\ s[k].kind = "cr" /\ s[k+1].kind = "nl"
              /\ \A j \in 1..(k-1) : s[j].kind # "cr"
              => LineEnd(s) = k
<1> DEFINE P == {j \in 1..(Len(s)-1) : s[j].kind = "cr" /\ s[j+1].kind = "nl"}
           first == Min(P)
<1>1. LineEnd(s) = IF P = {} THEN 0 ELSE first
  <2> DEFINE least == CHOOSE p \in P : \A q \in P : p <= q
  <2>1. first = least
    BY Zenon DEF Min
  <2>2. LineEnd(s) = IF P = {} THEN 0 ELSE least
    BY Zenon DEF LineEnd
  <2> QED
    BY <2>1, <2>2
<1>2. P \subseteq 1..Len(s)
  OBVIOUS
<1>3. P # {} => first \in P /\ \A q \in P : first <= q
  BY <1>2, MinPlace
<1>4. \A q \in 1..(Len(s)-1) : q \in P <=> s[q].kind = "cr" /\ s[q+1].kind = "nl"
  OBVIOUS
<1>5. P \subseteq 1..(Len(s)-1)
  OBVIOUS
<1> HIDE DEF P, first
<1>6. LineEnd(s) \in 0..Len(s) /\ (LineEnd(s) > 0 => LineEnd(s) \in P)
  <2>1. CASE P = {}
    BY <1>1, <2>1
  <2>2. CASE P # {}
    <3>1. first \in P /\ first \in 1..Len(s) /\ LineEnd(s) = first
      BY <1>1, <1>2, <1>3, <2>2, Zenon
    <3> QED
      BY <3>1
  <2> QED
    BY <2>1, <2>2
<1>7. LineEnd(s) > 0 => LineEnd(s) \in 1..(Len(s)-1) /\ s[LineEnd(s)].kind = "cr"
  <2> SUFFICES ASSUME LineEnd(s) > 0
               PROVE  LineEnd(s) \in 1..(Len(s)-1) /\ s[LineEnd(s)].kind = "cr"
    OBVIOUS
  <2>1. LineEnd(s) \in P
    BY <1>6
  <2>2. LineEnd(s) \in 1..(Len(s)-1)
    BY <1>5, <2>1
  <2> QED
    BY <1>4, <2>1, <2>2, Zenon
<1>8. ASSUME NEW k \in 1..(Len(s)-1), s[k].kind = "cr", s[k+1].kind = "nl",
             \A j \in 1..(k-1) : s[j].kind # "cr"
      PROVE  LineEnd(s) = k
  <2>1. k \in P
    BY <1>4, <1>8
  <2>2. first \in P /\ first <= k /\ first \in 1..(Len(s)-1)
    BY <1>3, <1>5, <2>1
  <2>3. s[first].kind = "cr"
    BY <1>4, <2>2
  <2>4. ~(first \in 1..(k-1))
    BY <1>8, <2>3
  <2>5. first = k
    BY <2>2, <2>4
  <2> QED
    BY <1>1, <2>1, <2>5
<1> QED
  BY <1>6, <1>7, <1>8

-----------------------------------------------------------------------------
(***************************************************************************)
(* The digits of a length.  The library's theorems on recursive functions  *)
(* take an operator, so the recursion is resolved here: a function exists  *)
(* on every 0..n, any two agree where both are defined, and their values   *)
(* make the function on all of Nat.  Induction is over a set of numbers.   *)
(***************************************************************************)
LEMMA Induction ==
  ASSUME NEW S, \A n \in Nat : (\A m \in Nat : m < n => m \in S) => n \in S
  PROVE  Nat \subseteq S
<1> DEFINE Rest == Nat \ S
<1> SUFFICES ASSUME Rest # {} PROVE FALSE
  OBVIOUS
<1>1. PICK n \in Rest : \A q \in Rest : n <= q
  BY Least
<1>2. \A m \in Nat : m < n => m \in S
  BY <1>1
<1> QED
  BY <1>1, <1>2

DigitsStep(g, n) == IF n < 2 THEN <<Digit(n)>> ELSE Append(g[n \div 2], Digit(n))
UpTo(g, n) == g = [m \in 0..n |-> DigitsStep(g, m)]

\* Half of a number is a number, and a smaller one from two on.
LEMMA HalfLess == \A n \in Nat : n \div 2 \in Nat /\ n \div 2 <= n /\ (n >= 2 => n \div 2 < n)
OBVIOUS

\* Two functions that obey the equation of Digits up to n agree up to n.
LEMMA SameDigits ==
  ASSUME NEW n \in Nat, NEW k \in Nat, NEW g, NEW h, UpTo(g, n), UpTo(h, k)
  PROVE  \A m \in Nat : m <= n /\ m <= k => g[m] = h[m]
<1> DEFINE S == {m \in Nat : m <= n /\ m <= k => g[m] = h[m]}
<1>1. ASSUME NEW m \in Nat, \A q \in Nat : q < m => q \in S
      PROVE  m \in S
  <2> SUFFICES ASSUME m <= n, m <= k PROVE g[m] = h[m]
    OBVIOUS
  <2>1. g[m] = DigitsStep(g, m) /\ h[m] = DigitsStep(h, m)
    <3>1. m \in 0..n /\ m \in 0..k
      OBVIOUS
    <3>2. ASSUME NEW f, NEW p, NEW q \in 0..p, UpTo(f, p) PROVE f[q] = DigitsStep(f, q)
      BY <3>2 DEF UpTo
    <3> QED
      BY <3>1, <3>2
  <2>2. m >= 2 => g[m \div 2] = h[m \div 2]
    BY <1>1, HalfLess
  <2> QED
    BY <2>1, <2>2 DEF DigitsStep
<1> HIDE DEF S
<1>2. Nat \subseteq S
  BY <1>1, Induction
<1> QED
  BY <1>2 DEF S

\* Up to every number there is one.
LEMMA DigitsUpTo == \A n \in Nat : \E g : UpTo(g, n)
<1> DEFINE S == {n \in Nat : \E g : UpTo(g, n)}
<1>1. ASSUME NEW n \in Nat, \A q \in Nat : q < n => q \in S
      PROVE  n \in S
  <2>1. CASE n = 0
    <3> DEFINE g == [m \in 0..n |-> <<Digit(m)>>]
    <3>1. \A m \in 0..n : g[m] = DigitsStep(g, m)
      BY <2>1 DEF DigitsStep
    <3>2. g = [m \in 0..n |-> g[m]]
      OBVIOUS
    <3> HIDE DEF g
    <3>3. UpTo(g, n)
      BY <3>1, <3>2 DEF UpTo
    <3> QED
      BY <3>3
  <2>2. CASE n # 0
    <3>1. n - 1 \in Nat /\ n - 1 < n
      BY <2>2
    <3>2. PICK h : UpTo(h, n - 1)
      BY <1>1, <3>1
    <3> DEFINE g == [m \in 0..n |-> IF m <= n - 1 THEN h[m] ELSE DigitsStep(h, m)]
    <3>3. \A m \in 0..(n-1) : g[m] = h[m]
      OBVIOUS
    <3>4. \A m \in 0..(n-1) : h[m] = DigitsStep(h, m)
      BY <3>2 DEF UpTo
    <3>5. \A m \in 0..n : m >= 2 => m \div 2 \in 0..(n-1)
      OBVIOUS
    <3>6. \A m \in 0..n : DigitsStep(g, m) = DigitsStep(h, m)
      BY <3>3, <3>5 DEF DigitsStep
    <3>7. \A m \in 0..n : g[m] = DigitsStep(h, m)
      BY <3>4
    <3>8. g = [m \in 0..n |-> g[m]]
      OBVIOUS
    <3> HIDE DEF g
    <3>9. UpTo(g, n)
      BY <3>6, <3>7, <3>8 DEF UpTo
    <3> QED
      BY <3>9
  <2> QED
    BY <2>1, <2>2
<1> HIDE DEF S
<1>2. Nat \subseteq S
  BY <1>1, Induction
<1> QED
  BY <1>2 DEF S

\* The recursion defines what it says.
LEMMA DigitsDef == Digits = [n \in Nat |-> DigitsStep(Digits, n)]
<1> DEFINE G(n) == CHOOSE g : UpTo(g, n)
           F == [n \in Nat |-> G(n)[n]]
<1>1. \A n \in Nat : UpTo(G(n), n)
  BY DigitsUpTo
<1> HIDE DEF G
<1>2. ASSUME NEW n \in Nat PROVE F[n] = DigitsStep(F, n)
  <2>1. G(n)[n] = DigitsStep(G(n), n)
    BY <1>1 DEF UpTo
  <2>2. ASSUME n >= 2 PROVE G(n)[n \div 2] = G(n \div 2)[n \div 2]
    <3>1. n \div 2 \in Nat /\ n \div 2 <= n
      BY HalfLess
    <3>2. UpTo(G(n), n) /\ UpTo(G(n \div 2), n \div 2)
      BY <1>1, <3>1
    <3> QED
      BY <3>1, <3>2, SameDigits
  <2>3. n >= 2 => F[n \div 2] = G(n)[n \div 2]
    BY <2>2, HalfLess
  <2> QED
    BY <2>1, <2>3 DEF DigitsStep
<1>3. F = [n \in Nat |-> F[n]]
  OBVIOUS
<1> HIDE DEF F
<1>4. F = [n \in Nat |-> DigitsStep(F, n)]
  BY <1>2, <1>3
<1>5. Digits = CHOOSE f : f = [n \in Nat |-> DigitsStep(f, n)]
  BY DEF Digits, DigitsStep
<1> QED
  BY <1>4, <1>5

\* A number is written as at least one digit, and the last makes the number.
LEMMA DigitsRule ==
  \A n \in Nat :
    /\ Digits[n] \in Seq(Tokens) /\ Len(Digits[n]) >= 1
    /\ \A j \in 1..Len(Digits[n]) : Digits[n][j].kind = "digit" /\ Digits[n][j].of = None
    /\ Digits[n][Len(Digits[n])].at = n
<1> DEFINE Written(d, n) ==
             /\ d \in Seq(Tokens) /\ Len(d) >= 1
             /\ \A j \in 1..Len(d) : d[j].kind = "digit" /\ d[j].of = None
             /\ d[Len(d)].at = n
           S == {n \in Nat : Written(Digits[n], n)}
<1>1. \A n \in Nat : Digits[n] = DigitsStep(Digits, n)
  BY DigitsDef
<1>2. \A n \in Nat : Digit(n) \in Tokens /\ Digit(n).kind = "digit" /\ Digit(n).of = None /\ Digit(n).at = n
  BY DEF Digit, Tokens, Kinds
<1>3. ASSUME NEW n \in Nat, \A q \in Nat : q < n => q \in S
      PROVE  n \in S
  <2>1. CASE n < 2
    <3>1. Digits[n] = <<Digit(n)>>
      BY <1>1, <2>1 DEF DigitsStep
    <3> DEFINE x == Digit(n)
    <3>2. x \in Tokens /\ x.kind = "digit" /\ x.of = None /\ x.at = n
      BY <1>2
    <3> HIDE DEF x
    <3> DEFINE e == <<x>>
    <3>3. e \in Seq(Tokens) /\ Len(e) = 1 /\ e[1] = x
      BY <3>2
    <3>4. Digits[n] = e
      BY <3>1 DEF x
    <3> HIDE DEF e
    <3>5. \A j \in 1..Len(e) : e[j] = x
      BY <3>3
    <3>6. e[Len(e)] = x /\ Len(e) >= 1
      BY <3>3
    <3>7. Written(e, n)
      BY <3>2, <3>3, <3>5, <3>6
    <3> QED
      BY <3>4, <3>7
  <2>2. CASE ~(n < 2)
    <3> DEFINE d == Digits[n \div 2]
               t == Digit(n)
    <3>1. Digits[n] = Append(d, t)
      BY <1>1, <2>2 DEF DigitsStep
    <3>2. Written(d, n \div 2)
      BY <1>3, <2>2, HalfLess
    <3>3. t \in Tokens /\ t.kind = "digit" /\ t.of = None /\ t.at = n
      BY <1>2
    <3> HIDE DEF d, t
    <3>4. Written(Append(d, t), n)
      BY <3>2, <3>3
    <3> QED
      BY <3>1, <3>4
  <2> QED
    BY <2>1, <2>2
<1> HIDE DEF S
<1>4. Nat \subseteq S
  BY <1>3, Induction
<1> QED
  BY <1>4 DEF S

-----------------------------------------------------------------------------
(***************************************************************************)
(* The messages.                                                           *)
(***************************************************************************)
LEMMA AfterRule ==
  ASSUME NEW s \in Seq(Tokens), NEW n \in 0..Len(s)
  PROVE  /\ After(s, n) \in Seq(Tokens) /\ Len(After(s, n)) = Len(s) - n
         /\ \A j \in 1..(Len(s)-n) : After(s, n)[j] = s[n+j]
BY DEF After

LEMMA FirstRule ==
  ASSUME NEW s \in Seq(Tokens), NEW n \in 0..Len(s)
  PROVE  /\ SubSeq(s, 1, n) \in Seq(Tokens) /\ Len(SubSeq(s, 1, n)) = n
         /\ \A j \in 1..n : SubSeq(s, 1, n)[j] = s[j]
OBVIOUS

LEMMA JoinRule ==
  ASSUME NEW s \in Seq(Tokens), NEW t \in Seq(Tokens)
  PROVE  /\ s \o t \in Seq(Tokens) /\ Len(s \o t) = Len(s) + Len(t)
         /\ \A j \in 1..Len(s) : (s \o t)[j] = s[j]
         /\ \A j \in 1..Len(t) : (s \o t)[Len(s)+j] = t[j]
OBVIOUS

LEMMA TokenTypes ==
  /\ \A k \in Kinds : Word(k) \in Tokens /\ Word(k).kind = k /\ Word(k).of = None
  /\ \A f \in Names : Name(f) \in Tokens /\ Name(f).kind = "name" /\ Name(f).of = f
<1>1. \A k \in Kinds : Word(k) \in Tokens /\ Word(k).kind = k /\ Word(k).of = None
  BY DEF Word, Tokens
<1>2. \A f \in Names : Name(f) \in Tokens /\ Name(f).kind = "name" /\ Name(f).of = f
  BY DEF Name, Tokens, Kinds
<1> QED
  BY <1>1, <1>2

LEMMA CommandTypes ==
  ASSUME NEW c \in Commands
  PROVE  /\ c.op \in {"ls", "help", "exit", "get", "other"} /\ c.name \in Names \cup {None}
         /\ c.op \in {"get", "other"} => c.name \in Names
<1>1. CASE c \in [op : {"ls", "help", "exit"}, name : {None}]
  BY <1>1
<1>2. CASE c \in [op : {"get", "other"}, name : Names]
  BY <1>2
<1> QED
  BY <1>1, <1>2 DEF Commands

LEMMA TextRule ==
  ASSUME NEW c \in Commands
  PROVE  /\ Text(c) \in Seq(Tokens)
         /\ c.op = "get" => Text(c) = <<Word("get"), Name(c.name), Word("cr"), Word("nl")>>
         /\ c.op = "other" => Text(c) = <<Name(c.name), Word("cr"), Word("nl")>>
         /\ c.op \notin {"get", "other"} => Text(c) = <<Word(c.op), Word("cr"), Word("nl")>>
<1>1. Word("cr") \in Tokens /\ Word("nl") \in Tokens /\ Word("get") \in Tokens
  BY TokenTypes DEF Kinds
<1>2. CASE c.op = "get"
  <2>1. Name(c.name) \in Tokens
    BY <1>2, CommandTypes, TokenTypes
  <2>2. Text(c) = <<Word("get"), Name(c.name), Word("cr"), Word("nl")>>
    BY <1>2 DEF Text
  <2> QED
    BY <1>1, <1>2, <2>1, <2>2
<1>3. CASE c.op = "other"
  <2>1. Name(c.name) \in Tokens
    BY <1>3, CommandTypes, TokenTypes
  <2>2. Text(c) = <<Name(c.name), Word("cr"), Word("nl")>>
    BY <1>3 DEF Text
  <2> QED
    BY <1>1, <1>3, <2>1, <2>2
<1>4. CASE c.op \notin {"get", "other"}
  <2>1. Word(c.op) \in Tokens
    BY <1>4, CommandTypes, TokenTypes DEF Kinds
  <2>2. Text(c) = <<Word(c.op), Word("cr"), Word("nl")>>
    BY <1>4 DEF Text
  <2> QED
    BY <1>1, <1>4, <2>1, <2>2
<1> QED
  BY <1>2, <1>3, <1>4

LEMMA ErrorRule ==
  /\ Error = <<Word("error"), Word("cr"), Word("nl")>>
  /\ Error \in Seq(Tokens) /\ Ended(Error)
<1>1. Error = <<Word("error"), Word("cr"), Word("nl")>>
  BY DEF Error
<1>2. Word("cr") \in Tokens /\ Word("nl") \in Tokens /\ Word("error") \in Tokens
  BY TokenTypes DEF Kinds
<1>3. Error \in Seq(Tokens)
  BY <1>1, <1>2
<1>4. Ended(Error)
  BY <1>1 DEF Ended, Word
<1> QED
  BY <1>1, <1>3, <1>4

\* The names of the directory can be listed.
LEMMA ListingRule == Listed \in Seq(Tokens) /\ Ended(Listed)
<1> DEFINE c == Cardinality(Files)
           q == SetToSeq(Files)
<1>1. IsFiniteSet(Files) /\ c \in Nat
  BY TransferAssumption, FS_CardinalityType
<1>2. \E f \in [1..c -> Files] : IsInjective(f)
  <2>1. PICK b : ExistsBijection(1..c, Files)
    BY <1>1, FS_CardinalityType
  <2>2. PICK f \in Bijection(1..c, Files) : TRUE
    BY <2>1 DEF ExistsBijection
  <2>3. f \in [1..c -> Files] /\ \A x, y \in 1..c : f[x] = f[y] => x = y
    BY <2>2 DEF Bijection, Injection, Surjection, IsInjective
  <2> QED
    BY <2>3 DEF IsInjective
<1>3. q \in [1..c -> Files]
  BY <1>2 DEF SetToSeq
<1> HIDE DEF c, q
<1>4. \A j \in 1..(2 * c) : j % 2 = 1 => (j + 1) \div 2 \in 1..c
  BY <1>1
<1>5. \A j \in 1..(2 * c) : j % 2 = 1 => q[(j + 1) \div 2] \in Names
  BY <1>3, <1>4, TransferAssumption
<1>6. Listing = [j \in 1..(2 * c) |-> IF j % 2 = 1 THEN Name(q[(j + 1) \div 2]) ELSE Word("nl")]
  BY DEF Listing, c, q
<1>7. Word("nl") \in Tokens /\ Word("nl").kind = "nl" /\ Word("cr") \in Tokens
  BY TokenTypes DEF Kinds
<1>8. \A j \in 1..(2 * c) : Listing[j] \in Tokens /\ Listing[j].kind # "cr"
  BY <1>5, <1>6, <1>7, TokenTypes
<1>9. Listing \in Seq(Tokens) /\ Len(Listing) = 2 * c
  BY <1>1, <1>6, <1>8
<1> DEFINE end == <<Word("cr"), Word("nl")>>
<1>10. end \in Seq(Tokens) /\ Len(end) = 2 /\ end[1] = Word("cr") /\ end[2] = Word("nl")
  BY <1>7
<1>11. /\ Listed \in Seq(Tokens) /\ Len(Listed) = 2 * c + 2
       /\ \A j \in 1..(2 * c) : Listed[j] = Listing[j]
       /\ Listed[2 * c + 1] = end[1] /\ Listed[2 * c + 2] = end[2]
  <2> DEFINE l == Listing
             e == end
  <2>1. l \in Seq(Tokens) /\ e \in Seq(Tokens) /\ Len(l) = 2 * c /\ Len(e) = 2 /\ c \in Nat
    BY <1>1, <1>9, <1>10
  <2> HIDE DEF l, e
  <2>2. /\ l \o e \in Seq(Tokens) /\ Len(l \o e) = 2 * c + 2
        /\ \A j \in 1..(2 * c) : (l \o e)[j] = l[j]
        /\ (l \o e)[2 * c + 1] = e[1] /\ (l \o e)[2 * c + 2] = e[2]
    <3>1. /\ l \o e \in Seq(Tokens) /\ Len(l \o e) = Len(l) + Len(e)
          /\ \A j \in 1..Len(l) : (l \o e)[j] = l[j]
          /\ \A j \in 1..Len(e) : (l \o e)[Len(l)+j] = e[j]
      BY <2>1, JoinRule
    <3>2. 1 \in 1..Len(e) /\ 2 \in 1..Len(e)
      BY <2>1
    <3> QED
      BY <3>1, <3>2, <2>1
  <2> QED
    BY <2>2 DEF Listed, l, e
<1>12. Ended(Listed)
  BY <1>1, <1>8, <1>10, <1>11 DEF Ended
<1> QED
  BY <1>11, <1>12

LEMMA SizeType == \A f \in Files : Size[f] \in Nat /\ f \in Names
BY TransferAssumption

\* A header is its word, the digits of the size, and the end of the line.
LEMMA HeaderRule ==
  ASSUME NEW f \in Files
  PROVE  /\ Header(f) \in Seq(Tokens) /\ Len(Header(f)) = Len(Digits[Size[f]]) + 2
         /\ Header(f)[1] = Word("length")
         /\ \A j \in 1..Len(Digits[Size[f]]) : Header(f)[j+1] = Digits[Size[f]][j]
         /\ Header(f)[Len(Digits[Size[f]]) + 2] = Word("nl")
<1> DEFINE d == Digits[Size[f]]
<1>1. d \in Seq(Tokens)
  BY DigitsRule, SizeType
<1>2. Word("length") \in Tokens /\ Word("nl") \in Tokens
  BY TokenTypes DEF Kinds
<1> HIDE DEF d
<1> DEFINE a == <<Word("length")>>
           b == <<Word("nl")>>
<1>3. /\ a \in Seq(Tokens) /\ Len(a) = 1 /\ a[1] = Word("length")
      /\ b \in Seq(Tokens) /\ Len(b) = 1 /\ b[1] = Word("nl")
  BY <1>2
<1>4. Header(f) = (a \o d) \o b
  BY DEF Header, d
<1> HIDE DEF a, b
<1>5. /\ a \o d \in Seq(Tokens) /\ Len(a \o d) = Len(d) + 1
      /\ (a \o d)[1] = a[1] /\ \A j \in 1..Len(d) : (a \o d)[1+j] = d[j]
  BY <1>1, <1>3, JoinRule
<1> DEFINE c == a \o d
<1>6. /\ c \in Seq(Tokens) /\ Len(c) = Len(d) + 1
      /\ c[1] = a[1] /\ \A j \in 1..Len(d) : c[1+j] = d[j]
  BY <1>5
<1> HIDE DEF c
<1>7. /\ c \o b \in Seq(Tokens) /\ Len(c \o b) = Len(d) + 2
      /\ \A j \in 1..(Len(d)+1) : (c \o b)[j] = c[j]
      /\ (c \o b)[Len(d)+2] = b[1]
  <2>1. /\ c \o b \in Seq(Tokens) /\ Len(c \o b) = Len(c) + Len(b)
        /\ \A j \in 1..Len(c) : (c \o b)[j] = c[j]
        /\ \A j \in 1..Len(b) : (c \o b)[Len(c)+j] = b[j]
    BY <1>3, <1>6, JoinRule
  <2>2. 1 \in 1..Len(b) /\ Len(d) \in Nat
    BY <1>1, <1>3
  <2> QED
    BY <1>3, <1>6, <2>1, <2>2
<1>8. Header(f) = c \o b
  BY <1>4 DEF c
<1>9. \A j \in 1..Len(d) : Header(f)[j+1] = d[j]
  <2>1. \A j \in 1..Len(d) : j + 1 \in 1..(Len(d)+1)
    OBVIOUS
  <2> QED
    BY <2>1, <1>6, <1>7, <1>8
<1>10. Header(f)[1] = Word("length")
  BY <1>1, <1>3, <1>6, <1>7, <1>8
<1> QED
  BY <1>3, <1>7, <1>8, <1>9, <1>10 DEF d

LEMMA BodyRule ==
  ASSUME NEW f \in Files
  PROVE  /\ Body(f) \in Seq(Tokens) /\ Len(Body(f)) = Size[f]
         /\ \A j \in 1..Size[f] : Body(f)[j].kind = "data"
<1>1. Size[f] \in Nat /\ f \in Names
  BY SizeType
<1>2. \A j \in 1..Size[f] : [kind |-> "data", of |-> f, at |-> j] \in Tokens
  BY <1>1 DEF Tokens, Kinds
<1> QED
  BY <1>1, <1>2 DEF Body

-----------------------------------------------------------------------------
(***************************************************************************)
(* Types.                                                                  *)
(***************************************************************************)
StreamsOK == out \in Seq(Tokens) /\ toServer \in Seq(Tokens) /\ toClient \in Seq(Tokens)
SessionOK ==
  /\ session \in {"recv", "sending", "gone"}
  /\ IF session = "sending" THEN source \in Files ELSE source = None
ClientOK ==
  /\ client \in {"prompt", "list", "head", "body", "done"}
  /\ cmd \in Commands
  /\ need \in Nat /\ typed \in 0..MaxCommands /\ spoiled \in BOOLEAN
  /\ said \in [name : Names \cup {None}, bytes : Nat, cut : BOOLEAN]

LEMMA TypeParts == TypeOK <=> ClientOK /\ SessionOK /\ StreamsOK
BY DEF TypeOK, ClientOK, SessionOK, StreamsOK

LEMMA TypeNext == TypeOK' <=> ClientOK' /\ SessionOK' /\ StreamsOK'
BY DEF TypeOK, ClientOK, SessionOK, StreamsOK

LEMMA InitType == Init => TypeOK
<1> SUFFICES ASSUME Init PROVE TypeOK
  OBVIOUS
<1>1. <<>> \in Seq(Tokens)
  OBVIOUS
<1>2. StreamsOK
  BY <1>1 DEF Init, StreamsOK
<1>3. SessionOK
  BY DEF Init, SessionOK
<1>4. cmd \in Commands
  <2>1. cmd \in [op : {"ls", "help", "exit"}, name : {None}]
    BY DEF Init
  <2> QED
    BY <2>1 DEF Commands
<1>5. said \in [name : Names \cup {None}, bytes : Nat, cut : BOOLEAN]
  BY DEF Init, Nothing
<1>6. client = "prompt" /\ need \in Nat /\ typed \in 0..MaxCommands /\ spoiled \in BOOLEAN
  <2>1. MaxCommands \in Nat
    BY TransferAssumption, Zenon
  <2>2. spoiled \in BOOLEAN
    BY Zenon DEF Init
  <2> QED
    BY <2>1, <2>2 DEF Init
<1>7. ClientOK
  BY <1>4, <1>5, <1>6 DEF ClientOK
<1> QED
  BY <1>2, <1>3, <1>7, TypeParts

LEMMA ReplyType ==
  ASSUME NEW s \in Seq(Tokens), toClient \in Seq(Tokens), Reply(s)
  PROVE  toClient' \in Seq(Tokens)
BY JoinRule DEF Reply

LEMMA ObeyType ==
  ASSUME NEW s, TypeOK, session = "recv", Obey(s)
  PROVE  SessionOK' /\ toClient' \in Seq(Tokens)
<1> USE TypeParts DEF StreamsOK
<1>1. SessionOK /\ toClient \in Seq(Tokens)
  OBVIOUS
<1>2. ASSUME UNCHANGED sessionVars PROVE SessionOK'
  BY <1>1, <1>2 DEF SessionOK, sessionVars
<1>3. ASSUME ListDirectory PROVE SessionOK' /\ toClient' \in Seq(Tokens)
  <2>1. Reply(Listed) \/ Reply(Error)
    BY <1>3 DEF ListDirectory
  <2>2. toClient' \in Seq(Tokens)
    BY <1>1, <2>1, ListingRule, ErrorRule, ReplyType
  <2> QED
    BY <1>2, <1>3, <2>2 DEF ListDirectory
<1>4. ASSUME NEW name, SendFile(name) PROVE SessionOK' /\ toClient' \in Seq(Tokens)
  <2>1. CASE Len(name) = 1 /\ name[1].of \in Files \ PathNames
    <3>1. CASE Reply(Header(name[1].of)) /\ session' = "sending" /\ source' = name[1].of
      <4>1. toClient' \in Seq(Tokens)
        BY <1>1, <2>1, <3>1, HeaderRule, ReplyType
      <4> QED
        BY <2>1, <3>1, <4>1 DEF SessionOK
    <3>2. CASE UNCHANGED <<toClient, sessionVars>>
      BY <1>1, <1>2, <3>2
    <3> QED
      BY <1>4, <2>1, <3>1, <3>2 DEF SendFile
  <2>2. CASE ~(Len(name) = 1 /\ name[1].of \in Files \ PathNames)
    <3>1. Reply(Error) /\ UNCHANGED sessionVars
      BY <1>4, <2>2 DEF SendFile
    <3> QED
      BY <1>1, <1>2, <3>1, ErrorRule, ReplyType
  <2> QED
    BY <2>1, <2>2
<1>5. ASSUME Reply(Error) \/ UNCHANGED toClient, session' \in {"gone", "recv"}, UNCHANGED source
      PROVE  SessionOK' /\ toClient' \in Seq(Tokens)
  <2>1. toClient' \in Seq(Tokens)
    BY <1>1, <1>5, ErrorRule, ReplyType
  <2>2. source = None
    BY <1>1 DEF SessionOK
  <2> QED
    BY <1>5, <2>1, <2>2 DEF SessionOK
<1>6. \/ ListDirectory
      \/ \E name : SendFile(name)
      \/ (Reply(Error) \/ UNCHANGED toClient) /\ session' \in {"gone", "recv"} /\ UNCHANGED source
  BY DEF Obey
<1> QED
  BY <1>3, <1>4, <1>5, <1>6

LEMMA SessionReadsType == TypeOK /\ SessionReads => TypeOK'
<1> SUFFICES ASSUME TypeOK, SessionReads PROVE TypeOK'
  OBVIOUS
<1>1. PICK n \in 1..Len(toServer) :
        /\ Obey(SubSeq(toServer, 1, n)) /\ toServer' = After(toServer, n)
  BY DEF SessionReads
<1>2. session = "recv" /\ UNCHANGED clientVars
  BY DEF SessionReads
<1>3. SessionOK' /\ toClient' \in Seq(Tokens)
  BY <1>1, <1>2, ObeyType
<1>4. toServer' \in Seq(Tokens)
  BY <1>1, AfterRule, TypeParts DEF StreamsOK
<1>5. ClientOK'
  BY <1>2, TypeParts DEF ClientOK, clientVars
<1>6. StreamsOK'
  BY <1>2, <1>3, <1>4, TypeParts DEF StreamsOK, clientVars
<1> QED
  BY <1>3, <1>5, <1>6, TypeNext

LEMMA TransmitType == TypeOK /\ Transmit => TypeOK'
<1> SUFFICES ASSUME TypeOK, Transmit PROVE TypeOK'
  OBVIOUS
<1>1. source \in Files /\ UNCHANGED <<clientVars, toServer>> /\ session' = "recv" /\ source' = None
  BY TypeParts DEF Transmit, SessionOK
<1>2. PICK n \in 0..Size[source] : Reply(SubSeq(Body(source), 1, n))
  BY DEF Transmit
<1>3. SubSeq(Body(source), 1, n) \in Seq(Tokens)
  BY <1>1, BodyRule, FirstRule
<1>4. toClient' \in Seq(Tokens)
  BY <1>2, <1>3, ReplyType, TypeParts DEF StreamsOK
<1>5. ClientOK'
  BY <1>1, TypeParts DEF ClientOK, clientVars
<1>6. StreamsOK' /\ SessionOK'
  BY <1>1, <1>4, TypeParts DEF StreamsOK, SessionOK, clientVars
<1> QED
  BY <1>5, <1>6, TypeNext

LEMMA SessionEndsType == TypeOK /\ SessionEnds => TypeOK'
<1> SUFFICES ASSUME TypeOK, SessionEnds PROVE TypeOK'
  OBVIOUS
<1>1. ClientOK'
  BY TypeParts DEF SessionEnds, ClientOK, clientVars
<1>2. StreamsOK' /\ SessionOK'
  BY TypeParts DEF SessionEnds, StreamsOK, SessionOK, clientVars
<1> QED
  BY <1>1, <1>2, TypeNext

LEMMA TypeType == TypeOK /\ Type => TypeOK'
<1> SUFFICES ASSUME TypeOK, Type PROVE TypeOK'
  OBVIOUS
<1>1. PICK c \in Commands :
        /\ cmd' = c
        /\ \/ client' = Waits(c) /\ toServer' = toServer \o Text(c)
           \/ client' = "done" /\ UNCHANGED toServer
  BY DEF Type
<1>2. typed < MaxCommands /\ typed' = typed + 1 /\ UNCHANGED <<need, out, said, spoiled, sessionVars, toClient>>
  BY DEF Type
<1>3. Waits(c) \in {"prompt", "list", "head", "done"}
  BY DEF Waits
<1>4. Text(c) \in Seq(Tokens)
  BY TextRule
<1>5. toServer' \in Seq(Tokens)
  BY <1>1, <1>4, JoinRule, TypeParts DEF StreamsOK
<1>6. client' \in {"prompt", "list", "head", "body", "done"} /\ typed' \in 0..MaxCommands
  BY <1>1, <1>2, <1>3, TransferAssumption, TypeParts DEF ClientOK
<1>7. ClientOK'
  BY <1>1, <1>2, <1>6, TypeParts DEF ClientOK
<1>8. StreamsOK' /\ SessionOK'
  BY <1>2, <1>5, TypeParts DEF StreamsOK, SessionOK, sessionVars
<1> QED
  BY <1>7, <1>8, TypeNext

LEMMA LeaveType == TypeOK /\ Leave => TypeOK'
<1> SUFFICES ASSUME TypeOK, Leave PROVE TypeOK'
  OBVIOUS
<1>1. ClientOK'
  BY TypeParts DEF Leave, ClientOK
<1>2. StreamsOK' /\ SessionOK'
  BY TypeParts DEF Leave, StreamsOK, SessionOK, sessionVars
<1> QED
  BY <1>1, <1>2, TypeNext

LEMMA ListReadsType == TypeOK /\ ListReads => TypeOK'
<1> SUFFICES ASSUME TypeOK, ListReads PROVE TypeOK'
  OBVIOUS
<1>1. PICK n \in 1..Len(toClient) : client' \in {"prompt", "list"} /\ toClient' = After(toClient, n)
  BY DEF ListReads
<1>2. UNCHANGED <<cmd, need, out, said, typed, spoiled, sessionVars, toServer>>
  BY DEF ListReads
<1>3. toClient' \in Seq(Tokens)
  BY <1>1, AfterRule, TypeParts DEF StreamsOK
<1>4. ClientOK'
  BY <1>1, <1>2, TypeParts DEF ClientOK
<1>5. StreamsOK' /\ SessionOK'
  BY <1>2, <1>3, TypeParts DEF StreamsOK, SessionOK, sessionVars
<1> QED
  BY <1>4, <1>5, TypeNext

\* What is reported of a file.
LEMMA ReportType ==
  ASSUME cmd \in Commands, NEW file \in Seq(Tokens), NEW cut \in BOOLEAN, Report(file, cut)
  PROVE  /\ said' \in [name : Names \cup {None}, bytes : Nat, cut : BOOLEAN]
         /\ said'.name = cmd.name /\ said'.bytes = Len(file) /\ said'.cut = cut
BY CommandTypes DEF Report

\* What came with the header is part of the stream.
LEMMA FirstDataType ==
  ASSUME NEW s \in Seq(Tokens)
  PROVE  FirstData(s) \in Seq(Tokens)
<1>1. Find(s, "nl") \in 0..Len(s)
  BY FindRule
<1> QED
  BY <1>1, AfterRule DEF FirstData

LEMMA HeadReadsType == TypeOK /\ HeadReads => TypeOK'
<1> SUFFICES ASSUME TypeOK, HeadReads PROVE TypeOK'
  OBVIOUS
<1> DEFINE s(n) == SubSeq(toClient, 1, n)
           number(n) == After(s(n), Find(s(n), "length"))
           data(n) == FirstData(number(n))
<1>1. PICK n \in 1..Len(toClient) :
        /\ toClient' = After(toClient, n)
        /\ IF s(n)[1].kind = "error" \/ Find(s(n), "length") = 0
           THEN client' = "prompt" /\ UNCHANGED <<need, out, said, spoiled>>
           ELSE /\ need' = Length(number(n))
                /\ \/ /\ Store(<<>>, data(n)) \/ (data(n) # <<>> /\ StoreFails(<<>>))
                      /\ IF Enough(out', need')
                         THEN client' = "prompt" /\ Report(out', FALSE)
                         ELSE client' = "body" /\ UNCHANGED said
                   \/ NotOpened
  BY DEF HeadReads
<1>2. UNCHANGED <<cmd, typed, sessionVars, toServer>>
  BY DEF HeadReads
<1>3. toClient \in Seq(Tokens) /\ out \in Seq(Tokens) /\ toServer \in Seq(Tokens) /\ SessionOK /\ ClientOK
  BY TypeParts DEF StreamsOK
<1>4. s(n) \in Seq(Tokens)
  BY <1>3, FirstRule
<1>5. number(n) \in Seq(Tokens)
  <2>1. Len(s(n)) \in Nat
    BY <1>4
  <2>2. Find(s(n), "length") \in 0..Len(s(n))
    BY <2>1, FindRule
  <2> QED
    BY <1>4, <2>2, AfterRule
<1>6. data(n) \in Seq(Tokens) /\ Length(number(n)) \in Nat
  BY <1>5, FirstDataType, LengthRule
<1> HIDE DEF s, number, data
<1>7. toClient' \in Seq(Tokens)
  BY <1>1, <1>3, AfterRule
<1>8. need' \in Nat
  BY <1>1, <1>3, <1>6 DEF ClientOK
<1>9. out' \in Seq(Tokens) /\ spoiled' \in BOOLEAN
  <2>1. <<>> \in Seq(Tokens) /\ <<>> \o data(n) \in Seq(Tokens)
    BY <1>6, JoinRule
  <2> QED
    BY <1>1, <1>3, <2>1 DEF ClientOK, Store, StoreFails, NotOpened
<1>10. said' \in [name : Names \cup {None}, bytes : Nat, cut : BOOLEAN]
  <2>1. UNCHANGED said \/ Report(out', FALSE)
    BY <1>1 DEF NotOpened
  <2>2. said \in [name : Names \cup {None}, bytes : Nat, cut : BOOLEAN] /\ cmd \in Commands
    BY <1>3 DEF ClientOK
  <2> QED
    BY <1>9, <2>1, <2>2, ReportType
<1>11. client' \in {"prompt", "body"}
  BY <1>1 DEF NotOpened
<1>12. ClientOK'
  BY <1>2, <1>3, <1>8, <1>9, <1>10, <1>11 DEF ClientOK
<1>13. StreamsOK' /\ SessionOK'
  BY <1>2, <1>3, <1>7, <1>9 DEF StreamsOK, SessionOK, sessionVars
<1> QED
  BY <1>12, <1>13, TypeNext

LEMMA BodyReadsType == TypeOK /\ BodyReads => TypeOK'
<1> SUFFICES ASSUME TypeOK, BodyReads PROVE TypeOK'
  OBVIOUS
<1> DEFINE s(n) == SubSeq(toClient, 1, n)
<1>1. PICK n \in 1..Len(toClient) :
        /\ toClient' = After(toClient, n)
        /\ \/ /\ Store(out, s(n))
              /\ IF Enough(out', need)
                 THEN client' = "prompt" /\ Report(out', FALSE)
                 ELSE client' = "body" /\ UNCHANGED said
           \/ StoreFails(out) /\ client' = "prompt" /\ Report(out, TRUE)
  BY DEF BodyReads
<1>2. UNCHANGED <<cmd, need, typed, sessionVars, toServer>>
  BY DEF BodyReads
<1>3. toClient \in Seq(Tokens) /\ out \in Seq(Tokens) /\ toServer \in Seq(Tokens) /\ SessionOK /\ ClientOK
  BY TypeParts DEF StreamsOK
<1>4. s(n) \in Seq(Tokens)
  BY <1>3, FirstRule
<1> HIDE DEF s
<1>5. toClient' \in Seq(Tokens)
  BY <1>1, <1>3, AfterRule
<1>6. out' \in Seq(Tokens) /\ spoiled' \in BOOLEAN
  <2>1. out \o s(n) \in Seq(Tokens)
    BY <1>3, <1>4, JoinRule
  <2> QED
    BY <1>1, <1>3, <2>1 DEF ClientOK, Store, StoreFails
<1>7. said' \in [name : Names \cup {None}, bytes : Nat, cut : BOOLEAN]
  <2>1. UNCHANGED said \/ Report(out', FALSE) \/ Report(out, TRUE)
    BY <1>1
  <2>2. said \in [name : Names \cup {None}, bytes : Nat, cut : BOOLEAN] /\ cmd \in Commands
    BY <1>3 DEF ClientOK
  <2> QED
    BY <1>3, <1>6, <2>1, <2>2, ReportType
<1>8. client' \in {"prompt", "body"}
  BY <1>1
<1>9. ClientOK'
  BY <1>2, <1>3, <1>6, <1>7, <1>8 DEF ClientOK
<1>10. StreamsOK' /\ SessionOK'
  BY <1>2, <1>3, <1>5, <1>6 DEF StreamsOK, SessionOK, sessionVars
<1> QED
  BY <1>9, <1>10, TypeNext

LEMMA RecvFailsType == TypeOK /\ RecvFails => TypeOK'
<1> SUFFICES ASSUME TypeOK, RecvFails PROVE TypeOK'
  OBVIOUS
<1>1. UNCHANGED <<cmd, need, out, typed, spoiled, sessionVars, toServer, toClient>> /\ client' \in {"prompt", "done"}
  BY DEF RecvFails
<1>2. said' \in [name : Names \cup {None}, bytes : Nat, cut : BOOLEAN]
  <2>1. UNCHANGED said \/ Report(out, TRUE)
    BY DEF RecvFails
  <2>2. said \in [name : Names \cup {None}, bytes : Nat, cut : BOOLEAN] /\ cmd \in Commands /\ out \in Seq(Tokens)
    BY TypeParts DEF ClientOK, StreamsOK
  <2> QED
    BY <2>1, <2>2, ReportType
<1>3. ClientOK'
  BY <1>1, <1>2, TypeParts DEF ClientOK
<1>4. StreamsOK' /\ SessionOK'
  BY <1>1, TypeParts DEF StreamsOK, SessionOK, sessionVars
<1> QED
  BY <1>3, <1>4, TypeNext

-----------------------------------------------------------------------------
(***************************************************************************)
(* Requests and answers stay matched.                                      *)
(***************************************************************************)
LEMMA SameSeq ==
  ASSUME NEW s \in Seq(Tokens), NEW t \in Seq(Tokens), Len(s) = Len(t),
         \A j \in 1..Len(s) : s[j] = t[j]
  PROVE  s = t
OBVIOUS

LEMMA NoneLeft ==
  ASSUME NEW s \in Seq(Tokens)
  PROVE  /\ Len(s) \in Nat
         /\ Len(s) = 0 <=> s = <<>>
OBVIOUS

\* After a failure of the disk nothing is claimed; what holds before one, or without.
Good == Matched /\ SavedIsWhole

LEMMA ChatterRule ==
  \A t \in Chatter : t.kind \in {"help", "cr", "nl", "name"} /\ t.of \in Names \cup {None}
BY TokenTypes DEF Chatter, Kinds

\* A command is appended to the stream.
LEMMA ChatLonger ==
  ASSUME NEW s \in Seq(Tokens), Chat(s), NEW c \in Commands, c.op \in {"help", "other"}
  PROVE  Chat(s \o Text(c))
<1> DEFINE t == Text(c)
<1>1. t \in Seq(Tokens)
  BY TextRule
<1>2. Word("help") \in Chatter /\ Word("cr") \in Chatter /\ Word("nl") \in Chatter
  BY DEF Chatter
<1>3. \A j \in 1..Len(t) : t[j] \in Chatter
  <2>1. CASE c.op = "help"
    <3>1. t = <<Word("help"), Word("cr"), Word("nl")>>
      BY <2>1, TextRule
    <3> QED
      BY <1>2, <3>1
  <2>2. CASE c.op = "other"
    <3>1. t = <<Name(c.name), Word("cr"), Word("nl")>>
      BY <2>2, TextRule
    <3>2. Name(c.name) \in Chatter
      BY <2>2, CommandTypes DEF Chatter
    <3> QED
      BY <1>2, <3>1, <3>2
  <2> QED
    BY <2>1, <2>2
<1> HIDE DEF t
<1>4. /\ s \o t \in Seq(Tokens) /\ Len(s \o t) = Len(s) + Len(t)
      /\ \A j \in 1..Len(s) : (s \o t)[j] = s[j]
      /\ \A j \in 1..Len(t) : (s \o t)[Len(s)+j] = t[j]
  BY <1>1, JoinRule
<1>5. ASSUME NEW j \in 1..Len(s \o t) PROVE (s \o t)[j] \in Chatter
  <2>1. CASE j \in 1..Len(s)
    BY <2>1, <1>4 DEF Chat
  <2>2. CASE ~(j \in 1..Len(s))
    <3>1. j - Len(s) \in 1..Len(t) /\ Len(s) + (j - Len(s)) = j
      BY <1>1, <1>4, <2>2
    <3> QED
      BY <1>3, <1>4, <3>1
  <2> QED
    BY <2>1, <2>2
<1> QED
  BY <1>5 DEF Chat, t

\* A command is asked behind any chatter.
LEMMA AskedAny ==
  ASSUME NEW s \in Seq(Tokens), Chat(s), NEW c \in Commands
  PROVE  \E m \in 0..Len(s \o Text(c)) :
           Chat(SubSeq(s \o Text(c), 1, m)) /\ After(s \o Text(c), m) = Text(c)
<1> DEFINE t == Text(c)
           m == Len(s)
           u == s \o t
<1>1. t \in Seq(Tokens)
  BY TextRule
<1> HIDE DEF t
<1>2. /\ u \in Seq(Tokens) /\ Len(u) = Len(s) + Len(t)
      /\ \A j \in 1..Len(s) : u[j] = s[j]
      /\ \A j \in 1..Len(t) : u[Len(s)+j] = t[j]
  BY <1>1, JoinRule
<1>3. Len(s) \in Nat /\ Len(t) \in Nat
  BY <1>1
<1> HIDE DEF u
<1>4. m \in 0..Len(u)
  BY <1>2, <1>3
<1>5. /\ After(u, m) \in Seq(Tokens) /\ Len(After(u, m)) = Len(t)
      /\ \A j \in 1..Len(t) : After(u, m)[j] = t[j]
  <2>1. /\ After(u, m) \in Seq(Tokens) /\ Len(After(u, m)) = Len(u) - m
        /\ \A j \in 1..(Len(u)-m) : After(u, m)[j] = u[m+j]
    BY <1>2, <1>4, AfterRule
  <2>2. Len(u) - m = Len(t)
    BY <1>2, <1>3
  <2> QED
    BY <1>2, <2>1, <2>2
<1>6. After(u, m) = t
  BY <1>1, <1>5, SameSeq
<1>7. Chat(SubSeq(u, 1, m))
  <2>1. /\ Len(SubSeq(u, 1, m)) = m
        /\ \A j \in 1..m : SubSeq(u, 1, m)[j] = u[j]
    BY <1>2, <1>4, FirstRule
  <2> QED
    BY <1>2, <2>1 DEF Chat
<1>8. \E n \in 0..Len(u) : Chat(SubSeq(u, 1, n)) /\ After(u, n) = t
  BY <1>4, <1>6, <1>7, Zenon
<1> QED
  BY <1>8 DEF u, t

\* A command is typed only when nothing of an earlier one is left.
LEMMA TypeGood ==
  ASSUME TypeOK, TypeOK', Good, ~spoiled, Type, UNCHANGED faults
  PROVE  Good'
<1> USE DEF Good
<1>1. client = "prompt" /\ Calm /\ (session # "gone" => Chat(toServer))
  BY DEF Type, Matched, AtPrompt
<1>2. UNCHANGED <<need, out, said, spoiled, session, source, toClient>>
  BY DEF Type, sessionVars
<1>3. session = "gone" => "signal" \in faults
  BY <1>1 DEF Matched
<1>4. Calm'
  BY <1>1, <1>2 DEF Calm
<1>5. SavedIsWhole'
  BY <1>2 DEF SavedIsWhole
<1>6. cmd' \in Commands /\ toServer \in Seq(Tokens)
  BY TypeParts DEF Type, StreamsOK
<1>7. \/ client' = Waits(cmd') /\ toServer' = toServer \o Text(cmd')
      \/ client' = "done"
  BY DEF Type
<1>8. CASE client' = "done"
  BY <1>5, <1>8 DEF Matched, AtPrompt, InList, InHead, InBody
<1>9. CASE client' = Waits(cmd') /\ toServer' = toServer \o Text(cmd')
  <2>1. CASE cmd'.op \in {"help", "other"}
    <3>1. client' = "prompt"
      BY <1>9, <2>1 DEF Waits
    <3>2. session' # "gone" => Chat(toServer')
      BY <1>1, <1>2, <1>6, <1>9, <2>1, ChatLonger
    <3> QED
      BY <1>2, <1>3, <1>4, <1>5, <3>1, <3>2 DEF Matched, AtPrompt, InList, InHead, InBody
  <2>2. CASE cmd'.op = "exit"
    <3>1. client' = "done"
      BY <1>9, <2>2 DEF Waits
    <3> QED
      BY <1>5, <3>1 DEF Matched, AtPrompt, InList, InHead, InBody
  <2>3. CASE cmd'.op \in {"ls", "get"}
    <3>1. client' = IF cmd'.op = "ls" THEN "list" ELSE "head"
      BY <1>9, <2>3 DEF Waits
    <3>2. ASSUME session' # "gone" PROVE Asked(toServer)'
      <4>1. Chat(toServer)
        BY <1>1, <1>2, <3>2
      <4>2. \E m \in 0..Len(toServer') :
              Chat(SubSeq(toServer', 1, m)) /\ After(toServer', m) = Text(cmd')
        BY <1>6, <1>9, <4>1, AskedAny
      <4> QED
        BY <4>2 DEF Asked, Chat, After
    <3>3. Asking'
      BY <1>4, <3>2 DEF Asking
    <3> QED
      BY <1>2, <1>3, <1>5, <2>3, <3>1, <3>3 DEF Matched, AtPrompt, InList, InHead, InBody
  <2>4. cmd'.op \in {"ls", "help", "exit", "get", "other"}
    BY <1>6, CommandTypes
  <2> QED
    BY <2>1, <2>2, <2>3, <2>4
<1> QED
  BY <1>7, <1>8, <1>9

\* What a prefix is, token by token.
LEMMA PrefixRule ==
  ASSUME NEW s \in Seq(Tokens), NEW t \in Seq(Tokens)
  PROVE  IsPrefix(s, t) <=> Len(s) <= Len(t) /\ \A j \in 1..Len(s) : s[j] = t[j]
<1> DEFINE a == SubSeq(s, 1, Len(s))
           b == SubSeq(t, 1, Len(s))
<1>1. Len(s) \in Nat /\ Len(t) \in Nat
  OBVIOUS
<1>2. CASE Len(s) <= Len(t)
  <2>1. Len(s) \in 0..Len(s) /\ Len(s) \in 0..Len(t)
    BY <1>1, <1>2
  <2>2. /\ a \in Seq(Tokens) /\ Len(a) = Len(s) /\ \A j \in 1..Len(s) : a[j] = s[j]
        /\ b \in Seq(Tokens) /\ Len(b) = Len(s) /\ \A j \in 1..Len(s) : b[j] = t[j]
    BY <2>1, FirstRule
  <2> HIDE DEF a, b
  <2>3. a = b <=> \A j \in 1..Len(s) : s[j] = t[j]
    <3>1. ASSUME \A j \in 1..Len(s) : s[j] = t[j] PROVE a = b
      BY <2>2, <3>1, SameSeq
    <3>2. ASSUME a = b PROVE \A j \in 1..Len(s) : s[j] = t[j]
      BY <2>2, <3>2
    <3> QED
      BY <3>1, <3>2
  <2> QED
    BY <1>2, <2>3 DEF IsPrefix, a, b
<1>3. CASE ~(Len(s) <= Len(t))
  BY <1>3 DEF IsPrefix
<1> QED
  BY <1>2, <1>3

LEMMA LeaveGood ==
  ASSUME Good, Leave
  PROVE  Good'
<1>1. client' = "done" /\ UNCHANGED <<said, spoiled>>
  BY DEF Leave
<1> QED
  BY <1>1 DEF Good, Matched, AtPrompt, InList, InHead, InBody, SavedIsWhole

\* A session that is gone leaves the client only what is in its stream.
LEMMA SessionEndsGood ==
  ASSUME Good, SessionEnds, UNCHANGED faults
  PROVE  Good'
<1>1. /\ session' = "gone"
      /\ client = "done" \/ "signal" \in faults
      /\ UNCHANGED <<client, cmd, need, out, said, spoiled, toServer, toClient, faults>>
  BY DEF SessionEnds, clientVars
<1>2. SavedIsWhole'
  BY <1>1 DEF Good, SavedIsWhole
<1>3. AtPrompt'
  BY <1>1 DEF Good, Matched, AtPrompt, Calm
<1>4. Asking => Asking'
  BY <1>1 DEF Asking, Calm
<1>5. Heard'
  BY <1>1 DEF Heard
<1>6. InList'
  BY <1>1, <1>4, <1>5 DEF Good, Matched, InList, Ended
<1>7. \A s, first : Coming(s, first) => Coming(s, first)'
  BY <1>1 DEF Coming, Follows
<1>8. Refused \/ Ignored \/ Answered => Refused' \/ Ignored' \/ Answered'
  BY <1>1, <1>7 DEF Refused, Ignored, Answered
<1>9. InHead'
  BY <1>1, <1>4, <1>5, <1>8 DEF Good, Matched, InHead
<1>10. InBody'
  BY <1>1, <1>5, <1>7 DEF Good, Matched, InBody, Follows
<1> QED
  BY <1>1, <1>2, <1>3, <1>6, <1>9, <1>10 DEF Good, Matched

\* A client whose recv fails gives up, or has nothing more to read.
LEMMA RecvFailsGood ==
  ASSUME TypeOK, Good, RecvFails, UNCHANGED faults
  PROVE  Good'
<1>1. /\ \/ session = "gone" /\ toClient = <<>> /\ client' = "prompt"
         \/ client' = "done"
      /\ UNCHANGED <<cmd, need, out, spoiled, session, source, toServer, toClient, faults>>
  BY DEF RecvFails, sessionVars
<1>2. Report(out, TRUE) \/ UNCHANGED said
  BY DEF RecvFails
<1>3. SavedIsWhole'
  BY <1>1, <1>2 DEF Good, SavedIsWhole, Report
<1>4. AtPrompt'
  BY <1>1 DEF AtPrompt, Calm
<1>5. session' = "gone" => client' = "done" \/ "signal" \in faults'
  BY <1>1 DEF Good, Matched, RecvFails
<1> QED
  BY <1>1, <1>3, <1>4, <1>5 DEF Good, Matched, InList, InHead, InBody

\* The file, or what of it the session gets rid of, comes after its header.
LEMMA TransmitGood ==
  ASSUME TypeOK, TypeOK', Good, Transmit, UNCHANGED faults
  PROVE  Good'
<1>1. /\ session = "sending" /\ session' = "recv" /\ source \in Files
      /\ UNCHANGED <<client, cmd, need, out, said, spoiled, toServer, faults>>
  BY TypeParts DEF Transmit, clientVars, SessionOK
<1> DEFINE part(n) == SubSeq(Body(source), 1, n)
<1>2. PICK n \in 0..Size[source] : toClient' = toClient \o part(n)
  BY DEF Transmit, Reply
<1>3. /\ Body(source) \in Seq(Tokens) /\ Len(Body(source)) = Size[source] /\ Size[source] \in Nat
      /\ toClient \in Seq(Tokens) /\ toClient' \in Seq(Tokens)
  BY <1>1, BodyRule, SizeType, TypeParts, TypeNext DEF StreamsOK
<1>4. /\ part(n) \in Seq(Tokens) /\ Len(part(n)) = n
      /\ \A j \in 1..n : part(n)[j] = Body(source)[j]
  BY <1>3, FirstRule
<1> HIDE DEF part
<1>5. ASSUME Calm PROVE Calm'
  <2>1. Size[source] = 0 /\ toClient = <<>>
    BY <1>1, <1>5 DEF Calm
  <2>2. n = 0
    BY <2>1
  <2>3. part(n) = <<>>
    BY <1>4, <2>2, NoneLeft
  <2>4. toClient' = <<>>
    BY <1>2, <2>1, <2>3
  <2> QED
    BY <1>1, <2>4 DEF Calm
<1>6. AtPrompt'
  BY <1>1, <1>5 DEF Good, Matched, AtPrompt
<1>7. Asking => Asking'
  BY <1>1, <1>5 DEF Asking, Asked, Chat
<1>8. InList'
  BY <1>1, <1>7 DEF Good, Matched, InList
<1>9. SavedIsWhole'
  BY <1>1 DEF Good, SavedIsWhole
<1>10. Heard => Heard'
  BY <1>1 DEF Heard
<1> DEFINE f == cmd.name
           H == Header(f)
<1>11. ASSUME Answered PROVE Answered'
  <2>1. /\ f \in Files \ PathNames /\ IsPrefix(H, toClient)
        /\ After(toClient, Len(H)) = <<>> /\ source = f
    BY <1>1, <1>11 DEF Answered, Coming
  <2>2. H \in Seq(Tokens) /\ Len(H) \in Nat
    BY <2>1, HeaderRule
  <2> HIDE DEF H
  <2>3. Len(H) <= Len(toClient) /\ \A j \in 1..Len(H) : H[j] = toClient[j]
    BY <1>3, <2>1, <2>2, PrefixRule
  <2>4. Len(toClient) = Len(H)
    <3>1. Len(H) \in 0..Len(toClient)
      BY <1>3, <2>2, <2>3
    <3>2. Len(After(toClient, Len(H))) = Len(toClient) - Len(H)
      BY <1>3, <3>1, AfterRule
    <3> QED
      BY <1>3, <2>1, <2>2, <3>2
  <2>5. /\ Len(toClient') = Len(H) + n
        /\ \A j \in 1..Len(H) : toClient'[j] = toClient[j]
        /\ \A j \in 1..n : toClient'[Len(H)+j] = part(n)[j]
    <3> DEFINE p == part(n)
    <3>1. p \in Seq(Tokens) /\ Len(p) = n /\ toClient' = toClient \o p
      BY <1>2, <1>4
    <3> HIDE DEF p
    <3>2. /\ Len(toClient \o p) = Len(toClient) + Len(p)
          /\ \A j \in 1..Len(toClient) : (toClient \o p)[j] = toClient[j]
          /\ \A j \in 1..Len(p) : (toClient \o p)[Len(toClient)+j] = p[j]
      BY <1>3, <3>1, JoinRule
    <3> QED
      BY <2>4, <3>1, <3>2 DEF p
  <2>6. IsPrefix(H, toClient')
    <3>1. Len(H) <= Len(toClient') /\ \A j \in 1..Len(H) : H[j] = toClient'[j]
      BY <2>2, <2>3, <2>5
    <3> QED
      BY <1>3, <2>2, <3>1, PrefixRule
  <2>7. /\ Len(After(toClient', Len(H))) = n
        /\ \A j \in 1..n : After(toClient', Len(H))[j] = toClient'[Len(H)+j]
    <3>1. Len(H) \in 0..Len(toClient') /\ Len(toClient') - Len(H) = n
      BY <2>2, <2>5
    <3> QED
      BY <1>3, <3>1, AfterRule
  <2>8. Follows(After(toClient', Len(H)), f, 0)
    BY <1>3, <1>4, <2>1, <2>5, <2>7 DEF Follows
  <2> QED
    BY <1>1, <2>1, <2>6, <2>8 DEF Answered, Coming, After, Follows, H
<1>12. InHead'
  BY <1>1, <1>7, <1>10, <1>11 DEF Good, Matched, InHead, Refused, Ignored
<1>13. InBody'
  <2> SUFFICES ASSUME client = "body" PROVE InBody'
    BY <1>1 DEF InBody
  <2>1. /\ Heard /\ f \in Files \ PathNames /\ need = Size[f] /\ Len(out) < need
        /\ Follows(out, f, 0) /\ source = f /\ toClient = <<>> /\ Len(out) = 0
    BY <1>1 DEF Good, Matched, InBody, Coming
  <2>2. /\ Len(toClient') = n
        /\ \A j \in 1..n : toClient'[j] = part(n)[j]
    BY <1>2, <1>3, <1>4, <2>1
  <2>3. Follows(toClient', f, 0)
    BY <1>3, <1>4, <2>1, <2>2 DEF Follows
  <2> QED
    BY <1>1, <1>10, <2>1, <2>3 DEF InBody, Coming, Follows
<1>14. session' = "gone" => client' = "done" \/ "signal" \in faults'
  BY <1>1
<1> QED
  BY <1>6, <1>8, <1>9, <1>12, <1>13, <1>14 DEF Good, Matched

LEMMA JoinNone ==
  ASSUME NEW s \in Seq(Tokens)
  PROVE  <<>> \o s = s
<1>1. <<>> \in Seq(Tokens) /\ Len(<<>>) = 0
  OBVIOUS
<1>2. <<>> \o s \in Seq(Tokens) /\ Len(<<>> \o s) = Len(s) /\ \A j \in 1..Len(s) : (<<>> \o s)[j] = s[j]
  OBVIOUS
<1> QED
  BY <1>2, SameSeq

\* Nothing is left after the whole of a stream.
LEMMA AfterAll ==
  ASSUME NEW s \in Seq(Tokens)
  PROVE  After(s, Len(s)) = <<>>
<1>1. Len(s) \in 0..Len(s)
  OBVIOUS
<1>2. After(s, Len(s)) \in Seq(Tokens) /\ Len(After(s, Len(s))) = 0
  BY <1>1, AfterRule
<1> QED
  BY <1>2, NoneLeft

\* A session that reads nothing but chatter does nothing.
LEMMA ChatUnanswered ==
  ASSUME InLines, NEW s \in Seq(Tokens), Chat(s), Obey(s), session = "recv"
  PROVE  UNCHANGED <<toClient, session, source>>
<1>1. \A j \in 1..Len(s) : s[j].kind \in {"help", "cr", "nl", "name"} /\ s[j].of \notin LsNames
  BY ChatterRule DEF Chat, InLines
<1>2. ~AsksList(s)
  BY <1>1 DEF AsksList
<1>3. Len(s) \in Nat
  OBVIOUS
<1>4. Find(s, "get") = 0
  <2>1. Find(s, "get") \in 1..Len(s) => s[Find(s, "get")].kind = "get"
    BY <1>3, FindRule
  <2>2. Find(s, "get") \in 0..Len(s)
    BY <1>3, FindRule
  <2> QED
    BY <1>1, <1>3, <2>1, <2>2
<1>5. Find(s, "exit") = 0
  <2>1. Find(s, "exit") \in 1..Len(s) => s[Find(s, "exit")].kind = "exit"
    BY <1>3, FindRule
  <2>2. Find(s, "exit") \in 0..Len(s)
    BY <1>3, FindRule
  <2> QED
    BY <1>1, <1>3, <2>1, <2>2
<1> QED
  BY <1>2, <1>4, <1>5 DEF Obey

\* Where the command is in the stream.
LEMMA AskedRule ==
  ASSUME NEW s \in Seq(Tokens), cmd \in Commands, Asked(s)
  PROVE  \E m \in 0..Len(s) :
           /\ Len(s) = m + Len(Text(cmd))
           /\ \A j \in 1..m : s[j] \in Chatter
           /\ \A j \in 1..Len(Text(cmd)) : s[m+j] = Text(cmd)[j]
<1>1. PICK m \in 0..Len(s) : Chat(SubSeq(s, 1, m)) /\ After(s, m) = Text(cmd)
  BY DEF Asked
<1>2. /\ Len(After(s, m)) = Len(s) - m
      /\ \A j \in 1..(Len(s)-m) : After(s, m)[j] = s[m+j]
  BY AfterRule
<1>3. Len(SubSeq(s, 1, m)) = m /\ \A j \in 1..m : SubSeq(s, 1, m)[j] = s[j]
  BY FirstRule
<1>4. \A j \in 1..m : s[j] \in Chatter
  BY <1>1, <1>3 DEF Chat
<1>5. Len(s) \in Nat
  OBVIOUS
<1>6. Len(s) = m + Len(Text(cmd)) /\ \A j \in 1..Len(Text(cmd)) : s[m+j] = Text(cmd)[j]
  BY <1>1, <1>2, <1>5
<1> QED
  BY <1>4, <1>6

\* A recv that ends before the command leaves it for the next.
LEMMA AskedLater ==
  ASSUME NEW s \in Seq(Tokens), NEW c \in Commands, NEW m \in 0..Len(s), NEW n \in 0..m,
         Len(s) = m + Len(Text(c)),
         \A j \in 1..m : s[j] \in Chatter,
         \A j \in 1..Len(Text(c)) : s[m+j] = Text(c)[j]
  PROVE  \E k \in 0..Len(After(s, n)) :
           Chat(SubSeq(After(s, n), 1, k)) /\ After(After(s, n), k) = Text(c)
<1> DEFINE r == After(s, n)
           t == Text(c)
           k == m - n
<1>1. t \in Seq(Tokens) /\ Len(t) \in Nat
  BY TextRule, NoneLeft
<1>2. n \in 0..Len(s)
  OBVIOUS
<1>3. /\ r \in Seq(Tokens) /\ Len(r) = Len(s) - n
      /\ \A j \in 1..(Len(s)-n) : r[j] = s[n+j]
  BY <1>2, AfterRule
<1> HIDE DEF r, t
<1>4. Len(s) = m + Len(t) /\ \A j \in 1..Len(t) : s[m+j] = t[j]
  BY DEF t
<1>5. k \in 0..Len(r)
  BY <1>1, <1>3, <1>4
<1>6. Chat(SubSeq(r, 1, k))
  <2>1. Len(SubSeq(r, 1, k)) = k /\ \A j \in 1..k : SubSeq(r, 1, k)[j] = r[j]
    BY <1>3, <1>5, FirstRule
  <2>2. \A j \in 1..k : n + j \in 1..m /\ j \in 1..(Len(s)-n)
    BY <1>1, <1>4
  <2>3. \A j \in 1..k : r[j] \in Chatter
    BY <1>3, <2>2
  <2> QED
    BY <2>1, <2>3 DEF Chat
<1>7. After(r, k) = t
  <2>1. /\ After(r, k) \in Seq(Tokens) /\ Len(After(r, k)) = Len(r) - k
        /\ \A j \in 1..(Len(r)-k) : After(r, k)[j] = r[k+j]
    BY <1>3, <1>5, AfterRule
  <2>2. Len(r) - k = Len(t)
    BY <1>1, <1>3, <1>4
  <2>3. \A j \in 1..Len(t) : k + j \in 1..(Len(s)-n) /\ n + (k + j) = m + j
    BY <1>1, <1>4
  <2>4. ASSUME NEW j \in 1..Len(t) PROVE After(r, k)[j] = t[j]
    <3>1. After(r, k)[j] = r[k+j]
      BY <2>1, <2>2
    <3>2. r[k+j] = s[n+(k+j)]
      BY <1>3, <2>3
    <3>3. s[m+j] = t[j]
      BY <1>4
    <3> QED
      BY <2>3, <3>1, <3>2, <3>3
  <2> QED
    BY <1>1, <2>1, <2>2, <2>4, SameSeq
<1> QED
  BY <1>5, <1>6, <1>7 DEF r, t

\* A recv that ends in the command ends with it.
LEMMA WholeCommand ==
  ASSUME InLines, NEW c \in Commands, c.op \in {"ls", "get"}, NEW j \in 1..Len(Text(c)),
         Text(c)[j].kind \in Ends
  PROVE  j = Len(Text(c))
<1>1. Text(c)[j].kind \in {"nl", "data"}
  BY DEF InLines
<1>2. /\ Word("ls").kind = "ls" /\ Word("cr").kind = "cr" /\ Word("get").kind = "get"
      /\ Name(c.name).kind = "name"
  BY DEF Word, Name
<1>3. CASE c.op = "ls"
  <2>1. Text(c) = <<Word("ls"), Word("cr"), Word("nl")>>
    BY <1>3, TextRule
  <2> QED
    BY <1>1, <1>2, <2>1
<1>4. CASE c.op = "get"
  <2>1. Text(c) = <<Word("get"), Name(c.name), Word("cr"), Word("nl")>>
    BY <1>4, TextRule
  <2> QED
    BY <1>1, <1>2, <2>1
<1> QED
  BY <1>3, <1>4

\* What a session does with chatter and the command behind it.
LEMMA ListAnswered ==
  ASSUME NEW s \in Seq(Tokens), NEW k \in 1..Len(s), s[k] = Word("ls"), Obey(s), toClient = <<>>
  PROVE  /\ toClient' \in {Listed, Error}
         /\ UNCHANGED <<session, source>>
<1>1. AsksList(s)
  BY DEF AsksList, Word
<1>2. ListDirectory
  BY <1>1 DEF Obey
<1>3. \/ toClient' = <<>> \o Listed
      \/ toClient' = <<>> \o Error
  BY <1>2 DEF ListDirectory, Reply
<1> QED
  BY <1>2, <1>3, JoinNone, ListingRule, ErrorRule DEF ListDirectory, sessionVars

\* What the session answers to a get behind some chatter.
LEMMA GetAnswered ==
  ASSUME InLines, NEW s \in Seq(Tokens), NEW m \in Nat, NEW f \in Names,
         Len(s) = m + 4, \A j \in 1..m : s[j] \in Chatter,
         s[m+1] = Word("get"), s[m+2] = Name(f), s[m+3] = Word("cr"), s[m+4] = Word("nl"),
         Obey(s), toClient = <<>>
  PROVE  \/ f \in Files \ PathNames /\ toClient' = Header(f) /\ session' = "sending" /\ source' = f
         \/ "stat" \in faults /\ toClient' = <<>> /\ UNCHANGED <<session, source>>
         \/ f \notin Files \ PathNames /\ toClient' = Error /\ UNCHANGED <<session, source>>
<1>1. \A j \in 1..m : s[j].kind \in {"help", "cr", "nl", "name"} /\ s[j].of \in Names \cup {None}
  BY ChatterRule
<1>2. /\ s[m+1].kind = "get" /\ s[m+1].of = None /\ s[m+2].kind = "name" /\ s[m+2].of = f
      /\ s[m+3].kind = "cr" /\ s[m+3].of = None /\ s[m+4].kind = "nl" /\ s[m+4].of = None
  BY DEF Word, Name
<1>3. \A j \in 1..Len(s) : j \in 1..m \/ j \in {m+1, m+2, m+3, m+4}
  OBVIOUS
<1>4. \A j \in 1..Len(s) : s[j].kind # "ls" /\ s[j].of \in Names \cup {None}
  BY <1>1, <1>2, <1>3
<1>5. ~AsksList(s)
  BY <1>4 DEF AsksList, InLines
<1>6. Len(s) \in Nat
  OBVIOUS
<1>7. Find(s, "get") = m + 1
  <2> DEFINE g == Find(s, "get")
  <2>1. /\ g \in 0..Len(s)
        /\ g > 0 => s[g].kind = "get" /\ \A j \in 1..Len(s) : s[j].kind = "get" => g <= j
        /\ g = 0 => \A j \in 1..Len(s) : s[j].kind # "get"
    BY <1>6, FindRule
  <2> HIDE DEF g
  <2>2. m + 1 \in 1..Len(s)
    OBVIOUS
  <2>3. g > 0 /\ g <= m + 1
    BY <1>2, <2>1, <2>2
  <2>4. ~(g \in 1..m)
    BY <1>1, <2>1, <2>3
  <2>5. g = m + 1
    BY <2>1, <2>3, <2>4
  <2> QED
    BY <2>5 DEF g
<1> DEFINE rest == After(s, m + 1)
<1>8. /\ rest \in Seq(Tokens) /\ Len(rest) = 3
      /\ rest[1] = s[m+2] /\ rest[2] = s[m+3] /\ rest[3] = s[m+4]
  <2>1. m + 1 \in 0..Len(s) /\ Len(s) - (m + 1) = 3
    OBVIOUS
  <2>2. Len(rest) = 3 /\ rest \in Seq(Tokens) /\ \A j \in 1..3 : rest[j] = s[(m+1)+j]
    BY <2>1, AfterRule
  <2>3. (m+1)+1 = m+2 /\ (m+1)+2 = m+3 /\ (m+1)+3 = m+4
    OBVIOUS
  <2> QED
    BY <2>2, <2>3
<1> HIDE DEF rest
<1>9. LineEnd(rest) = 2
  <2>1. 2 \in 1..(Len(rest)-1) /\ rest[2].kind = "cr" /\ rest[2+1].kind = "nl" /\ Len(rest) \in Nat
    BY <1>2, <1>8
  <2>2. \A j \in 1..(2-1) : rest[j].kind # "cr"
    BY <1>2, <1>8
  <2> QED
    BY <2>1, <2>2, LineEndRule
<1> DEFINE name == SubSeq(rest, 1, LineEnd(rest) - 1)
<1>10. SendFile(name)
  BY <1>5, <1>7, <1>9 DEF Obey, rest
<1>11. Len(name) = 1 /\ name[1] = rest[1] /\ name[1].of = f
  <2>1. LineEnd(rest) - 1 = 1
    BY <1>9
  <2>2. 1 \in 0..Len(rest)
    BY <1>8
  <2>3. Len(SubSeq(rest, 1, 1)) = 1 /\ SubSeq(rest, 1, 1)[1] = rest[1]
    BY <1>8, <2>2, FirstRule
  <2> QED
    BY <1>2, <1>8, <2>1, <2>3
<1> HIDE DEF name
<1>12. CASE f \in Files \ PathNames
  <2>1. \/ toClient' = <<>> \o Header(f) /\ session' = "sending" /\ source' = f
        \/ "stat" \in faults /\ toClient' = <<>> /\ UNCHANGED <<session, source>>
    BY <1>10, <1>11, <1>12 DEF SendFile, Reply, sessionVars
  <2>2. <<>> \o Header(f) = Header(f)
    BY <1>12, HeaderRule, JoinNone
  <2> QED
    BY <1>12, <2>1, <2>2
<1>13. CASE f \notin Files \ PathNames
  <2>1. toClient' = <<>> \o Error /\ UNCHANGED <<session, source>>
    BY <1>10, <1>11, <1>13 DEF SendFile, Reply, sessionVars
  <2> QED
    BY <1>13, <2>1, ErrorRule, JoinNone
<1> QED
  BY <1>12, <1>13

\* A header by itself announces its file.
LEMMA JustHeader ==
  ASSUME NEW f \in Files
  PROVE  /\ IsPrefix(Header(f), Header(f))
         /\ After(Header(f), Len(Header(f))) = <<>>
         /\ Follows(<<>>, f, 0)
<1>1. Header(f) \in Seq(Tokens) /\ Len(Header(f)) \in Nat
  BY HeaderRule, NoneLeft
<1>2. IsPrefix(Header(f), Header(f))
  BY <1>1, PrefixRule
<1>3. After(Header(f), Len(Header(f))) = <<>>
  BY <1>1, AfterAll
<1>4. Follows(<<>>, f, 0)
  BY SizeType DEF Follows
<1> QED
  BY <1>2, <1>3, <1>4

\* The session reads chatter, or the command to its end, and answers it once.
LEMMA SessionReadsGood ==
  ASSUME InLines, TypeOK, TypeOK', Good, ~spoiled, SessionReads, UNCHANGED faults
  PROVE  Good'
<1> DEFINE s(n) == SubSeq(toServer, 1, n)
<1>1. PICK n \in 1..Len(toServer) :
        /\ toServer[n].kind \in Ends
        /\ Obey(s(n)) /\ toServer' = After(toServer, n)
  BY DEF SessionReads, Recv
<1>2. session = "recv" /\ UNCHANGED <<client, cmd, need, out, said, spoiled, faults>>
  BY DEF SessionReads, clientVars
<1>3. toServer \in Seq(Tokens) /\ toClient \in Seq(Tokens) /\ cmd \in Commands /\ Len(toServer) \in Nat
  BY TypeParts DEF StreamsOK, ClientOK
<1>4. SavedIsWhole'
  BY <1>2 DEF Good, SavedIsWhole
<1>5. s(n) \in Seq(Tokens) /\ Len(s(n)) = n /\ \A j \in 1..n : s(n)[j] = toServer[j]
  BY <1>3, FirstRule
<1> HIDE DEF s
<1>6. /\ toServer' \in Seq(Tokens) /\ Len(toServer') = Len(toServer) - n
      /\ \A j \in 1..(Len(toServer)-n) : toServer'[j] = toServer[n+j]
  <2>1. n \in 0..Len(toServer) /\ toServer' = After(toServer, n)
    BY <1>1, <1>3
  <2> QED
    BY <1>3, <2>1, AfterRule
<1>7. toServer # <<>>
  BY <1>3
<1>8. ~Heard
  BY <1>2, <1>7 DEF Heard
<1>9. CASE client = "done"
  BY <1>2, <1>4, <1>9 DEF Good, Matched, AtPrompt, InList, InHead, InBody
<1>10. CASE client = "body"
  BY <1>8, <1>10 DEF Good, Matched, InBody
<1>11. ASSUME \A j \in 1..n : toServer[j] \in Chatter
       PROVE  UNCHANGED <<toClient, session, source>>
  <2>1. Chat(s(n))
    BY <1>5, <1>11 DEF Chat
  <2> QED
    BY <1>1, <1>2, <1>5, <2>1, ChatUnanswered
<1>12. CASE client = "prompt"
  <2>1. Calm /\ \A j \in 1..Len(toServer) : toServer[j] \in Chatter
    BY <1>2, <1>12 DEF Good, Matched, AtPrompt, Chat
  <2>2. \A j \in 1..n : toServer[j] \in Chatter
    BY <1>3, <2>1
  <2>3. UNCHANGED <<toClient, session, source>>
    BY <1>11, <2>2
  <2>4. \A j \in 1..(Len(toServer)-n) : n + j \in 1..Len(toServer)
    BY <1>3
  <2>5. Chat(toServer')
    BY <1>6, <2>1, <2>4 DEF Chat
  <2>6. AtPrompt'
    BY <2>1, <2>3, <2>5 DEF AtPrompt, Calm, Chat
  <2> QED
    BY <1>2, <1>4, <1>12, <2>3, <2>6 DEF Good, Matched, InList, InHead, InBody
<1>13. CASE client \in {"list", "head"}
  <2>1. Asked(toServer) /\ Calm /\ cmd.op = (IF client = "list" THEN "ls" ELSE "get")
    BY <1>2, <1>8, <1>13 DEF Good, Matched, InList, InHead, Asking
  <2>2. PICK m \in 0..Len(toServer) :
          /\ Len(toServer) = m + Len(Text(cmd))
          /\ \A j \in 1..m : toServer[j] \in Chatter
          /\ \A j \in 1..Len(Text(cmd)) : toServer[m+j] = Text(cmd)[j]
    BY <1>3, <2>1, AskedRule
  <2>3. Text(cmd) \in Seq(Tokens) /\ Len(Text(cmd)) \in Nat
    BY <1>3, TextRule, NoneLeft
  <2>4. CASE n <= m
    <3>1. UNCHANGED <<toClient, session, source>>
      BY <1>11, <2>2, <2>4
    <3>2. n \in 0..m
      BY <2>4
    <3>3. \E k \in 0..Len(toServer') :
            Chat(SubSeq(toServer', 1, k)) /\ After(toServer', k) = Text(cmd')
      BY <1>1, <1>2, <1>3, <2>2, <3>2, AskedLater
    <3>4. Asked(toServer)'
      BY <3>3 DEF Asked, Chat, After
    <3>5. Asking'
      BY <2>1, <3>1, <3>4 DEF Asking, Calm
    <3> QED
      BY <1>2, <1>4, <1>13, <2>1, <3>1, <3>5 DEF Good, Matched, AtPrompt, InList, InHead, InBody
  <2>5. CASE ~(n <= m)
    <3>1. n - m \in 1..Len(Text(cmd)) /\ m + (n - m) = n
      BY <2>2, <2>3, <2>5
    <3>2. Text(cmd)[n - m].kind \in Ends
      BY <1>1, <2>2, <3>1
    <3>3. n - m = Len(Text(cmd))
      BY <1>3, <1>13, <2>1, <3>1, <3>2, WholeCommand
    <3>4. toServer' = <<>>
      BY <1>6, <2>2, <2>3, <3>3, NoneLeft
    <3>5. toClient = <<>>
      BY <2>1 DEF Calm
    <3>6. \A j \in 1..m : s(n)[j] \in Chatter
      BY <1>5, <2>2, <2>5
    <3>7. \A j \in 1..Len(Text(cmd)) : s(n)[m+j] = Text(cmd)[j]
      BY <1>5, <2>2, <2>3, <3>3
    <3>8. Heard'
      BY <3>4 DEF Heard
    <3>9. CASE client = "list"
      <4>1. Text(cmd) = <<Word("ls"), Word("cr"), Word("nl")>>
        BY <1>3, <2>1, <3>9, TextRule
      <4>2. s(n)[m+1] = Word("ls") /\ m + 1 \in 1..Len(s(n))
        BY <1>5, <3>3, <3>7, <4>1
      <4>3. toClient' \in {Listed, Error} /\ UNCHANGED <<session, source>>
        BY <1>1, <1>5, <3>5, <4>2, ListAnswered
      <4>4. Ended(toClient')
        BY <4>3, ListingRule, ErrorRule
      <4>5. InList'
        BY <1>2, <2>1, <3>8, <3>9, <4>3, <4>4 DEF InList, Ended
      <4> QED
        BY <1>2, <1>4, <3>9, <4>3, <4>5 DEF Good, Matched, AtPrompt, InHead, InBody
    <3>10. CASE client = "head"
      <4> DEFINE f == cmd.name
      <4>1. Text(cmd) = <<Word("get"), Name(f), Word("cr"), Word("nl")>> /\ f \in Names
        BY <1>3, <2>1, <3>10, TextRule, CommandTypes
      <4>2. Len(Text(cmd)) = 4
        BY <4>1
      <4>3. /\ s(n)[m+1] = Word("get") /\ s(n)[m+2] = Name(f)
            /\ s(n)[m+3] = Word("cr") /\ s(n)[m+4] = Word("nl") /\ Len(s(n)) = m + 4
        <5>1. Len(s(n)) = m + 4
          BY <1>5, <3>3, <4>2
        <5>2. /\ Text(cmd)[1] = Word("get") /\ Text(cmd)[2] = Name(f)
              /\ Text(cmd)[3] = Word("cr") /\ Text(cmd)[4] = Word("nl")
          BY <4>1
        <5>3. \A j \in {1, 2, 3, 4} : s(n)[m+j] = Text(cmd)[j]
          BY <3>7, <4>2
        <5> QED
          BY <5>1, <5>2, <5>3
      <4>4. \/ f \in Files \ PathNames /\ toClient' = Header(f) /\ session' = "sending" /\ source' = f
            \/ "stat" \in faults /\ toClient' = <<>> /\ UNCHANGED <<session, source>>
            \/ f \notin Files \ PathNames /\ toClient' = Error /\ UNCHANGED <<session, source>>
        BY <1>1, <1>5, <3>5, <3>6, <4>1, <4>3, GetAnswered
      <4>5. Refused' \/ Ignored' \/ Answered'
        <5>1. CASE f \in Files \ PathNames /\ toClient' = Header(f) /\ session' = "sending" /\ source' = f
          <6>1. /\ IsPrefix(Header(f), toClient') /\ After(toClient', Len(Header(f))) = <<>>
                /\ Follows(<<>>, f, 0)
            BY <5>1, JustHeader
          <6> QED
            BY <1>2, <5>1, <6>1 DEF Answered, Coming, After, Follows
        <5>2. CASE "stat" \in faults /\ toClient' = <<>> /\ UNCHANGED <<session, source>>
          BY <1>2, <5>2 DEF Ignored
        <5>3. CASE f \notin Files \ PathNames /\ toClient' = Error /\ UNCHANGED <<session, source>>
          BY <1>2, <5>3 DEF Refused
        <5> QED
          BY <4>4, <5>1, <5>2, <5>3
      <4>6. InHead'
        BY <1>2, <2>1, <3>8, <3>10, <4>5 DEF InHead
      <4>7. session' # "gone"
        BY <1>2, <4>4
      <4> QED
        BY <1>2, <1>4, <3>10, <4>6, <4>7 DEF Good, Matched, AtPrompt, InList, InBody
    <3> QED
      BY <1>13, <3>9, <3>10
  <2> QED
    BY <2>4, <2>5
<1> QED
  BY <1>9, <1>10, <1>12, <1>13, TypeParts DEF ClientOK

\* What holds at a prompt reached by reading all of an answer.
LEMMA PromptGood ==
  ASSUME Heard, Calm', session = "gone" => "signal" \in faults,
         UNCHANGED <<session, toServer, faults>>, client' = "prompt"
  PROVE  Matched'
<1>1. session' # "gone" => Chat(toServer')
  BY DEF Heard, Chat
<1>2. AtPrompt'
  BY <1>1 DEF AtPrompt, Chat
<1> QED
  BY <1>2 DEF Matched, InList, InHead, InBody

\* A listing, or the error in its place, is read to its end and no further.
LEMMA ListReadsGood ==
  ASSUME InLines, TypeOK, TypeOK', Good, ListReads, UNCHANGED faults
  PROVE  Good'
<1> DEFINE s(n) == SubSeq(toClient, 1, n)
<1>1. PICK n \in 1..Len(toClient) :
        /\ toClient[n].kind \in Ends
        /\ client' = IF LineEnd(s(n)) > 0 THEN "prompt" ELSE "list"
        /\ toClient' = After(toClient, n)
  BY DEF ListReads, Recv
<1>2. client = "list" /\ UNCHANGED <<cmd, need, out, said, spoiled, session, source, toServer, faults>>
  BY DEF ListReads, sessionVars
<1>3. toClient \in Seq(Tokens) /\ Len(toClient) \in Nat
  BY TypeParts, NoneLeft DEF StreamsOK
<1>4. SavedIsWhole'
  BY <1>2 DEF Good, SavedIsWhole
<1>5. cmd.op = "ls" /\ Heard /\ session # "sending" /\ Ended(toClient)
  <2>1. toClient # <<>>
    BY <1>3
  <2> QED
    BY <1>2, <2>1 DEF Good, Matched, InList, Asking, Calm
<1>6. s(n) \in Seq(Tokens) /\ Len(s(n)) = n /\ \A j \in 1..n : s(n)[j] = toClient[j]
  BY <1>3, FirstRule
<1> HIDE DEF s
<1>7. /\ toClient' \in Seq(Tokens) /\ Len(toClient') = Len(toClient) - n
      /\ \A j \in 1..(Len(toClient)-n) : toClient'[j] = toClient[n+j]
  <2>1. n \in 0..Len(toClient) /\ toClient' = After(toClient, n)
    BY <1>1, <1>3
  <2> QED
    BY <1>3, <2>1, AfterRule
<1>8. session = "gone" => "signal" \in faults
  BY <1>2 DEF Good, Matched
<1>9. /\ Len(toClient) >= 2 /\ toClient[Len(toClient)-1].kind = "cr" /\ toClient[Len(toClient)].kind = "nl"
      /\ \A j \in 1..(Len(toClient)-2) : toClient[j].kind # "cr"
  BY <1>5 DEF Ended, Word
<1>10. n # Len(toClient) - 1
  BY <1>1, <1>9 DEF InLines
<1>11. CASE n = Len(toClient)
  <2>1. toClient' = <<>>
    BY <1>3, <1>7, <1>11, NoneLeft
  <2>2. LineEnd(s(n)) = n - 1
    <3> DEFINE k == n - 1
    <3>1. k \in 1..(Len(s(n))-1) /\ k + 1 = n
      BY <1>3, <1>6, <1>9, <1>11
    <3>2. s(n)[k].kind = "cr" /\ s(n)[n].kind = "nl"
      BY <1>6, <1>9, <1>11, <3>1
    <3>3. \A j \in 1..(k-1) : s(n)[j].kind # "cr"
      BY <1>3, <1>6, <1>9, <1>11
    <3> HIDE DEF k
    <3>4. LineEnd(s(n)) = k
      BY <1>6, <3>1, <3>2, <3>3, LineEndRule
    <3> QED
      BY <3>4 DEF k
  <2>3. client' = "prompt"
    BY <1>1, <1>3, <1>9, <1>11, <2>2
  <2>4. Calm'
    BY <1>2, <1>5, <2>1 DEF Calm
  <2> QED
    BY <1>2, <1>4, <1>5, <1>8, <2>3, <2>4, PromptGood DEF Good
<1>12. CASE n \in 1..(Len(toClient)-2)
  <2>1. LineEnd(s(n)) = 0
    <3>1. \A j \in 1..n : s(n)[j].kind # "cr"
      BY <1>3, <1>6, <1>9, <1>12
    <3>2. /\ LineEnd(s(n)) \in 0..Len(s(n))
          /\ LineEnd(s(n)) > 0 => LineEnd(s(n)) \in 1..(Len(s(n))-1) /\ s(n)[LineEnd(s(n))].kind = "cr"
      BY <1>6, LineEndRule
    <3> QED
      BY <1>6, <3>1, <3>2
  <2>2. client' = "list"
    BY <1>1, <2>1
  <2>3. Ended(toClient')
    <3> DEFINE l == Len(toClient) - n
    <3>1. l >= 2 /\ l = Len(toClient') /\ n + l = Len(toClient) /\ n + (l-1) = Len(toClient) - 1 /\ l \in Nat
      BY <1>3, <1>7, <1>12
    <3>2. toClient'[l] = toClient[n+l] /\ toClient'[l-1] = toClient[n+(l-1)]
      <4>1. l \in 1..(Len(toClient)-n) /\ l - 1 \in 1..(Len(toClient)-n)
        BY <3>1
      <4> QED
        BY <1>7, <4>1
    <3>4. toClient'[l] = Word("nl") /\ toClient'[l-1] = Word("cr")
      BY <1>5, <3>1, <3>2 DEF Ended
    <3>3. \A j \in 1..(l-2) : toClient'[j].kind # "cr"
      <4>1. \A j \in 1..(l-2) : j \in 1..(Len(toClient)-n) /\ n + j \in 1..(Len(toClient)-2)
        BY <1>3, <3>1
      <4> QED
        BY <1>7, <1>9, <4>1
    <3> QED
      BY <3>1, <3>3, <3>4 DEF Ended
  <2>4. InList'
    BY <1>2, <1>5, <2>3 DEF InList, Heard, Ended
  <2> QED
    BY <1>2, <1>4, <1>8, <2>2, <2>4 DEF Good, Matched, AtPrompt, InHead, InBody
<1> QED
  BY <1>3, <1>10, <1>11, <1>12

\* Some of the file asked for is stored, and the rest of it is still to come.
Stored ==
  /\ cmd.name \in Files \ PathNames
  /\ UNCHANGED <<cmd, spoiled, session, source, toServer>>
  /\ need' = Size[cmd.name]
  /\ Follows(out', cmd.name, 0) /\ Coming(toClient', Len(out'))
  /\ IF Enough(out', need') THEN client' = "prompt" /\ Report(out', FALSE)
     ELSE client' = "body" /\ UNCHANGED said

\* Requests and answers stay matched when a part of the file is stored.
LEMMA StoredGood ==
  ASSUME TypeOK, TypeOK', Good, client # "done", Heard, Stored, UNCHANGED faults
  PROVE  Good'
<1> USE DEF Stored
<1> DEFINE f == cmd.name
<1>1. session = "gone" => "signal" \in faults
  BY DEF Good, Matched
<1>2. f \in Files /\ f \in Names /\ Size[f] \in Nat /\ f # None
  BY SizeType, TransferAssumption
<1>3. out' \in Seq(Tokens) /\ Len(out') \in Nat /\ toClient' \in Seq(Tokens) /\ Len(toClient') \in Nat
  BY TypeNext, NoneLeft DEF StreamsOK
<1>4. Len(out') <= Size[f] /\ Len(out') + Len(toClient') <= Size[f]
  BY <1>2, <1>3 DEF Follows, Coming
<1>5. CASE Enough(out', need')
  <2>1. Len(out') = Size[f] /\ Len(toClient') = 0
    BY <1>2, <1>3, <1>4, <1>5 DEF Enough
  <2>2. toClient' = <<>>
    BY <1>3, <2>1, NoneLeft
  <2>3. session = "sending" => source = f /\ Size[source] = 0
    BY <2>1 DEF Coming
  <2>4. Calm'
    BY <2>2, <2>3 DEF Calm
  <2>5. said' = [name |-> f, bytes |-> Len(out'), cut |-> FALSE]
    BY <1>5 DEF Report
  <2>6. SavedIsWhole'
    BY <2>1, <2>5 DEF SavedIsWhole
  <2> QED
    BY <1>1, <1>5, <2>4, <2>6, PromptGood DEF Good
<1>6. CASE ~Enough(out', need')
  <2>1. client' = "body" /\ UNCHANGED said
    BY <1>6
  <2>2. Len(out') < need'
    BY <1>2, <1>3, <1>6 DEF Enough
  <2>3. InBody'
    BY <2>2 DEF InBody, Heard, Follows, Coming
  <2>4. SavedIsWhole'
    BY <2>1 DEF Good, SavedIsWhole
  <2> QED
    BY <1>1, <2>1, <2>3, <2>4 DEF Good, Matched, AtPrompt, InList, InHead
<1> QED
  BY <1>5, <1>6

\* What the client makes of a recv that holds a header and some of the file: s is what it
\* returned, of a stream t.
HeaderTaken(f, t, s, number, data, rest) ==
  /\ s[1].kind # "error" /\ Find(s, "length") # 0
  /\ Length(number) = Size[f]
  /\ data \in Seq(Tokens)
  /\ Follows(data, f, 0) /\ Follows(rest, f, Len(data))
  /\ Len(After(t, Len(Header(f)))) = Len(data) + Len(rest)

\* The number is the size, and what follows its line is the beginning of the file.
LEMMA HeaderRead ==
  ASSUME NEW f \in Files, NEW t \in Seq(Tokens), NEW n \in 1..Len(t), t[n].kind \in {"nl", "data"},
         IsPrefix(Header(f), t), Follows(After(t, Len(Header(f))), f, 0)
  PROVE  \A s, number, data, rest :
           /\ s = SubSeq(t, 1, n) /\ number = After(s, Find(s, "length"))
           /\ data = FirstData(number) /\ rest = After(t, n)
           => HeaderTaken(f, t, s, number, data, rest)
<1> TAKE s, number, data, rest
<1> HAVE /\ s = SubSeq(t, 1, n) /\ number = After(s, Find(s, "length"))
         /\ data = FirstData(number) /\ rest = After(t, n)
<1> DEFINE g == Digits[Size[f]]
           d == Len(g)
           H == Header(f)
<1>1. Len(t) \in Nat /\ Size[f] \in Nat /\ Body(f) \in Seq(Tokens)
  BY SizeType, BodyRule
<1>2. /\ g \in Seq(Tokens) /\ d >= 1 /\ d \in Nat /\ g[d].at = Size[f]
      /\ \A j \in 1..d : g[j].kind = "digit"
  BY <1>1, DigitsRule
<1>3. /\ H \in Seq(Tokens) /\ Len(H) = d + 2 /\ H[1] = Word("length")
      /\ \A j \in 1..d : H[j+1] = g[j]
      /\ H[d+2] = Word("nl")
  BY HeaderRule
<1> HIDE DEF H, g, d
<1>4. Len(H) <= Len(t) /\ \A j \in 1..Len(H) : H[j] = t[j]
  BY <1>3, PrefixRule DEF H
<1>5. /\ t[1].kind = "length" /\ t[d+2].kind = "nl"
      /\ \A j \in 1..d : t[j+1] = g[j]
  <2>1. 1 \in 1..Len(H) /\ d + 2 \in 1..Len(H) /\ \A j \in 1..d : j + 1 \in 1..Len(H)
    BY <1>2, <1>3
  <2>2. t[1] = Word("length") /\ t[d+2] = Word("nl") /\ \A j \in 1..d : t[j+1] = g[j]
    BY <1>3, <1>4, <2>1
  <2> QED
    BY <2>2 DEF Word
<1>6. n >= d + 2
  <2>1. n # 1
    BY <1>5
  <2>2. ASSUME n \in 2..(d+1) PROVE FALSE
    <3>1. n - 1 \in 1..d /\ (n - 1) + 1 = n
      BY <2>2, <1>2
    <3>2. t[n] = g[n-1]
      BY <1>5, <3>1
    <3> QED
      BY <1>2, <3>1, <3>2
  <2> QED
    BY <1>1, <1>2, <2>1, <2>2
<1>7. n \in 0..Len(t) /\ d + 2 \in 0..Len(t) /\ n \in Nat
  BY <1>1, <1>2, <1>3, <1>4
<1>8. s \in Seq(Tokens) /\ Len(s) = n /\ \A j \in 1..n : s[j] = t[j]
  BY <1>7, FirstRule
<1>9. Find(s, "length") = 1
  <2>1. Len(s) \in Nat
    BY <1>7, <1>8
  <2>2. /\ Find(s, "length") \in 0..Len(s)
        /\ Find(s, "length") > 0 => \A j \in 1..Len(s) : s[j].kind = "length" => Find(s, "length") <= j
        /\ Find(s, "length") = 0 => \A j \in 1..Len(s) : s[j].kind # "length"
    BY <2>1, FindRule, ZenonT(60)
  <2>3. 1 \in 1..Len(s) /\ s[1] = t[1]
    BY <1>7, <1>8
  <2>4. s[1].kind = "length"
    BY <1>5, <2>3
  <2> DEFINE x == Find(s, "length")
  <2>5. /\ x \in 0..n
        /\ x > 0 => \A j \in 1..n : s[j].kind = "length" => x <= j
        /\ x = 0 => \A j \in 1..n : s[j].kind # "length"
    BY <1>8, <2>2
  <2>6. 1 \in 1..n
    BY <1>7
  <2> HIDE DEF x
  <2>7. x # 0
    BY <2>4, <2>5, <2>6
  <2>8. x <= 1
    BY <2>4, <2>5, <2>6, <2>7
  <2>9. x = 1
    BY <1>7, <2>5, <2>7, <2>8
  <2> QED
    BY <2>9 DEF x
<1>10. number \in Seq(Tokens) /\ Len(number) = n - 1 /\ \A j \in 1..(n-1) : number[j] = t[j+1]
  <2>1. 1 \in 0..Len(s) /\ number = After(s, 1)
    BY <1>7, <1>8, <1>9
  <2>2. /\ After(s, 1) \in Seq(Tokens) /\ Len(After(s, 1)) = Len(s) - 1
        /\ \A j \in 1..(Len(s)-1) : After(s, 1)[j] = s[1+j]
    BY <1>8, <2>1, AfterRule
  <2>3. \A j \in 1..(n-1) : j + 1 \in 1..n
    BY <1>7
  <2> QED
    BY <1>8, <2>1, <2>2, <2>3
<1>11. /\ \A j \in 1..d : number[j] = g[j]
       /\ number[d+1].kind = "nl"
  <2>1. d + 1 \in 1..(n-1) /\ \A j \in 1..d : j \in 1..(n-1)
    BY <1>2, <1>6, <1>7
  <2> QED
    BY <1>5, <1>10, <2>1, <1>2
<1>12. Length(number) = Size[f]
  <2>1. d \in 1..(Len(number)-1)
    BY <1>2, <1>6, <1>7, <1>10
  <2>2. (\A j \in 1..d : number[j].kind = "digit") /\ number[d+1].kind # "digit"
    BY <1>2, <1>11
  <2>3. Length(number) = number[d].at
    BY <1>10, <2>1, <2>2, LengthRule
  <2>4. d \in 1..d
    BY <1>2
  <2> QED
    BY <1>2, <1>11, <2>3, <2>4
<1>13. Find(number, "nl") = d + 1
  <2>1. /\ Find(number, "nl") \in 0..Len(number)
        /\ Find(number, "nl") > 0 => /\ number[Find(number, "nl")].kind = "nl"
                                     /\ \A j \in 1..Len(number) : number[j].kind = "nl" => Find(number, "nl") <= j
        /\ Find(number, "nl") = 0 => \A j \in 1..Len(number) : number[j].kind # "nl"
    BY <1>10, <1>7, FindRule
  <2>2. d + 1 \in 1..Len(number)
    BY <1>2, <1>6, <1>7, <1>10
  <2>3. \A j \in 1..d : number[j].kind # "nl"
    BY <1>2, <1>11
  <2> QED
    BY <1>2, <1>11, <2>1, <2>2, <2>3
<1>14. /\ data \in Seq(Tokens) /\ Len(data) = n - (d + 2)
       /\ \A j \in 1..(n-(d+2)) : data[j] = t[(d+2)+j]
  <2>1. d + 1 \in 0..Len(number) /\ data = After(number, d + 1)
    BY <1>2, <1>6, <1>7, <1>10, <1>13 DEF FirstData
  <2>2. /\ After(number, d + 1) \in Seq(Tokens) /\ Len(After(number, d + 1)) = Len(number) - (d + 1)
        /\ \A j \in 1..(Len(number)-(d+1)) : After(number, d + 1)[j] = number[(d+1)+j]
    BY <1>10, <2>1, AfterRule
  <2>3. \A j \in 1..(n-(d+2)) : (d+1)+j \in 1..(n-1) /\ ((d+1)+j)+1 = (d+2)+j
    BY <1>2, <1>6, <1>7
  <2>4. Len(number) - (d + 1) = n - (d + 2)
    BY <1>2, <1>7, <1>10
  <2>5. \A j \in 1..(n-(d+2)) : data[j] = number[(d+1)+j]
    BY <2>1, <2>2, <2>4
  <2>6. \A j \in 1..(n-(d+2)) : number[(d+1)+j] = t[(d+2)+j]
    <3>1. TAKE j \in 1..(n-(d+2))
    <3>2. number[(d+1)+j] = t[((d+1)+j)+1]
      BY <1>10, <2>3
    <3> QED
      BY <2>3, <3>2
  <2> QED
    BY <2>1, <2>2, <2>4, <2>5, <2>6
<1>15. /\ rest \in Seq(Tokens) /\ Len(rest) = Len(t) - n
       /\ \A j \in 1..(Len(t)-n) : rest[j] = t[n+j]
  BY <1>7, AfterRule
<1> DEFINE u == After(t, d + 2)
<1>16. /\ Len(u) = Len(t) - (d + 2)
       /\ \A j \in 1..(Len(t)-(d+2)) : u[j] = t[(d+2)+j]
  BY <1>7, AfterRule
<1>17. u = After(t, Len(Header(f))) /\ Follows(u, f, 0)
  BY <1>3 DEF H
<1> HIDE DEF u
<1>18. Len(t) - (d + 2) <= Size[f] /\ \A j \in 1..(Len(t)-(d+2)) : t[(d+2)+j] = Body(f)[j]
  BY <1>1, <1>7, <1>16, <1>17 DEF Follows
<1>19. Follows(data, f, 0)
  <2>1. \A j \in 1..(n-(d+2)) : j \in 1..(Len(t)-(d+2))
    BY <1>1, <1>2, <1>7
  <2>2. \A j \in 1..(n-(d+2)) : data[j] = Body(f)[j]
    BY <1>14, <1>18, <2>1
  <2> QED
    BY <1>1, <1>2, <1>6, <1>7, <1>14, <1>18, <2>2 DEF Follows
<1>20. Follows(rest, f, Len(data))
  <2>1. \A j \in 1..(Len(t)-n) : (n-(d+2)) + j \in 1..(Len(t)-(d+2)) /\ (d+2) + ((n-(d+2)) + j) = n + j
    BY <1>1, <1>2, <1>6, <1>7
  <2>2. \A j \in 1..(Len(t)-n) : rest[j] = Body(f)[(n-(d+2))+j]
    BY <1>15, <1>18, <2>1
  <2>3. (n-(d+2)) + (Len(t)-n) <= Size[f]
    BY <1>1, <1>2, <1>7, <1>18
  <2>4. Len(data) + Len(rest) <= Size[f]
    BY <1>14, <1>15, <2>3
  <2>5. \A j \in 1..Len(rest) : rest[j] = Body(f)[Len(data)+j]
    BY <1>14, <1>15, <2>2
  <2> QED
    BY <2>4, <2>5 DEF Follows
<1>21. Len(u) = Len(data) + Len(rest)
  <2>1. Len(u) = Len(t) - (d + 2) /\ Len(data) = n - (d + 2) /\ Len(rest) = Len(t) - n
    BY <1>14, <1>15, <1>16
  <2>2. Len(t) - (d + 2) = (n - (d + 2)) + (Len(t) - n)
    BY <1>1, <1>2, <1>7
  <2> QED
    BY <2>1, <2>2
<1>22. s[1].kind # "error"
  <2>1. s[1] = t[1]
    BY <1>7, <1>8
  <2> QED
    BY <1>5, <2>1
<1> QED
  BY <1>9, <1>12, <1>14, <1>17, <1>19, <1>20, <1>21, <1>22 DEF HeaderTaken

\* The answer to a get is taken for what it is.
LEMMA HeadReadsGood ==
  ASSUME InLines, TypeOK, TypeOK', Good, HeadReads, ~spoiled, ~spoiled', UNCHANGED faults
  PROVE  Good' /\ (cmd.name \in Files \ PathNames => Stored)
<1> DEFINE s(n) == SubSeq(toClient, 1, n)
           number(n) == After(s(n), Find(s(n), "length"))
           data(n) == FirstData(number(n))
           f == cmd.name
<1>1. PICK n \in 1..Len(toClient) :
        /\ toClient[n].kind \in Ends
        /\ toClient' = After(toClient, n)
        /\ IF s(n)[1].kind = "error" \/ Find(s(n), "length") = 0
           THEN client' = "prompt" /\ UNCHANGED <<need, out, said, spoiled>>
           ELSE /\ need' = Length(number(n))
                /\ \/ /\ Store(<<>>, data(n)) \/ (data(n) # <<>> /\ StoreFails(<<>>))
                      /\ IF Enough(out', need')
                         THEN client' = "prompt" /\ Report(out', FALSE)
                         ELSE client' = "body" /\ UNCHANGED said
                   \/ NotOpened
  BY DEF HeadReads, Recv
<1>2. client = "head" /\ UNCHANGED <<cmd, session, source, toServer, faults>>
  BY DEF HeadReads, sessionVars
<1>3. toClient \in Seq(Tokens) /\ Len(toClient) \in Nat
  BY TypeParts, NoneLeft DEF StreamsOK
<1>4. Heard /\ (Refused \/ Answered)
  <2>1. toClient # <<>>
    BY <1>3
  <2> QED
    BY <1>2, <2>1 DEF Good, Matched, InHead, Asking, Calm, Ignored
<1>5. session = "gone" => "signal" \in faults
  BY <1>2 DEF Good, Matched
<1>6. toClient[n].kind \in {"nl", "data"}
  BY <1>1 DEF InLines
<1>7. UNCHANGED spoiled
  BY TypeParts, TypeNext, Zenon DEF ClientOK
<1>8. s(n) = SubSeq(toClient, 1, n)
  OBVIOUS
<1>9. number(n) = After(s(n), Find(s(n), "length")) /\ data(n) = FirstData(number(n))
  OBVIOUS
<1> HIDE DEF s, number, data
<1>10. CASE Refused
  <2>1. session # "sending" /\ toClient = <<Word("error"), Word("cr"), Word("nl")>>
    BY <1>10, ErrorRule DEF Refused
  <2>2. n = 3 /\ Len(toClient) = 3
    BY <1>6, <2>1 DEF Word
  <2>3. s(n)[1].kind = "error"
    <3>1. s(n)[1] = toClient[1]
      BY <1>3, <1>8, <2>2
    <3> QED
      BY <2>1, <3>1 DEF Word
  <2>4. client' = "prompt" /\ UNCHANGED <<need, out, said>> /\ toClient' = After(toClient, n)
    BY <1>1, <2>3
  <2>5. toClient' = <<>>
    BY <1>3, <2>2, <2>4, AfterAll
  <2>6. Calm'
    BY <1>2, <2>1, <2>5 DEF Calm
  <2>7. SavedIsWhole'
    BY <1>7, <2>4 DEF Good, SavedIsWhole
  <2> QED
    BY <1>2, <1>4, <1>5, <1>10, <2>4, <2>6, <2>7, PromptGood DEF Good, Refused
<1>11. CASE Answered
  <2> DEFINE u == After(toClient, Len(Header(f)))
  <2>1. /\ f \in Files \ PathNames /\ IsPrefix(Header(f), toClient)
        /\ Follows(u, f, 0) /\ (session = "sending" => source = f /\ u = <<>>)
    BY <1>11 DEF Answered, Coming
  <2>2. toClient' = After(toClient, n)
    BY <1>1
  <2>3. /\ s(n)[1].kind # "error" /\ Find(s(n), "length") # 0
        /\ Length(number(n)) = Size[f]
        /\ data(n) \in Seq(Tokens)
        /\ Follows(data(n), f, 0) /\ Follows(toClient', f, Len(data(n)))
        /\ Len(u) = Len(data(n)) + Len(toClient')
    <3> DEFINE a == s(n)
               b == number(n)
               c == data(n)
               r == After(toClient, n)
    <3>1. a = SubSeq(toClient, 1, n) /\ b = After(a, Find(a, "length")) /\ c = FirstData(b) /\ r = After(toClient, n)
      BY <1>8, <1>9
    <3>2. /\ f \in Files /\ IsPrefix(Header(f), toClient)
          /\ Follows(After(toClient, Len(Header(f))), f, 0)
          /\ n \in 1..Len(toClient)
      BY <1>1, <2>1
    <3> HIDE DEF a, b, c, r, f
    <3>3. /\ a[1].kind # "error" /\ Find(a, "length") # 0
          /\ Length(b) = Size[f]
          /\ c \in Seq(Tokens)
          /\ Follows(c, f, 0) /\ Follows(r, f, Len(c))
          /\ Len(After(toClient, Len(Header(f)))) = Len(c) + Len(r)
      <4> DEFINE t == toClient
      <4>1. t \in Seq(Tokens) /\ n \in 1..Len(t) /\ t[n].kind \in {"nl", "data"}
        BY <1>3, <1>6
      <4>2. IsPrefix(Header(f), t) /\ Follows(After(t, Len(Header(f))), f, 0) /\ f \in Files
        BY <3>2
      <4>3. /\ a = SubSeq(t, 1, n) /\ b = After(a, Find(a, "length"))
            /\ c = FirstData(b) /\ r = After(t, n)
        BY <3>1
      <4> HIDE DEF t
      <4>4. \A s1, number1, data1, rest1 :
              /\ s1 = SubSeq(t, 1, n) /\ number1 = After(s1, Find(s1, "length"))
              /\ data1 = FirstData(number1) /\ rest1 = After(t, n)
              => HeaderTaken(f, t, s1, number1, data1, rest1)
        BY <4>1, <4>2, HeaderRead, Zenon
      <4>5. HeaderTaken(f, t, a, b, c, r)
        BY <4>3, <4>4, Zenon
      <4> QED
        BY <4>5 DEF t, HeaderTaken
    <3> QED
      BY <2>2, <3>3 DEF a, b, c, r, f
  <2>4. /\ need' = Size[f] /\ Store(<<>>, data(n))
        /\ IF Enough(out', need') THEN client' = "prompt" /\ Report(out', FALSE)
           ELSE client' = "body" /\ UNCHANGED said
    BY <1>1, <2>3 DEF StoreFails, NotOpened
  <2>5. out' = data(n)
    BY <2>3, <2>4, JoinNone DEF Store
  <2>6. Coming(toClient', Len(out'))
    <3>1. ASSUME session = "sending" PROVE toClient' = <<>> /\ Len(out') = 0
      <4>1. Len(u) = 0
        BY <2>1, <3>1
      <4>2. toClient' \in Seq(Tokens) /\ Len(toClient') \in Nat /\ Len(data(n)) \in Nat
        BY <2>3, TypeNext, NoneLeft DEF StreamsOK
      <4>3. Len(data(n)) = 0 /\ Len(toClient') = 0
        BY <2>3, <4>1, <4>2
      <4> QED
        BY <2>5, <4>2, <4>3, NoneLeft
    <3> QED
      BY <2>1, <2>3, <2>5, <3>1 DEF Coming
  <2>7. Stored
    BY <1>2, <1>7, <2>1, <2>3, <2>4, <2>5, <2>6 DEF Stored
  <2> QED
    BY <1>2, <1>4, <2>7, StoredGood
<1> QED
  BY <1>4, <1>10, <1>11

\* The loop reads what is left of the file and no more.
LEMMA BodyReadsGood ==
  ASSUME TypeOK, TypeOK', Good, BodyReads, ~spoiled, ~spoiled', UNCHANGED faults
  PROVE  Good' /\ Stored
<1> DEFINE s(n) == SubSeq(toClient, 1, n)
           f == cmd.name
<1>1. PICK n \in 1..Len(toClient) :
        /\ toClient' = After(toClient, n)
        /\ \/ /\ Store(out, s(n))
              /\ IF Enough(out', need)
                 THEN client' = "prompt" /\ Report(out', FALSE)
                 ELSE client' = "body" /\ UNCHANGED said
           \/ StoreFails(out) /\ client' = "prompt" /\ Report(out, TRUE)
  BY DEF BodyReads
<1>2. client = "body" /\ UNCHANGED <<cmd, need, session, source, toServer, faults>>
  BY DEF BodyReads, sessionVars
<1>3. /\ toClient \in Seq(Tokens) /\ Len(toClient) \in Nat
      /\ out \in Seq(Tokens) /\ Len(out) \in Nat
      /\ toClient' \in Seq(Tokens)
  BY TypeParts, TypeNext, NoneLeft DEF StreamsOK
<1>4. /\ Heard /\ f \in Files \ PathNames /\ need = Size[f]
      /\ Follows(out, f, 0) /\ Coming(toClient, Len(out))
  BY <1>2 DEF Good, Matched, InBody
<1>5. UNCHANGED spoiled
  BY TypeParts, TypeNext, Zenon DEF ClientOK
<1>6. /\ Store(out, s(n))
      /\ IF Enough(out', need') THEN client' = "prompt" /\ Report(out', FALSE)
         ELSE client' = "body" /\ UNCHANGED said
  BY <1>1, <1>2 DEF StoreFails
<1>7. s(n) \in Seq(Tokens) /\ Len(s(n)) = n /\ \A j \in 1..n : s(n)[j] = toClient[j]
  BY <1>3, FirstRule
<1> DEFINE p == s(n)
<1>8. p \in Seq(Tokens) /\ Len(p) = n /\ (\A j \in 1..n : p[j] = toClient[j]) /\ out' = out \o p
  BY <1>6, <1>7 DEF Store
<1> HIDE DEF s, p
<1>9. /\ Len(out') = Len(out) + n
      /\ \A j \in 1..Len(out) : out'[j] = out[j]
      /\ \A j \in 1..n : out'[Len(out)+j] = toClient[j]
  <2>1. /\ Len(out \o p) = Len(out) + Len(p)
        /\ \A j \in 1..Len(out) : (out \o p)[j] = out[j]
        /\ \A j \in 1..Len(p) : (out \o p)[Len(out)+j] = p[j]
    BY <1>3, <1>8, JoinRule
  <2> QED
    BY <1>8, <2>1
<1>10. /\ Len(toClient') = Len(toClient) - n
       /\ \A j \in 1..(Len(toClient)-n) : toClient'[j] = toClient[n+j]
  <2>1. n \in 0..Len(toClient) /\ toClient' = After(toClient, n)
    BY <1>1, <1>3
  <2> QED
    BY <1>3, <2>1, AfterRule
<1>11. /\ Size[f] \in Nat /\ Len(out) + Len(toClient) <= Size[f]
       /\ \A j \in 1..Len(out) : out[j] = Body(f)[j]
       /\ \A j \in 1..Len(toClient) : toClient[j] = Body(f)[Len(out)+j]
  <2>1. Size[f] \in Nat
    BY <1>4, SizeType
  <2>2. \A j \in 1..Len(out) : out[j] = Body(f)[0+j] /\ 0 + j = j
    BY <1>3, <1>4 DEF Follows
  <2>3. \A j \in 1..Len(out) : out[j] = Body(f)[j]
    BY <2>2
  <2> QED
    BY <1>4, <2>1, <2>3 DEF Coming, Follows
<1>12. Follows(out', f, 0)
  <2>1. Len(out') <= Size[f]
    BY <1>3, <1>9, <1>11
  <2>2. ASSUME NEW j \in 1..Len(out') PROVE out'[j] = Body(f)[j]
    <3>1. CASE j \in 1..Len(out)
      BY <1>9, <1>11, <3>1
    <3>2. CASE j \notin 1..Len(out)
      <4>1. j - Len(out) \in 1..n /\ j - Len(out) \in 1..Len(toClient) /\ Len(out) + (j - Len(out)) = j
        BY <1>3, <1>9, <3>2
      <4>2. out'[Len(out) + (j - Len(out))] = Body(f)[Len(out) + (j - Len(out))]
        BY <1>9, <1>11, <4>1
      <4> QED
        BY <4>1, <4>2
    <3> QED
      BY <3>1, <3>2
  <2>3. \A j \in 1..Len(out') : 0 + j = j
    OBVIOUS
  <2>4. 0 + Len(out') <= Size[f]
    BY <1>3, <1>9, <2>1
  <2> QED
    BY <2>2, <2>3, <2>4 DEF Follows
<1>13. Follows(toClient', f, Len(out'))
  <2>1. Len(out') + Len(toClient') <= Size[f]
    BY <1>3, <1>9, <1>10, <1>11
  <2>2. \A j \in 1..(Len(toClient)-n) : n + j \in 1..Len(toClient) /\ Len(out) + (n + j) = (Len(out) + n) + j
    BY <1>3
  <2>3. \A j \in 1..(Len(toClient)-n) : toClient'[j] = Body(f)[(Len(out)+n)+j]
    BY <1>10, <1>11, <2>2
  <2>4. \A j \in 1..Len(toClient') : toClient'[j] = Body(f)[Len(out')+j]
    BY <1>9, <1>10, <2>3
  <2> QED
    BY <2>1, <2>4 DEF Follows
<1>14. session # "sending"
  <2>1. toClient # <<>>
    BY <1>3
  <2> QED
    BY <1>4, <2>1 DEF Coming
<1>15. Coming(toClient', Len(out'))
  BY <1>13, <1>14 DEF Coming
<1>16. Stored
  BY <1>2, <1>4, <1>5, <1>6, <1>12, <1>15 DEF Stored
<1> QED
  BY <1>2, <1>4, <1>16, StoredGood

-----------------------------------------------------------------------------
(***************************************************************************)
(* The invariant.                                                          *)
(***************************************************************************)
LEMMA InitGood == Init => Good /\ ~spoiled
<1> SUFFICES ASSUME Init PROVE Good /\ ~spoiled
  OBVIOUS
<1>1. Calm /\ Chat(toServer)
  BY DEF Init, Calm, Chat
<1>2. SavedIsWhole
  BY DEF Init, Nothing, SavedIsWhole
<1>3. ~spoiled
  BY Zenon DEF Init
<1> QED
  BY <1>1, <1>2, <1>3 DEF Init, Good, Matched, AtPrompt, InList, InHead, InBody

LEMMA NextType == TypeOK /\ Next => TypeOK'
BY SessionReadsType, TransmitType, SessionEndsType, TypeType, LeaveType, ListReadsType,
   HeadReadsType, BodyReadsType, RecvFailsType
   DEF Next, SessionRuns, ClientReads

\* A local write that failed has failed for good, and needs its cause.
LEMMA SpoiledStays ==
  ASSUME Next
  PROVE  UNCHANGED faults /\ (UNCHANGED spoiled \/ (spoiled' /\ "disk" \in faults))
<1>1. CASE SessionReads \/ Transmit \/ SessionEnds \/ Type \/ Leave \/ ListReads \/ RecvFails
  BY <1>1 DEF Next, SessionReads, Transmit, SessionEnds, Type, Leave, ListReads, RecvFails, clientVars
<1>2. CASE HeadReads
  BY <1>2 DEF Next, HeadReads, Store, StoreFails, NotOpened
<1>3. CASE BodyReads
  BY <1>3 DEF Next, BodyReads, Store, StoreFails
<1> QED
  BY <1>1, <1>2, <1>3 DEF Next, SessionRuns, ClientReads

LEMMA NextGood ==
  ASSUME InLines, TypeOK, TypeOK', Good, ~spoiled, ~spoiled', Next
  PROVE  Good'
<1>1. UNCHANGED faults
  BY SpoiledStays
<1> QED
  BY <1>1, SessionReadsGood, TransmitGood, SessionEndsGood, TypeGood, LeaveGood,
     ListReadsGood, HeadReadsGood, BodyReadsGood, RecvFailsGood
     DEF Next, SessionRuns, ClientReads

LEMMA TransferParts ==
  /\ TransferInv <=> TypeOK /\ (spoiled => "disk" \in faults) /\ (~spoiled => Good)
  /\ TransferInv' <=> TypeOK' /\ (spoiled' => "disk" \in faults') /\ (~spoiled' => Good')
BY DEF TransferInv, Good

\* The invariant is inductive.
LEMMA TransferStep ==
  InLines /\ TransferInv /\ [Next]_vars => TransferInv'
<1> SUFFICES ASSUME InLines, TransferInv, [Next]_vars PROVE TransferInv'
  OBVIOUS
<1>1. CASE Next
  <2>1. TypeOK /\ TypeOK'
    BY <1>1, NextType, TransferParts
  <2>2. UNCHANGED faults /\ (UNCHANGED spoiled \/ (spoiled' /\ "disk" \in faults))
    BY <1>1, SpoiledStays
  <2>3. ~spoiled' => Good'
    BY <1>1, <2>1, <2>2, NextGood, TransferParts
  <2> QED
    BY <2>1, <2>2, <2>3, TransferParts
<1>2. CASE UNCHANGED vars
  <2>1. UNCHANGED <<client, cmd, need, out, said, typed, session, source, toServer, toClient, spoiled, faults>>
    BY <1>2 DEF vars, clientVars, sessionVars
  <2> QED
    BY <2>1 DEF TransferInv, TypeOK, Matched, SavedIsWhole, AtPrompt, InList, InHead, InBody, Calm,
                Asking, Asked, Heard, Ended, Follows, Coming, Refused, Ignored, Answered, Chat
<1> QED
  BY <1>1, <1>2

\* With lines that arrive whole, requests and answers stay matched for any files, sizes,
\* commands, pieces of a stream and failures.
THEOREM TransferAlways == InLines /\ Spec => []TransferInv
<1>1. InLines /\ Init => TransferInv
  BY InitType, InitGood, TransferParts
<1>2. InLines /\ TransferInv /\ [Next]_vars => TransferInv'
  BY TransferStep
<1>3. InLines <=> InLines'
  BY DEF InLines
<1> QED
  BY <1>1, <1>2, <1>3, PTL DEF Spec

\* At a prompt, when the session has answered all that was sent to it, no byte of an answer is
\* left for the next command to read.
THEOREM InStep == InLines /\ Spec => []InSync
<1>1. TransferInv => InSync
  BY TransferParts DEF Good, Matched, AtPrompt, Calm, InSync
<1> QED
  BY <1>1, TransferAlways, PTL

\* What follows the first none of a file is a prefix of it.
LEMMA FollowsIsPrefix ==
  ASSUME NEW f \in Files, NEW s \in Seq(Tokens), Follows(s, f, 0)
  PROVE  /\ IsPrefix(s, Body(f))
         /\ Len(s) >= Size[f] => s = Body(f)
<1>1. Size[f] \in Nat /\ Body(f) \in Seq(Tokens) /\ Len(Body(f)) = Size[f] /\ Len(s) \in Nat
  BY SizeType, BodyRule, NoneLeft
<1>2. \A j \in 1..Len(s) : s[j] = Body(f)[j]
  <2>1. \A j \in 1..Len(s) : 0 + j = j
    OBVIOUS
  <2> QED
    BY <2>1 DEF Follows
<1>3. Len(s) <= Size[f]
  BY <1>1 DEF Follows
<1>4. IsPrefix(s, Body(f))
  BY <1>1, <1>2, <1>3, PrefixRule
<1>5. ASSUME Len(s) >= Size[f] PROVE s = Body(f)
  <2>1. Len(s) = Len(Body(f))
    BY <1>1, <1>3, <1>5
  <2> QED
    BY <1>1, <1>2, <2>1, SameSeq
<1> QED
  BY <1>4, <1>5

\* Under InLines, what write_all has put into the local file is a beginning of the file asked
\* for, and all of it when the client says so.  InLines is a condition on the stream and the
\* names: a recv ends at a line end or in the data of a file, and no name has the letters ls.
\* TCP does not promise it; without it a header cut in its digits (fileserve.c:306) saves
\* other bytes, as the run transfer_split_header shows.
THEOREM SavedAlways == InLines /\ Spec => []SavedRight
<1>1. TransferInv => SavedRight
  <2> SUFFICES ASSUME TransferInv PROVE SavedRight
    OBVIOUS
  <2>1. SavedIsWhole
    BY TransferParts DEF Good, SavedIsWhole
  <2>2. ASSUME client = "body", ~spoiled PROVE IsPrefix(out, Body(cmd.name))
    <3>1. cmd.name \in Files /\ Follows(out, cmd.name, 0)
      BY <2>2, TransferParts DEF Good, Matched, InBody
    <3>2. out \in Seq(Tokens)
      BY TransferParts, TypeParts DEF StreamsOK
    <3> QED
      BY <3>1, <3>2, FollowsIsPrefix
  <2> QED
    BY <2>1, <2>2 DEF SavedRight, SavedIsPrefix
<1> QED
  BY <1>1, TransferAlways, PTL

\* Under InLines, the same condition on the stream and the names, and where no call fails, a
\* get does not return to the prompt before the local file is the file.  InLines leaves out the
\* cut header with which transfer_split_header breaks this.
THEOREM GetsFile == InLines /\ Spec => GetGetsFile
<1> DEFINE A == faults = {} /\ cmd.name \in Files \ PathNames /\ client \in {"head", "body"} /\ client' = "prompt"
                  => said.name' = cmd.name /\ out' = Body(cmd.name)
<1>1. ASSUME InLines, TransferInv, TransferInv', Next PROVE A
  <2> SUFFICES ASSUME faults = {}, cmd.name \in Files \ PathNames,
                      client \in {"head", "body"}, client' = "prompt"
               PROVE  said.name' = cmd.name /\ out' = Body(cmd.name)
    OBVIOUS
  <2>1. UNCHANGED faults /\ (UNCHANGED spoiled \/ (spoiled' /\ "disk" \in faults))
    BY <1>1, SpoiledStays
  <2>2. TypeOK /\ TypeOK' /\ Good /\ ~spoiled /\ ~spoiled'
    BY <1>1, <2>1, TransferParts
  <2>3. session # "gone"
    BY <2>2 DEF Good, Matched
  <2>4. HeadReads \/ BodyReads
    <3>1. ~SessionReads /\ ~Transmit /\ ~SessionEnds /\ ~Type /\ ~Leave /\ ~ListReads
      BY DEF SessionReads, Transmit, SessionEnds, Type, Leave, ListReads, clientVars
    <3>2. ~RecvFails
      BY <2>3 DEF RecvFails
    <3> QED
      BY <1>1, <3>1, <3>2 DEF Next, SessionRuns, ClientReads
  <2>5. Stored
    BY <1>1, <2>1, <2>2, <2>4, HeadReadsGood, BodyReadsGood
  <2>6. /\ Size[cmd.name] \in Nat /\ out' \in Seq(Tokens) /\ Len(out') \in Nat
        /\ Follows(out', cmd.name, 0) /\ cmd.name \in Files
    BY <2>2, <2>5, SizeType, TypeNext, NoneLeft DEF StreamsOK, Stored
  <2>7. Enough(out', Size[cmd.name]) /\ Report(out', FALSE)
    BY <2>5 DEF Stored
  <2>8. out' = Body(cmd.name)
    BY <2>6, <2>7, FollowsIsPrefix DEF Enough
  <2>9. said'.name = cmd.name
    BY <2>7 DEF Report
  <2> QED
    BY <2>8, <2>9
<1>2. InLines /\ TransferInv /\ TransferInv' /\ [Next]_vars => [A]_vars
  BY <1>1
<1>3. GetGetsFile <=> [][A]_vars
  BY PTL DEF GetGetsFile
<1>4. InLines <=> InLines'
  BY DEF InLines
<1> QED
  BY <1>2, <1>3, <1>4, TransferAlways, PTL DEF Spec

-----------------------------------------------------------------------------
(***************************************************************************)
(* The cipher: deciphering inverts enciphering if the two tables are       *)
(* inverse to each other.                                                  *)
(***************************************************************************)
\* The operators on bits stay among blocks and halves.
LEMMA Types ==
  /\ \A b \in Blocks : permute(b, Initial) \in Blocks /\ permute(b, Final) \in Blocks
  /\ \A b \in Blocks : Lower(b) \in Halves /\ Upper(b) \in Halves
  /\ \A a, b \in Halves : Joined(a, b) \in Blocks
  /\ \A a, b : bit_xor(a, b) \in Halves
  /\ \A r, k : Mixed(r, k) \in Halves
<1>1. \A b \in Blocks : permute(b, Initial) \in Blocks /\ permute(b, Final) \in Blocks
  BY CipherAssumption DEF Blocks, permute, Places
<1>2. \A p \in HalfPlaces : p \in Places /\ p + Half \in Places
  BY CipherAssumption DEF Places, HalfPlaces
<1>3. \A b \in Blocks : Lower(b) \in Halves /\ Upper(b) \in Halves
  BY <1>2 DEF Blocks, Halves, Lower, Upper
<1>4. \A p \in Places : p <= Half \/ p - Half \in HalfPlaces
  BY CipherAssumption DEF Places, HalfPlaces
<1>5. \A p \in Places : p <= Half => p \in HalfPlaces
  BY CipherAssumption DEF Places, HalfPlaces
<1>6. \A a, b \in Halves : Joined(a, b) \in Blocks
  BY <1>4, <1>5 DEF Blocks, Halves, Joined
<1>7. \A a, b : bit_xor(a, b) \in Halves
  BY DEF Halves, bit_xor, Bits
<1>8. \A r, k : Mixed(r, k) \in Halves
  BY DEF Halves, Mixed, Bits
<1> QED
  BY <1>1, <1>3, <1>6, <1>7, <1>8

\* The same bits twice cancel.
LEMMA XorTwice ==
  ASSUME NEW a \in Halves, NEW b \in Halves
  PROVE  bit_xor(bit_xor(a, b), b) = a
<1>1. \A p \in HalfPlaces : a[p] \in Bits /\ b[p] \in Bits
  BY DEF Halves
<1>2. \A p \in HalfPlaces : bit_xor(bit_xor(a, b), b)[p] = a[p]
  BY <1>1 DEF bit_xor, Bits
<1>3. bit_xor(bit_xor(a, b), b) \in Halves
  BY Types
<1> QED
  BY <1>2, <1>3 DEF Halves

\* Taking apart what was joined.
LEMMA SplitJoined ==
  ASSUME NEW a \in Halves, NEW b \in Halves
  PROVE  Lower(Joined(a, b)) = a /\ Upper(Joined(a, b)) = b
<1>1. \A p \in HalfPlaces :
        /\ p \in Places /\ p + Half \in Places /\ p <= Half
        /\ ~(p + Half <= Half) /\ (p + Half) - Half = p
  BY CipherAssumption DEF Places, HalfPlaces
<1>2. /\ \A p \in HalfPlaces : Lower(Joined(a, b))[p] = a[p]
      /\ \A p \in HalfPlaces : Upper(Joined(a, b))[p] = b[p]
  BY <1>1 DEF Lower, Upper, Joined
<1>3. Lower(Joined(a, b)) \in Halves /\ Upper(Joined(a, b)) \in Halves
  BY Types
<1> QED
  BY <1>2, <1>3 DEF Halves

\* Joining what was taken apart.
LEMMA JoinSplit ==
  ASSUME NEW b \in Blocks
  PROVE  Joined(Lower(b), Upper(b)) = b
<1>1. \A p \in Places : p <= Half => p \in HalfPlaces
  BY CipherAssumption DEF Places, HalfPlaces
<1>2. \A p \in Places : ~(p <= Half) => p - Half \in HalfPlaces /\ (p - Half) + Half = p
  BY CipherAssumption DEF Places, HalfPlaces
<1>3. \A p \in Places : Joined(Lower(b), Upper(b))[p] = b[p]
  BY <1>1, <1>2 DEF Joined, Lower, Upper
<1>4. Joined(Lower(b), Upper(b)) \in Blocks
  BY Types
<1> QED
  BY <1>3, <1>4 DEF Blocks

\* The tables undo each other.
LEMMA TablesInverse ==
  ASSUME NEW b \in Blocks
  PROVE  /\ permute(permute(b, Initial), Final) = b
         /\ permute(permute(b, Final), Initial) = b
<1>1. \A p \in Places : Initial[p] \in Places /\ Final[p] \in Places
  BY CipherAssumption
<1>2. \A p \in Places : permute(permute(b, Initial), Final)[p] = b[p]
  BY <1>1, TablesAssumption DEF permute
<1>3. \A p \in Places : permute(permute(b, Final), Initial)[p] = b[p]
  BY <1>1, TablesAssumption DEF permute
<1>4. /\ permute(permute(b, Initial), Final) \in Blocks
      /\ permute(permute(b, Final), Initial) \in Blocks
  BY Types
<1> QED
  BY <1>2, <1>3, <1>4 DEF Blocks

-----------------------------------------------------------------------------
\* The invariant holds at the start.
LEMMA InitInv == CipherInit => CipherInv
<1> SUFFICES ASSUME CipherInit PROVE CipherInv
  OBVIOUS
<1>1. Zero \in Halves
  BY DEF Zero, Halves, Bits
<1>2. <<>> \in Seq([l : Halves, r : Halves])
  OBVIOUS
<1>3. CipherTypeOK
  BY <1>1, <1>2, CipherAssumption DEF CipherInit, CipherTypeOK
<1> QED
  BY <1>3 DEF CipherInit, CipherInv, TrailRight, OnTrail, Restored

\* Halves that are taken from a block.
LEMMA Started ==
  ASSUME NEW b \in Blocks, Start(b)
  PROVE  /\ left' \in Halves /\ right' \in Halves
         /\ left' = Lower(permute(b, Initial)) /\ right' = Upper(permute(b, Initial))
BY Types DEF Start

LEMMA EncipherInv == CipherInv /\ Encipher => CipherInv'
<1> SUFFICES ASSUME CipherInv, Encipher PROVE CipherInv'
  OBVIOUS
<1> USE DEF CipherInv
<1>1. text \in Blocks
  BY CipherAssumption DEF CipherTypeOK
<1>2. Start(text)
  BY DEF Encipher
<1>3. /\ left' \in Halves /\ right' \in Halves
      /\ left' = Lower(permute(text, Initial)) /\ right' = Upper(permute(text, Initial))
  BY <1>1, <1>2, Started
<1>4. i' = 0 /\ text' = text /\ key' = key /\ target' = target /\ pc' = "enc"
  BY <1>2 DEF Encipher, Start
<1>5. /\ trail' \in Seq([l : Halves, r : Halves]) /\ Len(trail') = 1
      /\ trail'[1].l = left' /\ trail'[1].r = right'
  BY <1>3 DEF Encipher
<1>6. CipherTypeOK'
  BY <1>3, <1>4, <1>5, CipherAssumption DEF CipherTypeOK
<1>7. TrailRight'
  BY <1>3, <1>4, <1>5 DEF TrailRight
<1>8. OnTrail' /\ Restored'
  BY <1>4, <1>5 DEF OnTrail, Restored
<1> QED
  BY <1>6, <1>7, <1>8

\* Halves taken from the text enciphered are the last ones of the trail, exchanged.
LEMMA DecipherInv == CipherInv /\ Decipher => CipherInv'
<1> SUFFICES ASSUME CipherInv, Decipher PROVE CipherInv'
  OBVIOUS
<1> USE DEF CipherInv
<1> DEFINE last == trail[Rounds+1]
<1>1. Start(target) /\ pc = "cipher" /\ pc' = "dec" /\ trail' = trail
  BY DEF Decipher
<1>2. i' = 0 /\ text' = text /\ key' = key /\ target' = target
  BY <1>1 DEF Start
<1>3. /\ left' \in Halves /\ right' \in Halves
      /\ left' = Lower(permute(target, Initial)) /\ right' = Upper(permute(target, Initial))
  BY <1>1, Started DEF CipherTypeOK
<1>4. last \in [l : Halves, r : Halves]
  <2>1. trail \in Seq([l : Halves, r : Halves]) /\ Rounds + 1 \in 1..Len(trail)
    BY <1>1, CipherAssumption DEF CipherTypeOK, TrailRight
  <2> QED
    BY <2>1, Element, Zenon
<1>5. Joined(last.r, last.l) \in Blocks
  BY <1>4, Types
<1>6. permute(target, Initial) = Joined(last.r, last.l)
  BY <1>1, <1>5, TablesInverse DEF OnTrail
<1>7. left' = last.r /\ right' = last.l
  <2>1. last.r \in Halves /\ last.l \in Halves
    BY <1>4
  <2>2. Lower(Joined(last.r, last.l)) = last.r /\ Upper(Joined(last.r, last.l)) = last.l
    BY <2>1, SplitJoined
  <2> QED
    BY <1>3, <1>6, <2>2
<1>8. CipherTypeOK'
  BY <1>1, <1>2, <1>3, CipherAssumption DEF CipherTypeOK
<1>9. TrailRight'
  BY <1>1, <1>2 DEF TrailRight
<1>10. OnTrail' /\ Restored'
  BY <1>1, <1>2, <1>7, CipherAssumption DEF OnTrail, Restored
<1> QED
  BY <1>8, <1>9, <1>10

\* A round of the first pass lengthens the trail by one.
LEMMA RoundEnc == CipherInv /\ Round /\ pc = "enc" => CipherInv'
<1> SUFFICES ASSUME CipherInv, Round, pc = "enc" PROVE CipherInv'
  OBVIOUS
<1> USE DEF CipherInv
<1>1. /\ i < Rounds /\ i' = i + 1 /\ pc' = "enc"
      /\ left' = right /\ right' = bit_xor(left, Mixed(right, Schedule[key][i+1]))
      /\ trail' = Append(trail, [l |-> left', r |-> right'])
      /\ text' = text /\ key' = key /\ target' = target
  BY DEF Round, Subkey
<1>2. left' \in Halves /\ right' \in Halves
  BY <1>1, Types DEF CipherTypeOK
<1>3. i' \in 0..Rounds /\ i \in Nat
  BY <1>1, CipherAssumption DEF CipherTypeOK
<1>4. Len(trail) = i + 1 /\ trail \in Seq([l : Halves, r : Halves])
  BY DEF CipherTypeOK, TrailRight
<1>5. /\ trail' \in Seq([l : Halves, r : Halves]) /\ Len(trail') = i + 2
      /\ trail'[i+2] = [l |-> left', r |-> right']
      /\ \A j \in 1..(i+1) : trail'[j] = trail[j]
  BY <1>1, <1>2, <1>3, <1>4
<1>6. CipherTypeOK'
  BY <1>1, <1>2, <1>3, <1>5 DEF CipherTypeOK
<1>7. \A j \in 1..(i+1) :
        /\ trail'[j+1].l = trail'[j].r
        /\ trail'[j+1].r = bit_xor(trail'[j].l, Mixed(trail'[j].r, Schedule[key][j]))
  <2> SUFFICES ASSUME NEW j \in 1..(i+1)
               PROVE  /\ trail'[j+1].l = trail'[j].r
                      /\ trail'[j+1].r = bit_xor(trail'[j].l, Mixed(trail'[j].r, Schedule[key][j]))
    OBVIOUS
  <2>1. CASE j = i + 1
    <3>1. trail[i+1].l = left /\ trail[i+1].r = right
      BY DEF OnTrail
    <3> QED
      BY <2>1, <3>1, <1>1, <1>3, <1>5
  <2>2. CASE j < i + 1
    <3>1. j \in 1..(Len(trail)-1) /\ j + 1 \in 1..(i+1)
      BY <2>2, <1>3, <1>4
    <3> QED
      BY <3>1, <1>5 DEF TrailRight
  <2> QED
    BY <2>1, <2>2, <1>3
<1>8. TrailRight'
  BY <1>1, <1>3, <1>4, <1>5, <1>7 DEF TrailRight
<1>9. OnTrail' /\ Restored'
  BY <1>1, <1>3, <1>5 DEF OnTrail, Restored
<1> QED
  BY <1>6, <1>8, <1>9

\* A round of the second pass goes one back along it.
LEMMA RoundDec == CipherInv /\ Round /\ pc = "dec" => CipherInv'
<1> SUFFICES ASSUME CipherInv, Round, pc = "dec" PROVE CipherInv'
  OBVIOUS
<1> USE DEF CipherInv
<1> DEFINE j == Rounds - i
<1>1. /\ i < Rounds /\ i' = i + 1 /\ pc' = "dec"
      /\ left' = right /\ right' = bit_xor(left, Mixed(right, Schedule[key][j]))
      /\ trail' = trail /\ text' = text /\ key' = key /\ target' = target
  BY DEF Round, Subkey
<1>2. left' \in Halves /\ right' \in Halves
  BY <1>1, Types DEF CipherTypeOK
<1>3. /\ i' \in 0..Rounds /\ j \in 1..Rounds /\ i \in Nat /\ Rounds \in Nat
      /\ Rounds + 1 - i = j + 1 /\ Rounds + 1 - i' = j
  BY <1>1, CipherAssumption DEF CipherTypeOK
<1>4. Len(trail) = Rounds + 1 /\ trail \in Seq([l : Halves, r : Halves])
  BY <1>1 DEF CipherTypeOK, TrailRight
<1>5. trail[j] \in [l : Halves, r : Halves] /\ trail[j+1] \in [l : Halves, r : Halves]
  <2>1. j \in 1..Len(trail) /\ j + 1 \in 1..Len(trail)
    BY <1>3, <1>4
  <2> QED
    BY <1>4, <2>1, Element, Zenon
<1> HIDE DEF j
<1>6. left = trail[j+1].r /\ right = trail[j+1].l
  BY <1>1, <1>3 DEF OnTrail
<1>7. /\ trail[j+1].l = trail[j].r
      /\ trail[j+1].r = bit_xor(trail[j].l, Mixed(trail[j].r, Schedule[key][j]))
  BY <1>1, <1>3, <1>4 DEF TrailRight
<1>8. right' = bit_xor(bit_xor(trail[j].l, Mixed(trail[j].r, Schedule[key][j])),
                       Mixed(trail[j].r, Schedule[key][j]))
  BY <1>1, <1>6, <1>7
<1>9. right' = trail[j].l
  <2> DEFINE a == trail[j].l
             b == Mixed(trail[j].r, Schedule[key][j])
  <2>1. a \in Halves /\ b \in Halves /\ right' = bit_xor(bit_xor(a, b), b)
    BY <1>5, <1>8, Types
  <2> HIDE DEF a, b
  <2>2. right' = a
    BY <2>1, XorTwice
  <2> QED
    BY <2>2 DEF a
<1>10. left' = trail[j].r
  BY <1>1, <1>6, <1>7
<1>11. CipherTypeOK'
  BY <1>1, <1>2, <1>3 DEF CipherTypeOK
<1>12. TrailRight'
  BY <1>1 DEF TrailRight
<1>13. OnTrail' /\ Restored'
  BY <1>1, <1>3, <1>9, <1>10 DEF OnTrail, Restored
<1> QED
  BY <1>11, <1>12, <1>13

\* The end of a pass: the trail's end, or its beginning, from which the text comes back.
LEMMA FinishInv == CipherInv /\ Finish => CipherInv'
<1> SUFFICES ASSUME CipherInv, Finish PROVE CipherInv'
  OBVIOUS
<1> USE DEF CipherInv
<1>1. /\ pc \in {"enc", "dec"} /\ i = Rounds
      /\ pc' = IF pc = "enc" THEN "cipher" ELSE "plain"
      /\ target' = permute(Joined(right, left), Final)
      /\ text' = text /\ key' = key /\ left' = left /\ right' = right /\ i' = i /\ trail' = trail
  BY DEF Finish
<1>2. target' \in Blocks
  BY <1>1, Types DEF CipherTypeOK
<1>3. CipherTypeOK'
  BY <1>1, <1>2 DEF CipherTypeOK
<1>4. TrailRight'
  BY <1>1 DEF TrailRight
<1>5. pc' = "cipher" => target' = permute(Joined(trail[Rounds+1].r, trail[Rounds+1].l), Final)
  BY <1>1 DEF OnTrail
<1>6. OnTrail'
  BY <1>1, <1>5 DEF OnTrail
<1>7. ASSUME pc' = "plain" PROVE target' = text'
  <2>1. pc = "dec"
    BY <1>1, <1>7
  <2>2. Rounds + 1 - i = 1
    BY <1>1, CipherAssumption
  <2>3. left = trail[1].r /\ right = trail[1].l
    BY <2>1, <2>2 DEF OnTrail
  <2>4. right = Lower(permute(text, Initial)) /\ left = Upper(permute(text, Initial))
    BY <2>1, <2>3 DEF TrailRight
  <2>5. text \in Blocks /\ permute(text, Initial) \in Blocks
    BY CipherAssumption, Types DEF CipherTypeOK
  <2>6. Joined(right, left) = permute(text, Initial)
    BY <2>4, <2>5, JoinSplit
  <2> QED
    BY <1>1, <2>5, <2>6, TablesInverse
<1>8. Restored'
  BY <1>7 DEF Restored
<1> QED
  BY <1>3, <1>4, <1>6, <1>8

\* The inductive invariant: the second pass goes back along the trail of the first.
THEOREM Passes == CipherSpec => []CipherInv
<1>1. CipherInit => CipherInv
  BY InitInv
<1>2. CipherInv /\ [CipherNext]_cipherVars => CipherInv'
  <2> SUFFICES ASSUME CipherInv, [CipherNext]_cipherVars PROVE CipherInv'
    OBVIOUS
  <2>1. CASE Encipher
    BY <2>1, EncipherInv
  <2>2. CASE Decipher
    BY <2>2, DecipherInv
  <2>3. CASE Round
    BY <2>3, RoundEnc, RoundDec DEF Round
  <2>4. CASE Finish
    BY <2>4, FinishInv
  <2>5. CASE UNCHANGED cipherVars
    BY <2>5 DEF cipherVars, CipherInv, CipherTypeOK, TrailRight, OnTrail, Restored
  <2> QED
    BY <2>1, <2>2, <2>3, <2>4, <2>5 DEF CipherNext
<1> QED
  BY <1>1, <1>2, PTL DEF CipherSpec

\* A block that was enciphered and deciphered with one key is the block it was.
THEOREM Deciphered == CipherSpec => []Restored
<1>1. CipherInv => Restored
  BY DEF CipherInv
<1> QED
  BY <1>1, Passes, PTL

-----------------------------------------------------------------------------
(***************************************************************************)
(* Files that are enciphered and deciphered (CipherFile), for blocks of    *)
(* any width and texts of any length, any files, keys and failures.        *)
(***************************************************************************)
CONSTANTS Plain, Width, MaxByte, MaxRuns
VARIABLES fpc, input, output, fkey, rest, position, disk, kind, faulty, ftext, origin, runs

Fil == INSTANCE CipherFile WITH pc <- fpc, key <- fkey, text <- ftext

\* The bytes in k blocks.
InBlocks(k) == k * Width

LEMMA BlocksRule ==
  ASSUME Fil!CipherFileAssumption
  PROVE  /\ InBlocks(0) = 0
         /\ \A k \in Nat : InBlocks(k) \in Nat /\ InBlocks(k + 1) = InBlocks(k) + Width
         /\ \A k, m \in Nat : k <= m => InBlocks(k) <= InBlocks(m)
<1>0. Width \in Nat /\ Width >= 1
  BY DEF Fil!CipherFileAssumption
<1>1. InBlocks(0) = 0
  BY <1>0 DEF InBlocks
<1>2. ASSUME NEW k \in Nat PROVE InBlocks(k) \in Nat /\ InBlocks(k + 1) = InBlocks(k) + Width
  BY <1>0 DEF InBlocks
<1>3. ASSUME NEW k \in Nat, NEW m \in Nat, k <= m PROVE InBlocks(k) <= InBlocks(m)
  <2> DEFINE d == m - k
  <2>1. d \in Nat /\ m = k + d
    BY <1>3
  <2>2. d * Width \in Nat
    BY <1>0, <2>1
  <2> HIDE DEF d
  <2>3. m * Width = k * Width + d * Width
    BY <1>0, <2>1
  <2>4. k * Width \in Nat
    BY <1>0
  <2> QED
    BY <2>2, <2>3, <2>4 DEF InBlocks
<1> QED
  BY <1>1, <1>2, <1>3

\* The whole blocks of a length, and whether any byte is left over.
LEMMA WholeBlocks ==
  ASSUME Fil!CipherFileAssumption, NEW k \in Nat, NEW n \in Nat,
         InBlocks(k) <= n, n < InBlocks(k + 1)
  PROVE  n \div Width = k /\ (n % Width = 0 <=> n = InBlocks(k))
<1>0. Width \in Nat /\ Width >= 1
  BY DEF Fil!CipherFileAssumption
<1> DEFINE q == n \div Width
           r == n % Width
<1>1. q \in Nat /\ r \in 0..(Width - 1) /\ n = q * Width + r
  BY <1>0
<1> HIDE DEF q, r
<1>2. n = InBlocks(q) + r /\ InBlocks(q + 1) = InBlocks(q) + Width /\ InBlocks(q) \in Nat
  BY <1>1, BlocksRule DEF InBlocks
<1>3. InBlocks(q) <= n /\ n < InBlocks(q + 1)
  BY <1>0, <1>1, <1>2
<1>4. ~(q + 1 <= k) /\ ~(k + 1 <= q)
  <2>1. q + 1 \in Nat /\ k + 1 \in Nat /\ InBlocks(k) \in Nat /\ InBlocks(k + 1) \in Nat /\ InBlocks(q + 1) \in Nat
    BY <1>1, BlocksRule
  <2>2. q + 1 <= k => InBlocks(q + 1) <= InBlocks(k)
    BY <2>1, BlocksRule
  <2>3. k + 1 <= q => InBlocks(k + 1) <= InBlocks(q)
    BY <1>1, <2>1, BlocksRule
  <2> QED
    BY <1>2, <1>3, <2>1, <2>2, <2>3
<1>5. q = k
  BY <1>1, <1>4
<1> QED
  BY <1>1, <1>2, <1>5 DEF q, r

\* Block j of a text: its bytes, and behind them how many there are too few.
BlockOf(t, j) ==
  [p \in 1..Width |-> IF InBlocks(j - 1) + p <= Len(t) THEN t[InBlocks(j - 1) + p] ELSE InBlocks(j) - Len(t)]

BlocksOf(t, k, m) == [j \in 1..m |-> [key |-> k, block |-> BlockOf(t, j)]]

\* A text as it is enciphered: one block more than it fills.
CipherOf(s, t, k) ==
  /\ s \in Seq(Fil!Enciphered) /\ Len(s) >= 1 /\ s = BlocksOf(t, k, Len(s))
  /\ InBlocks(Len(s) - 1) <= Len(t) /\ Len(t) < InBlocks(Len(s))

Held(k) == IF k = "plain" THEN Fil!Bytes ELSE Fil!Enciphered

FileTypes ==
  /\ fpc \in {"shell", "enc", "dec"} /\ input \in Names /\ output \in Names /\ fkey \in Keys
  /\ position \in Nat /\ kind \in [Names -> {"plain", "cipher"}]
  /\ disk = [n \in Names |-> disk[n]] /\ origin = [n \in Names |-> origin[n]]
  /\ \A n \in Names : disk[n] # NoFile => disk[n] \in Seq(Held(kind[n]))

\* While the program runs, its output is of its kind, and not known for what it was.
RunTypes ==
  fpc # "shell" =>
    /\ kind[output] = IF fpc = "enc" THEN "cipher" ELSE "plain"
    /\ disk[output] \in Seq(Held(kind[output])) /\ origin[output] = NoFile
    /\ rest \in Seq(IF fpc = "enc" THEN Fil!Bytes ELSE Fil!Enciphered)

\* A file that was made from a text without a failure is that text, enciphered.
Made ==
  \A n \in Names : origin[n] # NoFile =>
    origin[n] \in [text : Seq(Fil!Bytes), key : Keys] /\ CipherOf(disk[n], origin[n].text, origin[n].key)

\* So much of a text is enciphered: whole blocks, or all of it.
PartEnciphered(m) ==
  /\ m = Len(disk[output]) /\ disk[output] = BlocksOf(ftext, fkey, m)
  /\ position <= Len(ftext) /\ rest = SubSeq(ftext, position + 1, Len(ftext))
  /\ InBlocks(m) = position
     \/ (m >= 1 /\ position = Len(ftext) /\ InBlocks(m - 1) < position /\ position < InBlocks(m))

\* So much is deciphered.
PartDeciphered(k) ==
  /\ CipherOf(disk[input], ftext, fkey) /\ k <= Len(disk[input])
  /\ position = InBlocks(k) /\ rest = SubSeq(disk[input], k + 1, Len(disk[input]))
  /\ disk[output] = SubSeq(ftext, 1, IF k = Len(disk[input]) THEN Len(ftext) ELSE InBlocks(k))

Doing ==
  ftext # NoFile /\ ~faulty =>
    /\ ftext \in Seq(Fil!Bytes)
    /\ fpc # "shell" => input # output
    /\ fpc = "enc" => \E m \in Nat : PartEnciphered(m)
    /\ fpc = "dec" => \E k \in Nat : PartDeciphered(k)
    /\ fpc = "shell" /\ origin[output] = NoFile => disk[output] = ftext

FilesInv == FileTypes /\ RunTypes /\ Made /\ Doing

LEMMA FirstPart ==
  ASSUME NEW S, NEW s \in Seq(S), NEW n \in 0..Len(s)
  PROVE  /\ SubSeq(s, 1, n) \in Seq(S) /\ Len(SubSeq(s, 1, n)) = n
         /\ \A p \in 1..n : SubSeq(s, 1, n)[p] = s[p]
OBVIOUS

LEMMA LastPart ==
  ASSUME NEW S, NEW s \in Seq(S), NEW n \in 0..Len(s)
  PROVE  /\ SubSeq(s, n + 1, Len(s)) \in Seq(S) /\ Len(SubSeq(s, n + 1, Len(s))) = Len(s) - n
         /\ \A p \in 1..(Len(s) - n) : SubSeq(s, n + 1, Len(s))[p] = s[n + p]
OBVIOUS

LEMMA Joining ==
  ASSUME NEW S, NEW s \in Seq(S), NEW t \in Seq(S)
  PROVE  /\ s \o t \in Seq(S) /\ Len(s \o t) = Len(s) + Len(t)
         /\ \A p \in 1..Len(s) : (s \o t)[p] = s[p]
         /\ \A p \in 1..Len(t) : (s \o t)[Len(s) + p] = t[p]
OBVIOUS

LEMMA SameSequence ==
  ASSUME NEW S, NEW s \in Seq(S), NEW t \in Seq(S), Len(s) = Len(t), \A p \in 1..Len(s) : s[p] = t[p]
  PROVE  s = t
OBVIOUS

\* What is left when n more are taken off what is left.
LEMMA PartOfLast ==
  ASSUME NEW S, NEW s \in Seq(S), NEW n \in 0..Len(s), NEW m \in 0..(Len(s) - n),
         NEW r, r = SubSeq(s, n + 1, Len(s))
  PROVE  SubSeq(r, m + 1, Len(r)) = SubSeq(s, (n + m) + 1, Len(s))
<1>0. Len(s) \in Nat /\ n \in Nat /\ m \in Nat /\ n + m \in 0..Len(s)
  OBVIOUS
<1>1. r \in Seq(S) /\ Len(r) = Len(s) - n /\ \A p \in 1..(Len(s) - n) : r[p] = s[n + p]
  BY LastPart
<1> DEFINE a == SubSeq(r, m + 1, Len(r))
           b == SubSeq(s, (n + m) + 1, Len(s))
<1>2. a \in Seq(S) /\ Len(a) = Len(r) - m /\ \A p \in 1..(Len(r) - m) : a[p] = r[m + p]
  <2>1. m \in 0..Len(r)
    BY <1>0, <1>1
  <2> QED
    BY <1>1, <2>1, LastPart
<1>3. b \in Seq(S) /\ Len(b) = Len(s) - (n + m) /\ \A p \in 1..(Len(s) - (n + m)) : b[p] = s[(n + m) + p]
  BY <1>0, LastPart
<1> HIDE DEF a, b
<1>4. Len(a) = Len(b) /\ Len(a) = Len(s) - (n + m)
  BY <1>0, <1>1, <1>2, <1>3
<1>5. ASSUME NEW p \in 1..Len(a) PROVE a[p] = b[p]
  <2>0. Len(r) = Len(s) - n /\ Len(a) = Len(s) - (n + m)
    BY <1>1, <1>4
  <2>1. p \in 1..(Len(r) - m) /\ m + p \in 1..(Len(s) - n) /\ p \in 1..(Len(s) - (n + m)) /\ n + (m + p) = (n + m) + p
    BY ONLY <1>0, <1>5, <2>0
  <2>2. a[p] = r[m + p]
    BY <1>2, <2>1
  <2>3. r[m + p] = s[n + (m + p)]
    BY <1>1, <2>1
  <2>4. b[p] = s[(n + m) + p]
    BY <1>3, <2>1
  <2> QED
    BY <2>1, <2>2, <2>3, <2>4
<1> QED
  BY <1>2, <1>3, <1>4, <1>5, SameSequence DEF a, b

LEMMA BlockTypes ==
  ASSUME Fil!CipherFileAssumption
  PROVE  /\ \A b \in Fil!Block : b \in Seq(Fil!Bytes) /\ Len(b) = Width /\ b[Width] \in Fil!Bytes
         /\ \A c \in Seq(Fil!Bytes) : Len(c) <= Width => Fil!Padded(c) \in Fil!Block
<1>0. Width \in Nat /\ Width >= 1 /\ MaxByte \in Nat /\ MaxByte >= Width
  BY DEF Fil!CipherFileAssumption
<1>1. ASSUME NEW b \in Fil!Block PROVE b \in Seq(Fil!Bytes) /\ Len(b) = Width /\ b[Width] \in Fil!Bytes
  BY <1>0 DEF Fil!Block
<1>2. ASSUME NEW c \in Seq(Fil!Bytes), Len(c) <= Width PROVE Fil!Padded(c) \in Fil!Block
  <2>1. Len(c) \in Nat /\ Width - Len(c) \in Fil!Bytes
    BY <1>0, <1>2 DEF Fil!Bytes
  <2>2. ASSUME NEW p \in 1..Width PROVE (IF p <= Len(c) THEN c[p] ELSE Width - Len(c)) \in Fil!Bytes
    BY <1>0, <2>1
  <2> QED
    BY <2>2 DEF Fil!Padded, Fil!Block
<1> QED
  BY <1>1, <1>2

\* The block that is enciphered next is the next block of the text.
LEMMA NextBlock ==
  ASSUME Fil!CipherFileAssumption, NEW t \in Seq(Fil!Bytes), NEW m \in Nat, InBlocks(m) <= Len(t),
         NEW r, r = SubSeq(t, InBlocks(m) + 1, Len(t)),
         NEW n \in Nat, n = IF Len(r) < Width THEN Len(r) ELSE Width
  PROVE  Fil!Padded(SubSeq(r, 1, n)) = BlockOf(t, m + 1)
<1>0. Width \in Nat /\ Width >= 1
  BY DEF Fil!CipherFileAssumption
<1>1. InBlocks(m) \in Nat /\ InBlocks(m + 1) = InBlocks(m) + Width
  BY BlocksRule
<1> DEFINE l == InBlocks(m)
           c == SubSeq(r, 1, n)
<1>2. r \in Seq(Fil!Bytes) /\ Len(r) = Len(t) - l /\ \A p \in 1..(Len(t) - l) : r[p] = t[l + p]
  <2>1. l \in 0..Len(t)
    BY <1>1
  <2> QED
    BY <2>1, LastPart
<1>3. c \in Seq(Fil!Bytes) /\ Len(c) = n /\ \A p \in 1..n : c[p] = r[p]
  <2>1. n \in 0..Len(r)
    BY <1>0, <1>2
  <2> QED
    BY <1>2, <2>1, FirstPart
<1>4. BlockOf(t, m + 1) = [p \in 1..Width |-> IF l + p <= Len(t) THEN t[l + p] ELSE (l + Width) - Len(t)]
  <2>1. (m + 1) - 1 = m
    OBVIOUS
  <2> QED
    BY <1>1, <2>1 DEF BlockOf
<1> HIDE DEF l, c
<1>5. ASSUME NEW p \in 1..Width
      PROVE  (IF p <= Len(c) THEN c[p] ELSE Width - Len(c))
               = (IF l + p <= Len(t) THEN t[l + p] ELSE (l + Width) - Len(t))
  <2>0. Len(t) \in Nat /\ l \in Nat /\ l <= Len(t) /\ p \in Nat /\ p >= 1 /\ p <= Width
    BY <1>1 DEF l
  <2> DEFINE d == Len(t) - l
  <2>9. d \in Nat /\ Len(t) = l + d /\ Len(r) = d
    BY <1>2, <2>0
  <2> HIDE DEF d
  <2>8. n = IF d < Width THEN d ELSE Width
    BY <2>9
  <2>6. n \in Nat
    OBVIOUS
  <2>7. p <= n <=> p <= d
    BY ONLY <1>0, <2>0, <2>6, <2>8, <2>9
  <2>1. p <= n <=> l + p <= Len(t)
    BY ONLY <2>0, <2>6, <2>7, <2>9
  <2>2. CASE p <= n
    <3>1. p \in 1..n /\ p \in 1..(Len(t) - l) /\ l + p <= Len(t)
      BY ONLY <2>0, <2>1, <2>2, <2>6, <2>9
    <3>2. c[p] = t[l + p]
      BY <1>2, <1>3, <3>1
    <3>3. p <= Len(c)
      BY <1>3, <2>2
    <3> QED
      BY ONLY <3>1, <3>2, <3>3
  <2>3. CASE ~(p <= n)
    <3>1. n = Len(t) - l /\ ~(l + p <= Len(t))
      BY ONLY <1>0, <2>0, <2>1, <2>3, <2>6, <2>7, <2>8, <2>9
    <3>2. Width - n = (l + Width) - Len(t)
      BY ONLY <1>0, <2>0, <2>6, <3>1
    <3>3. Len(c) = n /\ p \in Nat /\ n \in Nat
      BY <1>3, <2>0
    <3>4. ~(p <= Len(c))
      BY ONLY <2>3, <3>3
    <3>5. Width - Len(c) = (l + Width) - Len(t)
      BY ONLY <3>2, <3>3
    <3> QED
      BY ONLY <3>1, <3>4, <3>5
  <2> QED
    BY <2>2, <2>3
<1>6. Fil!Padded(c) = [p \in 1..Width |-> IF p <= Len(c) THEN c[p] ELSE Width - Len(c)]
  BY DEF Fil!Padded
<1>7. Fil!Padded(c) = BlockOf(t, m + 1)
  BY ONLY <1>4, <1>5, <1>6
<1> QED
  BY <1>7 DEF c

\* Behind a text that fills its blocks comes a block of padding.
LEMMA PaddingBlock ==
  ASSUME Fil!CipherFileAssumption, NEW t \in Seq(Fil!Bytes), NEW m \in Nat, InBlocks(m) = Len(t)
  PROVE  Fil!Padded(<<>>) = BlockOf(t, m + 1)
<1>0. Width \in Nat /\ Width >= 1
  BY DEF Fil!CipherFileAssumption
<1>1. InBlocks(m) \in Nat /\ InBlocks(m + 1) = InBlocks(m) + Width /\ (m + 1) - 1 = m
  BY BlocksRule
<1>2. BlockOf(t, m + 1) = [p \in 1..Width |-> Width]
  BY <1>0, <1>1 DEF BlockOf
<1>3. Fil!Padded(<<>>) = [p \in 1..Width |-> Width]
  BY <1>0 DEF Fil!Padded
<1> QED
  BY <1>2, <1>3

WithBlock(s, k, b) == s \o <<[key |-> k, block |-> b]>>

\* One more block is one more of the blocks.
LEMMA OneMore ==
  ASSUME NEW t, NEW k \in Keys, NEW m \in Nat, NEW b, b = BlockOf(t, m + 1), b \in Fil!Block,
         NEW s \in Seq(Fil!Enciphered), s = BlocksOf(t, k, m), Len(s) = m
  PROVE  /\ WithBlock(s, k, b) = BlocksOf(t, k, m + 1)
         /\ WithBlock(s, k, b) \in Seq(Fil!Enciphered) /\ Len(WithBlock(s, k, b)) = m + 1
<1> DEFINE x == [key |-> k, block |-> b]
           u == s \o <<x>>
           v == BlocksOf(t, k, m + 1)
<1>1. x \in Fil!Enciphered
  BY DEF Fil!Enciphered
<1> HIDE DEF x
<1>2. <<x>> \in Seq(Fil!Enciphered) /\ Len(<<x>>) = 1 /\ <<x>>[1] = x
  BY <1>1
<1>3. /\ u \in Seq(Fil!Enciphered) /\ Len(u) = m + 1
      /\ \A p \in 1..m : u[p] = s[p]
      /\ u[m + 1] = x
  BY <1>1, <1>2, Joining
<1>4. \A p \in 1..m : s[p] = [key |-> k, block |-> BlockOf(t, p)]
  BY DEF BlocksOf
<1>5. v = [p \in 1..(m + 1) |-> [key |-> k, block |-> BlockOf(t, p)]]
  BY DEF BlocksOf
<1> HIDE DEF u, v
<1>6. ASSUME NEW p \in 1..(m + 1) PROVE u[p] = [key |-> k, block |-> BlockOf(t, p)]
  <2>1. p \in 1..m \/ p = m + 1
    OBVIOUS
  <2> QED
    BY <1>3, <1>4, <2>1 DEF x
<1>7. u = [p \in 1..(m + 1) |-> u[p]]
  BY <1>3
<1> QED
  BY <1>3, <1>5, <1>6, <1>7 DEF u, v, x, WithBlock

LEMMA MiddleBlock ==
  ASSUME Fil!CipherFileAssumption, NEW t \in Seq(Fil!Bytes), NEW m \in Nat, InBlocks(m + 1) <= Len(t)
  PROVE  /\ BlockOf(t, m + 1) \in Fil!Block
         /\ SubSeq(t, 1, InBlocks(m)) \o BlockOf(t, m + 1) = SubSeq(t, 1, InBlocks(m + 1))
<1>0. Width \in Nat /\ Width >= 1
  BY DEF Fil!CipherFileAssumption
<1>1. InBlocks(m) \in Nat /\ InBlocks(m + 1) = InBlocks(m) + Width /\ (m + 1) - 1 = m /\ Len(t) \in Nat
  <2>1. Len(t) \in Nat
    OBVIOUS
  <2>2. InBlocks(m) \in Nat /\ InBlocks(m + 1) = InBlocks(m) + Width
    BY BlocksRule
  <2>3. (m + 1) - 1 = m
    OBVIOUS
  <2> QED
    BY <2>1, <2>2, <2>3
<1> DEFINE l == InBlocks(m)
           b == BlockOf(t, m + 1)
           a == SubSeq(t, 1, l)
           c == SubSeq(t, 1, l + Width)
<1>2. b = [p \in 1..Width |-> IF l + p <= Len(t) THEN t[l + p] ELSE InBlocks(m + 1) - Len(t)]
  BY <1>1 DEF BlockOf
<1> HIDE DEF l, b
<1>3. ASSUME NEW p \in 1..Width PROVE b[p] = t[l + p] /\ l + p \in 1..Len(t)
  <2>1. p \in Nat /\ p >= 1 /\ p <= Width
    BY <1>0
  <2>2. l + p <= Len(t) /\ l + p \in 1..Len(t)
    BY <1>0, <1>1, <2>1 DEF l
  <2> QED
    BY <1>2, <2>2
<1>4. b \in Fil!Block
  <2>1. \A p \in 1..Width : t[l + p] \in Fil!Bytes
    BY <1>3
  <2> QED
    BY <1>2, <1>3, <2>1 DEF Fil!Block
<1>5. b \in Seq(Fil!Bytes) /\ Len(b) = Width
  BY <1>4, BlockTypes
<1>6. a \in Seq(Fil!Bytes) /\ Len(a) = l /\ \A p \in 1..l : a[p] = t[p]
  <2>1. l \in 0..Len(t)
    BY <1>0, <1>1 DEF l
  <2> QED
    BY <2>1, FirstPart
<1>7. c \in Seq(Fil!Bytes) /\ Len(c) = l + Width /\ \A p \in 1..(l + Width) : c[p] = t[p]
  <2>1. l + Width \in 0..Len(t)
    BY <1>0, <1>1 DEF l
  <2> QED
    BY <2>1, FirstPart
<1> HIDE DEF a, c
<1>8. /\ a \o b \in Seq(Fil!Bytes) /\ Len(a \o b) = l + Width
      /\ \A p \in 1..l : (a \o b)[p] = a[p]
      /\ \A p \in 1..Width : (a \o b)[l + p] = b[p]
  <2>1. a \o b \in Seq(Fil!Bytes) /\ Len(a \o b) = Len(a) + Len(b)
    BY <1>5, <1>6, Joining
  <2>2. \A p \in 1..Len(a) : (a \o b)[p] = a[p]
    BY <1>5, <1>6, Joining
  <2>3. \A p \in 1..Len(b) : (a \o b)[Len(a) + p] = b[p]
    BY <1>5, <1>6, Joining
  <2> QED
    BY <1>5, <1>6, <2>1, <2>2, <2>3
<1>9. ASSUME NEW p \in 1..(l + Width) PROVE (a \o b)[p] = c[p]
  <2>1. l \in Nat
    BY <1>1 DEF l
  <2>2. CASE p <= l
    <3>1. p \in 1..l
      BY <2>1, <2>2
    <3> QED
      BY <1>6, <1>7, <1>8, <3>1
  <2>3. CASE ~(p <= l)
    <3> DEFINE d == p - l
    <3>1. d \in 1..Width /\ p = l + d
      BY <1>0, <2>1, <2>3
    <3> HIDE DEF d
    <3>2. (a \o b)[l + d] = t[l + d]
      BY <1>3, <1>8, <3>1
    <3>3. c[p] = t[p]
      BY <1>7
    <3> QED
      BY <3>1, <3>2, <3>3
  <2> QED
    BY <2>2, <2>3
<1>10. a \o b = c
  BY <1>7, <1>8, <1>9, SameSequence
<1> QED
  BY <1>1, <1>4, <1>10 DEF l, b, a, c

\* The last block says how many of its bytes are padding; the others end the text.
LEMMA LastBlock ==
  ASSUME Fil!CipherFileAssumption, NEW t \in Seq(Fil!Bytes), NEW m \in Nat,
         InBlocks(m) <= Len(t), Len(t) < InBlocks(m + 1)
  PROVE  /\ BlockOf(t, m + 1) \in Fil!Block
         /\ BlockOf(t, m + 1)[Width] \in 1..Width
         /\ SubSeq(t, 1, InBlocks(m)) \o Fil!Unpadded(BlockOf(t, m + 1)) = t
<1>0. Width \in Nat /\ Width >= 1 /\ MaxByte \in Nat /\ MaxByte >= Width
  BY DEF Fil!CipherFileAssumption
<1>1. InBlocks(m) \in Nat /\ InBlocks(m + 1) = InBlocks(m) + Width /\ (m + 1) - 1 = m /\ Len(t) \in Nat
  BY BlocksRule
<1> DEFINE l == InBlocks(m)
           b == BlockOf(t, m + 1)
           a == SubSeq(t, 1, l)
           n == Len(t) - l
           e == SubSeq(b, 1, n)
<1>2. b = [p \in 1..Width |-> IF l + p <= Len(t) THEN t[l + p] ELSE (l + Width) - Len(t)]
  BY <1>1 DEF BlockOf
<1>3. /\ l \in Nat /\ n \in Nat /\ n < Width /\ Len(t) = l + n /\ Width - n \in 1..Width /\ Width - n \in Fil!Bytes
      /\ (l + Width) - Len(t) = Width - n /\ Width - (Width - n) = n
  BY <1>0, <1>1 DEF Fil!Bytes
<1> HIDE DEF l, b, n
<1>4. ASSUME NEW p \in 1..n PROVE p \in 1..Width /\ b[p] = t[l + p] /\ l + p \in 1..Len(t)
  <2>1. p \in 1..Width /\ l + p \in 1..Len(t) /\ l + p <= Len(t)
    BY <1>0, <1>3
  <2> QED
    BY <1>2, <2>1
<1>5. ASSUME NEW p \in 1..Width, ~(p <= n) PROVE b[p] = Width - n
  <2>1. ~(l + p <= Len(t))
    BY <1>0, <1>3, <1>5
  <2> QED
    BY <1>2, <1>3, <2>1
<1>6. b \in Fil!Block
  <2>1. ASSUME NEW p \in 1..Width PROVE b[p] \in Fil!Bytes
    <3>1. CASE p <= n
      <4>1. p \in 1..n
        BY <1>3, <3>1
      <4> QED
        BY <1>4, <4>1
    <3>2. CASE ~(p <= n)
      BY <1>3, <1>5, <3>2
    <3> QED
      BY <3>1, <3>2
  <2> QED
    BY <1>2, <2>1 DEF Fil!Block
<1>7. b \in Seq(Fil!Bytes) /\ Len(b) = Width
  BY <1>6, BlockTypes
<1>8. b[Width] = Width - n
  <2>1. Width \in 1..Width /\ ~(Width <= n)
    BY <1>0, <1>3
  <2> QED
    BY <1>5, <2>1
<1>9. e \in Seq(Fil!Bytes) /\ Len(e) = n /\ \A p \in 1..n : e[p] = b[p]
  <2>1. n \in 0..Len(b)
    BY <1>0, <1>3, <1>7
  <2> QED
    BY <1>7, <2>1, FirstPart
<1>10. a \in Seq(Fil!Bytes) /\ Len(a) = l /\ \A p \in 1..l : a[p] = t[p]
  <2>1. l \in 0..Len(t)
    BY <1>3
  <2> QED
    BY <2>1, FirstPart
<1> HIDE DEF a, e
<1>11. /\ a \o e \in Seq(Fil!Bytes) /\ Len(a \o e) = l + n
       /\ \A p \in 1..l : (a \o e)[p] = a[p]
       /\ \A p \in 1..n : (a \o e)[l + p] = e[p]
  <2>1. a \o e \in Seq(Fil!Bytes) /\ Len(a \o e) = Len(a) + Len(e)
    BY <1>9, <1>10, Joining
  <2>2. \A p \in 1..Len(a) : (a \o e)[p] = a[p]
    BY <1>9, <1>10, Joining
  <2>3. \A p \in 1..Len(e) : (a \o e)[Len(a) + p] = e[p]
    BY <1>9, <1>10, Joining
  <2> QED
    BY <1>9, <1>10, <2>1, <2>2, <2>3
<1>12. ASSUME NEW p \in 1..(l + n) PROVE (a \o e)[p] = t[p]
  <2>1. CASE p <= l
    <3>1. p \in 1..l
      BY <1>3, <2>1
    <3> QED
      BY <1>10, <1>11, <3>1
  <2>2. CASE ~(p <= l)
    <3> DEFINE d == p - l
    <3>1. d \in 1..n /\ p = l + d
      BY <1>3, <2>2
    <3> HIDE DEF d
    <3>2. (a \o e)[l + d] = t[l + d]
      BY <1>4, <1>9, <1>11, <3>1
    <3> QED
      BY <3>1, <3>2
  <2> QED
    BY <2>1, <2>2
<1>13. a \o e = t
  BY <1>3, <1>11, <1>12, SameSequence
<1>14. Fil!Unpadded(b) = e
  BY <1>3, <1>8 DEF Fil!Unpadded, e
<1> QED
  BY <1>3, <1>6, <1>8, <1>13, <1>14 DEF a, b, l

\* What fwrite does to the files.
LEMMA WriteRule ==
  ASSUME FileTypes, RunTypes, fpc # "shell", NEW items \in Seq(Held(kind[output])), Fil!Write(items)
  PROVE  /\ disk' = [n \in Names |-> disk'[n]]
         /\ disk'[output] \in Seq(Held(kind[output]))
         /\ \A n \in Names \ {output} : disk'[n] = disk[n]
         /\ ~faulty' => ~faulty /\ disk'[output] = disk[output] \o items
<1>1. output \in Names /\ disk = [n \in Names |-> disk[n]] /\ disk[output] \in Seq(Held(kind[output]))
  BY DEF FileTypes, RunTypes
<1> DEFINE u == disk[output] \o items
<1>2. u \in Seq(Held(kind[output]))
  BY <1>1
<1> HIDE DEF u
<1>3. (disk' = [disk EXCEPT ![output] = u] /\ faulty' = faulty) \/ (disk' = disk /\ faulty' = TRUE)
  BY DEF Fil!Write, u
<1>4. CASE disk' = [disk EXCEPT ![output] = u] /\ faulty' = faulty
  BY <1>1, <1>2, <1>4 DEF u
<1>5. CASE disk' = disk /\ faulty' = TRUE
  BY <1>1, <1>5
<1> QED
  BY <1>3, <1>4, <1>5

\* Files other than the output stay what they were made from.
LEMMA MadeStays ==
  ASSUME FileTypes, RunTypes, Made, fpc # "shell", UNCHANGED origin,
         \A n \in Names \ {output} : disk'[n] = disk[n]
  PROVE  Made'
<1>1. origin[output] = NoFile
  BY DEF RunTypes
<1> SUFFICES ASSUME NEW n \in Names, origin[n] # NoFile
             PROVE  /\ origin[n] \in [text : Seq(Fil!Bytes), key : Keys]
                    /\ CipherOf(disk'[n], origin[n].text, origin[n].key)
  BY DEF Made
<1>2. n # output /\ disk'[n] = disk[n]
  BY <1>1
<1> QED
  BY <1>2 DEF Made

LEMMA FilesBegin == ASSUME Fil!CipherFileAssumption, Fil!Init PROVE FilesInv
<1>1. /\ fpc = "shell" /\ input \in Names /\ output = input /\ fkey \in Keys /\ position = 0
      /\ disk \in [Names -> Plain \cup {NoFile}] /\ kind = [n \in Names |-> "plain"]
      /\ ftext = NoFile /\ origin = [n \in Names |-> NoFile]
  BY DEF Fil!Init
<1>2. \A n \in Names : disk[n] # NoFile => disk[n] \in Seq(Held(kind[n]))
  BY <1>1 DEF Fil!CipherFileAssumption, Held, Fil!Bytes
<1>3. FileTypes
  BY <1>1, <1>2 DEF FileTypes
<1>4. RunTypes /\ Made /\ Doing
  BY <1>1 DEF RunTypes, Made, Doing
<1> QED
  BY <1>3, <1>4 DEF FilesInv

LEMMA EmptyBlocks == \A t, k : BlocksOf(t, k, 0) = <<>>
BY DEF BlocksOf

\* The program begins with the whole of its input, unless that is its output, which is empty.
LEMMA FilesCall == ASSUME Fil!CipherFileAssumption, FilesInv, Fil!Call PROVE FilesInv'
<1>1. PICK f \in Names, o \in Names, k \in Keys :
        /\ disk[f] # NoFile
        /\ fpc' = IF kind[f] = "cipher" THEN "dec" ELSE "enc"
        /\ input' = f /\ output' = o /\ fkey' = k
        /\ disk' = [disk EXCEPT ![o] = <<>>]
        /\ kind' = [kind EXCEPT ![o] = IF fpc' = "enc" THEN "cipher" ELSE "plain"]
        /\ rest' = disk'[f]
        /\ ftext' = IF f = o THEN NoFile
                    ELSE IF fpc' = "enc" THEN disk[f]
                    ELSE IF origin[f] # NoFile /\ origin[f].key = k THEN origin[f].text
                    ELSE NoFile
        /\ origin' = [origin EXCEPT ![o] = NoFile]
  BY DEF Fil!Call
<1>2. position' = 0
  BY DEF Fil!Call
<1>3. /\ disk = [n \in Names |-> disk[n]] /\ origin = [n \in Names |-> origin[n]]
      /\ kind \in [Names -> {"plain", "cipher"}]
      /\ \A n \in Names : disk[n] # NoFile => disk[n] \in Seq(Held(kind[n]))
  BY DEF FilesInv, FileTypes
<1>4. /\ disk' = [n \in Names |-> disk'[n]] /\ origin' = [n \in Names |-> origin'[n]]
      /\ kind' \in [Names -> {"plain", "cipher"}]
      /\ disk'[o] = <<>> /\ origin'[o] = NoFile /\ kind'[o] = IF fpc' = "enc" THEN "cipher" ELSE "plain"
      /\ \A n \in Names \ {o} : disk'[n] = disk[n] /\ origin'[n] = origin[n] /\ kind'[n] = kind[n]
  BY <1>1, <1>3
<1>5. fpc' \in {"enc", "dec"}
  BY <1>1
<1>6. \A n \in Names : disk'[n] # NoFile => disk'[n] \in Seq(Held(kind'[n]))
  <2> SUFFICES ASSUME NEW n \in Names, disk'[n] # NoFile PROVE disk'[n] \in Seq(Held(kind'[n]))
    OBVIOUS
  <2>1. CASE n = o
    BY <1>4, <2>1
  <2>2. CASE n # o
    BY <1>3, <1>4, <2>2
  <2> QED
    BY <2>1, <2>2
<1>7. FileTypes'
  BY <1>1, <1>2, <1>4, <1>5, <1>6 DEF FileTypes
<1>8. RunTypes'
  <2>1. disk'[o] \in Seq(Held(kind'[o]))
    BY <1>4
  <2>2. rest' \in Seq(IF fpc' = "enc" THEN Fil!Bytes ELSE Fil!Enciphered)
    <3>1. CASE f = o
      <4>1. rest' = <<>>
        BY <1>1, <1>4, <3>1
      <4>2. <<>> \in Seq(Fil!Bytes) /\ <<>> \in Seq(Fil!Enciphered)
        OBVIOUS
      <4> QED
        BY <4>1, <4>2
    <3>2. CASE f # o
      <4>1. rest' = disk[f] /\ disk[f] \in Seq(Held(kind[f])) /\ kind[f] \in {"plain", "cipher"}
        BY <1>1, <1>3, <1>4, <3>2
      <4> QED
        BY <1>1, <4>1 DEF Held
    <3> QED
      BY <3>1, <3>2
  <2> QED
    BY <1>1, <1>4, <2>1, <2>2 DEF RunTypes
<1>9. Made'
  <2> SUFFICES ASSUME NEW n \in Names, origin'[n] # NoFile
               PROVE  /\ origin'[n] \in [text : Seq(Fil!Bytes), key : Keys]
                      /\ CipherOf(disk'[n], origin'[n].text, origin'[n].key)
    BY DEF Made
  <2>1. n # o
    BY <1>4
  <2>2. disk'[n] = disk[n] /\ origin'[n] = origin[n]
    BY <1>4, <2>1
  <2> QED
    BY <2>2 DEF FilesInv, Made
<1>10. Doing'
  <2> SUFFICES ASSUME ftext' # NoFile, ~faulty'
               PROVE  /\ ftext' \in Seq(Fil!Bytes) /\ input' # output'
                      /\ fpc' = "enc" => \E m \in Nat : PartEnciphered(m)'
                      /\ fpc' = "dec" => \E m \in Nat : PartDeciphered(m)'
    BY <1>5 DEF Doing
  <2>1. f # o /\ input' # output' /\ rest' = disk[f] /\ disk'[f] = disk[f]
    BY <1>1, <1>4
  <2>2. InBlocks(0) = 0 /\ 0 \in Nat
    BY BlocksRule
  <2>3. CASE fpc' = "enc"
    <3>1. ftext' = disk[f] /\ kind[f] = "plain"
      BY <1>1, <1>3, <2>1, <2>3
    <3>2. ftext' \in Seq(Fil!Bytes)
      BY <1>1, <1>3, <3>1 DEF Held
    <3>3. Len(disk'[o]) = 0 /\ disk'[output'] = <<>>
      BY <1>1, <1>4
    <3>4. SubSeq(ftext', 0 + 1, Len(ftext')) = ftext' /\ Len(ftext') \in Nat
      BY <3>2
    <3>5. PartEnciphered(0)'
      <4>1. disk'[output'] = BlocksOf(ftext', fkey', 0) /\ 0 = Len(disk'[output'])
        BY <3>3, EmptyBlocks
      <4>2. position' <= Len(ftext') /\ rest' = SubSeq(ftext', position' + 1, Len(ftext'))
        BY <1>2, <2>1, <3>1, <3>4
      <4>3. InBlocks(0) = position'
        BY <1>2, <2>2
      <4> QED
        BY <4>1, <4>2, <4>3 DEF PartEnciphered, InBlocks
    <3> QED
      BY <2>1, <2>3, <3>2, <3>5
  <2>4. CASE fpc' = "dec"
    <3>1. origin[f] # NoFile /\ origin[f].key = k /\ ftext' = origin[f].text
      BY <1>1, <2>1, <2>4
    <3>2. ftext' \in Seq(Fil!Bytes) /\ CipherOf(disk[f], ftext', k)
      BY <3>1 DEF FilesInv, Made
    <3>3. disk[f] \in Seq(Fil!Enciphered) /\ Len(disk[f]) >= 1 /\ Len(disk[f]) \in Nat
      BY <3>2 DEF CipherOf
    <3>4. SubSeq(disk[f], 0 + 1, Len(disk[f])) = disk[f]
      BY <3>3
    <3>5. SubSeq(ftext', 1, 0) = <<>>
      BY <3>2
    <3>6. PartDeciphered(0)'
      <4>1. CipherOf(disk'[input'], ftext', fkey') /\ 0 <= Len(disk'[input'])
        BY <1>1, <2>1, <3>2, <3>3
      <4>2. position' = InBlocks(0) /\ rest' = SubSeq(disk'[input'], 0 + 1, Len(disk'[input']))
        BY <1>1, <1>2, <2>1, <2>2, <3>4
      <4>3. disk'[output'] = SubSeq(ftext', 1, IF 0 = Len(disk'[input']) THEN Len(ftext') ELSE InBlocks(0))
        <5>1. disk'[output'] = <<>>
          BY <1>1, <1>4
        <5>2. Len(disk'[input']) = Len(disk[f]) /\ ~(0 = Len(disk[f]))
          BY <1>1, <2>1, <3>3
        <5> QED
          BY <2>2, <3>5, <5>1, <5>2
      <4> QED
        BY <4>1, <4>2, <4>3 DEF PartDeciphered, InBlocks
    <3> QED
      BY <2>1, <2>4, <3>2, <3>6
  <2> QED
    BY <1>5, <2>3, <2>4
<1> QED
  BY <1>7, <1>8, <1>9, <1>10 DEF FilesInv

\* A run that was disturbed, and one that is over without effect, leave what is known.
LEMMA FilesFault ==
  ASSUME Fil!CipherFileAssumption, FilesInv, Fil!ReadFails \/ Fil!Kill
  PROVE  FilesInv'
<1>1. /\ fpc # "shell" /\ faulty' = TRUE
      /\ UNCHANGED <<input, output, fkey, kind, ftext, position, disk, origin>>
      /\ fpc' = "shell" \/ (fpc' = fpc /\ \E n \in 0..(Len(rest) - 1) : rest' = SubSeq(rest, 1, n))
  BY DEF Fil!ReadFails, Fil!Kill, Fil!Ended, Fil!run
<1>2. FileTypes'
  BY <1>1 DEF FilesInv, FileTypes
<1>3. RunTypes'
  <2>1. CASE fpc' = "shell"
    BY <2>1 DEF RunTypes
  <2>2. CASE fpc' = fpc
    <3> DEFINE S == IF fpc = "enc" THEN Fil!Bytes ELSE Fil!Enciphered
    <3>1. rest \in Seq(S)
      BY <1>1 DEF FilesInv, RunTypes
    <3>2. PICK n \in 0..(Len(rest) - 1) : rest' = SubSeq(rest, 1, n)
      BY <1>1, <2>2
    <3> HIDE DEF S
    <3>3. n \in 0..Len(rest)
      BY <3>1, <3>2
    <3>4. rest' \in Seq(S)
      BY <3>1, <3>2, <3>3, FirstPart
    <3> QED
      BY <1>1, <2>2, <3>4 DEF FilesInv, RunTypes, S
  <2> QED
    BY <1>1, <2>1, <2>2
<1>4. Made'
  BY <1>1, MadeStays DEF FilesInv
<1>5. Doing'
  BY <1>1 DEF Doing
<1> QED
  BY <1>2, <1>3, <1>4, <1>5 DEF FilesInv

\* One block is enciphered.
LEMMA FilesEncipher == ASSUME Fil!CipherFileAssumption, FilesInv, Fil!Encipher PROVE FilesInv'
<1> DEFINE n == IF Len(rest) < Width THEN Len(rest) ELSE Width
           c == SubSeq(rest, 1, n)
           b == Fil!Padded(c)
           x == [key |-> fkey, block |-> b]
<1>0. Width \in Nat /\ Width >= 1
  BY DEF Fil!CipherFileAssumption
<1>1. /\ fpc = "enc" /\ rest # <<>> /\ Fil!Write(<<x>>)
      /\ rest' = SubSeq(rest, n + 1, Len(rest)) /\ position' = position + n
      /\ UNCHANGED <<fpc, input, output, fkey, kind, ftext, origin>>
  BY DEF Fil!Encipher, Fil!Cipher, Fil!run
<1>2. FileTypes /\ RunTypes /\ Made /\ rest \in Seq(Fil!Bytes) /\ kind[output] = "cipher" /\ fkey \in Keys
  BY <1>1 DEF FilesInv, FileTypes, RunTypes
<1>3. Len(rest) \in Nat /\ Len(rest) >= 1 /\ n \in 1..Len(rest) /\ n \in 0..Len(rest) /\ n <= Width /\ n \in Nat
  <2>1. Len(rest) \in Nat /\ Len(rest) >= 1
    BY <1>1, <1>2
  <2> QED
    BY <1>0, <2>1
<1> HIDE DEF n
<1>4. c \in Seq(Fil!Bytes) /\ Len(c) = n
  BY <1>2, <1>3, FirstPart
<1> HIDE DEF c
<1>5. b \in Fil!Block
  BY <1>3, <1>4, BlockTypes
<1> HIDE DEF b
<1>6. x \in Fil!Enciphered
  BY <1>2, <1>5 DEF Fil!Enciphered
<1> HIDE DEF x
<1>7. <<x>> \in Seq(Held(kind[output]))
  BY <1>2, <1>6 DEF Held
<1>8. /\ disk' = [m \in Names |-> disk'[m]]
      /\ disk'[output] \in Seq(Held(kind[output]))
      /\ \A m \in Names \ {output} : disk'[m] = disk[m]
      /\ ~faulty' => ~faulty /\ disk'[output] = disk[output] \o <<x>>
  BY <1>1, <1>2, <1>7, WriteRule
<1>9. FileTypes'
  <2>1. position' \in Nat
    BY <1>1, <1>2, <1>3 DEF FileTypes
  <2>2. \A m \in Names : disk'[m] # NoFile => disk'[m] \in Seq(Held(kind'[m]))
    BY <1>1, <1>2, <1>8 DEF FileTypes
  <2> QED
    BY <1>1, <1>2, <1>8, <2>1, <2>2 DEF FileTypes
<1>10. RunTypes'
  <2>1. rest' \in Seq(Fil!Bytes)
    BY <1>1, <1>2, <1>3, LastPart
  <2> QED
    BY <1>1, <1>2, <1>8, <2>1 DEF RunTypes
<1>11. Made'
  BY <1>1, <1>2, <1>8, MadeStays
<1>12. Doing'
  <2> SUFFICES ASSUME ftext # NoFile, ~faulty' PROVE \E m \in Nat : PartEnciphered(m)' /\ ftext \in Seq(Fil!Bytes) /\ input # output
    BY <1>1 DEF Doing
  <2>1. ftext \in Seq(Fil!Bytes) /\ input # output /\ \E m \in Nat : PartEnciphered(m)
    BY <1>1, <1>8 DEF FilesInv, Doing
  <2>2. PICK m \in Nat : PartEnciphered(m)
    BY <2>1
  <2> DEFINE t == ftext
  <2>3. /\ m = Len(disk[output]) /\ disk[output] = BlocksOf(t, fkey, m)
        /\ position <= Len(t) /\ rest = SubSeq(t, position + 1, Len(t))
        /\ InBlocks(m) = position \/ position = Len(t)
    BY <2>2 DEF PartEnciphered
  <2>4. position \in Nat /\ Len(t) \in Nat /\ t \in Seq(Fil!Bytes)
    BY <1>2, <2>1 DEF FileTypes
  <2>5. Len(rest) = Len(t) - position
    <3>1. position \in 0..Len(t)
      BY <2>3, <2>4
    <3> QED
      BY <2>3, <2>4, <3>1, LastPart
  <2> HIDE DEF t
  <2>6. InBlocks(m) = position /\ InBlocks(m) <= Len(t)
    BY <1>3, <2>3, <2>4, <2>5
  <2>7. b = BlockOf(t, m + 1)
    <3>1. n = IF Len(rest) < Width THEN Len(rest) ELSE Width
      BY DEF n
    <3>2. rest = SubSeq(t, InBlocks(m) + 1, Len(t))
      BY <2>3, <2>6
    <3> QED
      BY <1>3, <2>4, <2>6, <3>1, <3>2, NextBlock DEF b, c
  <2>8. disk'[output] = BlocksOf(t, fkey, m + 1) /\ Len(disk'[output]) = m + 1
    <3>1. disk[output] \in Seq(Fil!Enciphered)
      BY <1>1, <1>2 DEF RunTypes, Held
    <3> DEFINE s == disk[output]
    <3>2. s \in Seq(Fil!Enciphered) /\ s = BlocksOf(t, fkey, m) /\ Len(s) = m
      BY <2>3, <3>1
    <3> HIDE DEF s
    <3>3. WithBlock(s, fkey, b) = BlocksOf(t, fkey, m + 1) /\ Len(WithBlock(s, fkey, b)) = m + 1
      BY <1>2, <1>5, <2>7, <3>2, OneMore
    <3> QED
      BY <1>8, <3>3 DEF s, x, WithBlock
  <2>9. position' <= Len(t) /\ rest' = SubSeq(t, position' + 1, Len(t))
    <3>1. position \in 0..Len(t) /\ n \in 0..(Len(t) - position) /\ position' = position + n
      BY <1>1, <1>3, <2>3, <2>4, <2>5
    <3>2. SubSeq(rest, n + 1, Len(rest)) = SubSeq(t, (position + n) + 1, Len(t))
      BY <2>3, <2>4, <3>1, PartOfLast
    <3>3. position' <= Len(t)
      BY <2>4, <3>1
    <3> QED
      BY <1>1, <3>1, <3>2, <3>3
  <2>10. \/ InBlocks(m + 1) = position'
         \/ m + 1 >= 1 /\ position' = Len(t) /\ InBlocks((m + 1) - 1) < position' /\ position' < InBlocks(m + 1)
    <3>1. InBlocks(m + 1) = position + Width /\ (m + 1) - 1 = m /\ m + 1 >= 1
      BY <2>6, BlocksRule
    <3>2. CASE n = Width
      BY <1>1, <3>1, <3>2
    <3>3. CASE n # Width
      <4>1. n = Len(rest) /\ n < Width
        BY <1>0, <1>3, <3>3 DEF n
      <4>2. position' = Len(t) /\ position < position' /\ position' < position + Width
        BY <1>0, <1>1, <1>3, <2>4, <2>5, <4>1
      <4> QED
        BY <2>6, <3>1, <4>2
    <3> QED
      BY <3>2, <3>3
  <2>11. PartEnciphered(m + 1)'
    <3>1. (InBlocks(m + 1))' = InBlocks(m + 1) /\ (InBlocks((m + 1) - 1))' = InBlocks((m + 1) - 1)
      BY DEF InBlocks
    <3> QED
      BY <1>1, <2>8, <2>9, <2>10, <3>1 DEF PartEnciphered, t
  <2> QED
    BY <2>1, <2>11
<1> QED
  BY <1>9, <1>10, <1>11, <1>12 DEF FilesInv

\* The last run of the loop is over; what was written is known, if nothing went wrong.
LEMMA FilesEncipherEnds == ASSUME Fil!CipherFileAssumption, FilesInv, Fil!EncipherEnds PROVE FilesInv'
<1> DEFINE b == Fil!Padded(<<>>)
           x == [key |-> fkey, block |-> b]
           g == [text |-> ftext, key |-> fkey]
<1>0. Width \in Nat /\ Width >= 1
  BY DEF Fil!CipherFileAssumption
<1>1. /\ fpc = "enc" /\ rest = <<>> /\ fpc' = "shell"
      /\ IF Fil!Whole THEN Fil!Write(<<x>>) ELSE UNCHANGED <<disk, faulty>>
      /\ origin' = IF faulty' \/ ftext = NoFile THEN origin ELSE [origin EXCEPT ![output] = g]
      /\ UNCHANGED <<input, output, fkey, kind, ftext, position>>
  BY DEF Fil!EncipherEnds, Fil!Ended, Fil!Cipher, Fil!run
<1>2. /\ FileTypes /\ RunTypes /\ Made /\ kind[output] = "cipher" /\ fkey \in Keys /\ output \in Names
      /\ disk[output] \in Seq(Fil!Enciphered) /\ origin[output] = NoFile
      /\ disk = [m \in Names |-> disk[m]] /\ origin = [m \in Names |-> origin[m]] /\ position \in Nat
  BY <1>1 DEF FilesInv, FileTypes, RunTypes, Held
<1>3. b \in Fil!Block
  <2>1. <<>> \in Seq(Fil!Bytes) /\ Len(<<>>) <= Width
    BY <1>0
  <2> QED
    BY <2>1, BlockTypes
<1> HIDE DEF b
<1>4. x \in Fil!Enciphered
  BY <1>2, <1>3 DEF Fil!Enciphered
<1> HIDE DEF x
<1>5. <<x>> \in Seq(Held(kind[output]))
  BY <1>2, <1>4 DEF Held
<1>6. /\ disk' = [m \in Names |-> disk'[m]]
      /\ disk'[output] \in Seq(Held(kind[output]))
      /\ \A m \in Names \ {output} : disk'[m] = disk[m]
      /\ ~faulty' => ~faulty /\ disk'[output] = IF Fil!Whole THEN disk[output] \o <<x>> ELSE disk[output]
  <2>1. CASE Fil!Whole
    <3>1. Fil!Write(<<x>>)
      BY <1>1, <2>1
    <3>2. /\ disk' = [m \in Names |-> disk'[m]]
          /\ disk'[output] \in Seq(Held(kind[output]))
          /\ \A m \in Names \ {output} : disk'[m] = disk[m]
          /\ ~faulty' => ~faulty /\ disk'[output] = disk[output] \o <<x>>
      BY <1>1, <1>2, <1>5, <3>1, WriteRule
    <3> QED
      BY <2>1, <3>2
  <2>2. CASE ~Fil!Whole
    BY <1>1, <1>2, <2>2 DEF Held
  <2> QED
    BY <2>1, <2>2
<1>7. FileTypes'
  <2>1. \A m \in Names : disk'[m] # NoFile => disk'[m] \in Seq(Held(kind'[m]))
    BY <1>1, <1>2, <1>6 DEF FileTypes
  <2>2. origin' = [m \in Names |-> origin'[m]]
    BY <1>1, <1>2
  <2> QED
    BY <1>1, <1>2, <1>6, <2>1, <2>2 DEF FileTypes
<1>8. RunTypes'
  BY <1>1 DEF RunTypes
<1>9. CASE faulty' \/ ftext = NoFile
  <2>1. origin' = origin
    BY <1>1, <1>9
  <2>2. Made'
    BY <1>1, <1>2, <1>6, <2>1, MadeStays
  <2>3. Doing'
    BY <1>1, <1>9 DEF Doing
  <2> QED
    BY <1>7, <1>8, <2>2, <2>3 DEF FilesInv
<1>10. CASE ~faulty' /\ ftext # NoFile
  <2>1. ftext \in Seq(Fil!Bytes) /\ \E m \in Nat : PartEnciphered(m)
    BY <1>1, <1>6, <1>10 DEF FilesInv, Doing
  <2>2. PICK m \in Nat : PartEnciphered(m)
    BY <2>1
  <2> DEFINE t == ftext
             s == disk[output]
  <2>3. /\ m = Len(s) /\ s = BlocksOf(t, fkey, m)
        /\ position <= Len(t) /\ rest = SubSeq(t, position + 1, Len(t))
        /\ InBlocks(m) = position
           \/ (m >= 1 /\ position = Len(t) /\ InBlocks(m - 1) < position /\ position < InBlocks(m))
    BY <2>2 DEF PartEnciphered
  <2>4. Len(t) \in Nat /\ t \in Seq(Fil!Bytes) /\ s \in Seq(Fil!Enciphered)
    BY <1>2, <2>1
  <2> HIDE DEF s, t
  <2>5. position = Len(t)
    <3>1. position \in 0..Len(t)
      BY <1>2, <2>3, <2>4
    <3>2. Len(rest) = Len(t) - position
      BY <2>3, <2>4, <3>1, LastPart
    <3> QED
      BY <1>1, <1>2, <2>4, <3>2
  <2>6. CipherOf(disk'[output], t, fkey)
    <3>1. CASE InBlocks(m) = position
      <4>1. InBlocks(m) = Len(t) /\ InBlocks(m + 1) = InBlocks(m) + Width /\ InBlocks(m) \in Nat
        BY <2>5, <3>1, BlocksRule
      <4>2. InBlocks(m) <= position /\ position < InBlocks(m + 1)
        BY <1>0, <2>5, <4>1
      <4>3. Fil!Whole
        BY <1>2, <3>1, <4>2, WholeBlocks DEF Fil!Whole
      <4>4. disk'[output] = s \o <<x>>
        BY <1>6, <1>10, <4>3 DEF s
      <4>5. b = BlockOf(t, m + 1)
        BY <2>4, <4>1, PaddingBlock DEF b
      <4>6. /\ s \o <<x>> = BlocksOf(t, fkey, m + 1)
            /\ s \o <<x>> \in Seq(Fil!Enciphered) /\ Len(s \o <<x>>) = m + 1
        <5>1. s = BlocksOf(t, fkey, m) /\ Len(s) = m
          BY <2>3
        <5>2. /\ WithBlock(s, fkey, b) = BlocksOf(t, fkey, m + 1)
              /\ WithBlock(s, fkey, b) \in Seq(Fil!Enciphered) /\ Len(WithBlock(s, fkey, b)) = m + 1
          BY <1>2, <1>3, <2>4, <4>5, <5>1, OneMore
        <5> QED
          BY <5>2 DEF x, WithBlock
      <4>7. (m + 1) - 1 = m /\ m + 1 >= 1
        OBVIOUS
      <4>8. InBlocks(m) <= Len(t) /\ Len(t) < InBlocks(m + 1)
        BY <2>5, <4>2
      <4> DEFINE u == s \o <<x>>
      <4> HIDE DEF u
      <4>9. CipherOf(u, t, fkey)
        BY <4>6, <4>7, <4>8 DEF CipherOf, u
      <4> QED
        BY <4>4, <4>9 DEF u
    <3>2. CASE m >= 1 /\ InBlocks(m - 1) < position /\ position < InBlocks(m)
      <4>1. m - 1 \in Nat /\ (m - 1) + 1 = m /\ InBlocks(m - 1) \in Nat /\ InBlocks(m) \in Nat
        <5>1. m - 1 \in Nat /\ (m - 1) + 1 = m
          BY <3>2
        <5> QED
          BY <5>1, BlocksRule
      <4>2. InBlocks(m - 1) <= position /\ position < InBlocks((m - 1) + 1) /\ position # InBlocks(m - 1)
        BY <1>2, <3>2, <4>1
      <4>3. ~Fil!Whole
        BY <1>2, <4>1, <4>2, WholeBlocks DEF Fil!Whole
      <4>4. disk'[output] = s
        BY <1>6, <1>10, <4>3 DEF s
      <4>5. CipherOf(s, t, fkey)
        BY <2>3, <2>4, <2>5, <3>2, <4>1, <4>2 DEF CipherOf
      <4> QED
        BY <4>4, <4>5
    <3> QED
      BY <2>3, <2>5, <3>1, <3>2
  <2>7. g \in [text : Seq(Fil!Bytes), key : Keys] /\ g # NoFile
    BY <1>2, <2>1 DEF Fil!CipherFileAssumption, Fil!Bytes
  <2>8. origin' = [origin EXCEPT ![output] = g]
    BY <1>1, <1>10
  <2>9. origin'[output] = g /\ \A n \in Names \ {output} : origin'[n] = origin[n]
    BY <1>2, <2>8
  <2>10. Made'
    <3> SUFFICES ASSUME NEW n \in Names, origin'[n] # NoFile
                 PROVE  /\ origin'[n] \in [text : Seq(Fil!Bytes), key : Keys]
                        /\ CipherOf(disk'[n], origin'[n].text, origin'[n].key)
      BY DEF Made
    <3>1. CASE n = output
      BY <2>6, <2>7, <2>9, <3>1 DEF t
    <3>2. CASE n # output
      BY <1>2, <1>6, <2>9, <3>2 DEF Made
    <3> QED
      BY <3>1, <3>2
  <2>11. Doing'
    BY <1>1, <2>1, <2>7, <2>9 DEF Doing
  <2> QED
    BY <1>7, <1>8, <2>10, <2>11 DEF FilesInv
<1> QED
  BY <1>9, <1>10

\* One block is deciphered, and its padding left out if it is the last.
LEMMA FilesDecipher == ASSUME Fil!CipherFileAssumption, FilesInv, Fil!Decipher PROVE FilesInv'
<1> DEFINE last == Fil!AtEnd
           Part(b) == IF last /\ b[Width] \in 1..Width THEN Fil!Unpadded(b) ELSE b
<1>0. Width \in Nat /\ Width >= 1
  BY DEF Fil!CipherFileAssumption
<1>1. /\ fpc = "dec" /\ rest # <<>> /\ rest' = Tail(rest) /\ position' = position + Width
      /\ \E b \in Fil!Deciphered(Head(rest)) : Fil!Write(Part(b))
      /\ UNCHANGED <<fpc, input, output, fkey, kind, ftext, origin>>
  BY DEF Fil!Decipher, Fil!run
<1>2. /\ FileTypes /\ RunTypes /\ Made /\ rest \in Seq(Fil!Enciphered) /\ kind[output] = "plain" /\ position \in Nat
      /\ disk[output] \in Seq(Fil!Bytes)
  BY <1>1 DEF FilesInv, FileTypes, RunTypes, Held
<1>3. Head(rest) \in Fil!Enciphered /\ Tail(rest) \in Seq(Fil!Enciphered) /\ Head(rest) = rest[1] /\ Len(rest) >= 1
  BY <1>1, <1>2
<1>4. PICK b \in Fil!Deciphered(Head(rest)) : Fil!Write(Part(b))
  BY <1>1
<1> HIDE DEF last
<1>5. b \in Fil!Block
  BY <1>3, <1>4 DEF Fil!Deciphered, Fil!Enciphered
<1>6. b \in Seq(Fil!Bytes) /\ Len(b) = Width
  BY <1>5, BlockTypes
<1>7. Part(b) \in Seq(Held(kind[output]))
  <2>1. b[Width] \in 1..Width => Fil!Unpadded(b) \in Seq(Fil!Bytes)
    <3> SUFFICES ASSUME b[Width] \in 1..Width PROVE Fil!Unpadded(b) \in Seq(Fil!Bytes)
      OBVIOUS
    <3> DEFINE n == Width - b[Width]
    <3>1. n \in 0..Len(b)
      BY <1>0, <1>6
    <3> HIDE DEF n
    <3>2. SubSeq(b, 1, n) \in Seq(Fil!Bytes)
      BY <1>6, <3>1, FirstPart
    <3> QED
      BY <3>2 DEF Fil!Unpadded, n
  <2> QED
    BY <1>2, <1>6, <2>1 DEF Held
<1> DEFINE w == Part(b)
<1>8. w \in Seq(Held(kind[output])) /\ Fil!Write(w)
  BY <1>4, <1>7
<1> HIDE DEF w
<1>9. /\ disk' = [m \in Names |-> disk'[m]]
      /\ disk'[output] \in Seq(Held(kind[output]))
      /\ \A m \in Names \ {output} : disk'[m] = disk[m]
      /\ ~faulty' => ~faulty /\ disk'[output] = disk[output] \o w
  BY <1>1, <1>2, <1>8, WriteRule
<1>10. FileTypes'
  <2>1. position' \in Nat
    BY <1>0, <1>1, <1>2
  <2>2. \A m \in Names : disk'[m] # NoFile => disk'[m] \in Seq(Held(kind'[m]))
    BY <1>1, <1>2, <1>9 DEF FileTypes
  <2> QED
    BY <1>1, <1>2, <1>9, <2>1, <2>2 DEF FileTypes
<1>11. RunTypes'
  BY <1>1, <1>2, <1>3, <1>9 DEF RunTypes
<1>12. Made'
  BY <1>1, <1>2, <1>9, MadeStays
<1>13. Doing'
  <2> SUFFICES ASSUME ftext # NoFile, ~faulty'
               PROVE  \E k \in Nat : PartDeciphered(k)' /\ ftext \in Seq(Fil!Bytes) /\ input # output
    BY <1>1 DEF Doing
  <2>1. ftext \in Seq(Fil!Bytes) /\ input # output /\ \E k \in Nat : PartDeciphered(k)
    BY <1>1, <1>9 DEF FilesInv, Doing
  <2>2. PICK k \in Nat : PartDeciphered(k)
    BY <2>1
  <2> DEFINE t == ftext
             s == disk[input]
             M == Len(s)
  <2>3. /\ CipherOf(s, t, fkey) /\ k <= M /\ position = InBlocks(k) /\ rest = SubSeq(s, k + 1, M)
        /\ disk[output] = SubSeq(t, 1, IF k = M THEN Len(t) ELSE InBlocks(k))
    BY <2>2 DEF PartDeciphered
  <2>4. s \in Seq(Fil!Enciphered) /\ M \in Nat /\ M >= 1 /\ s = BlocksOf(t, fkey, M)
        /\ InBlocks(M - 1) <= Len(t) /\ Len(t) < InBlocks(M) /\ t \in Seq(Fil!Bytes) /\ Len(t) \in Nat
    BY <2>1, <2>3 DEF CipherOf
  <2>5. s' = s
    BY <1>1, <1>2, <1>9, <2>1 DEF FileTypes
  <2> HIDE DEF t, s, M
  <2>6. k < M /\ k + 1 <= M /\ rest[1] = s[k + 1] /\ Len(rest) = M - k
    <3>1. k \in 0..M
      BY <2>3, <2>4
    <3>2. Len(rest) = M - k /\ \A p \in 1..(M - k) : rest[p] = s[k + p]
      BY <2>3, <2>4, <3>1, LastPart DEF M
    <3>3. k < M
      BY <1>3, <2>4, <3>1, <3>2
    <3>4. 1 \in 1..(M - k)
      BY <2>4, <3>1, <3>3
    <3> QED
      BY <2>4, <3>2, <3>3, <3>4
  <2>7. b = BlockOf(t, k + 1)
    <3>1. k + 1 \in 1..M
      BY <2>4, <2>6
    <3>2. s[k + 1] = [key |-> fkey, block |-> BlockOf(t, k + 1)]
      BY <2>4, <3>1 DEF BlocksOf
    <3>3. Head(rest) = [key |-> fkey, block |-> BlockOf(t, k + 1)]
      BY <1>3, <2>6, <3>2
    <3> QED
      BY <1>4, <3>3 DEF Fil!Deciphered
  <2>8. rest' = SubSeq(s, (k + 1) + 1, M)
    <3>1. k \in 0..M /\ 1 \in 0..(M - k)
      BY <2>4, <2>6
    <3>2. SubSeq(rest, 1 + 1, Len(rest)) = SubSeq(s, (k + 1) + 1, M)
      BY <2>3, <2>4, <3>1, PartOfLast DEF M
    <3>3. Tail(rest) = SubSeq(rest, 1 + 1, Len(rest))
      BY <1>2, <1>3
    <3>4. rest' = SubSeq(rest, 1 + 1, Len(rest))
      BY ONLY <1>1, <3>3
    <3> QED
      BY ONLY <3>2, <3>4
  <2>9. position' = InBlocks(k + 1) /\ InBlocks(k) \in Nat /\ InBlocks(k + 1) = InBlocks(k) + Width
    BY <1>1, <2>3, BlocksRule
  <2>10. last <=> k + 1 = M
    <3>1. last <=> InBlocks(k + 1) = InBlocks(M)
      <4>1. Width * M = InBlocks(M)
        BY <1>0, <2>4 DEF InBlocks
      <4> QED
        BY <2>3, <2>9, <4>1 DEF last, Fil!AtEnd, M, s
    <3>2. CASE k + 1 = M
      BY <3>1, <3>2
    <3>3. CASE k + 1 < M
      <4>1. (k + 1) + 1 <= M /\ k + 1 \in Nat /\ (k + 1) + 1 \in Nat
        BY <2>4, <3>3
      <4>2. /\ InBlocks((k + 1) + 1) <= InBlocks(M) /\ InBlocks((k + 1) + 1) = InBlocks(k + 1) + Width
            /\ InBlocks(k + 1) \in Nat /\ InBlocks(M) \in Nat
        <5>1. InBlocks((k + 1) + 1) <= InBlocks(M)
          BY <2>4, <4>1, BlocksRule
        <5>2. InBlocks((k + 1) + 1) = InBlocks(k + 1) + Width /\ InBlocks(k + 1) \in Nat
          BY <4>1, BlocksRule
        <5>3. InBlocks(M) \in Nat
          BY <2>4, BlocksRule
        <5> QED
          BY <5>1, <5>2, <5>3
      <4> QED
        BY <1>0, <3>1, <3>3, <4>2
    <3> QED
      BY <2>4, <2>6, <3>2, <3>3
  <2>11. disk[output] = SubSeq(t, 1, InBlocks(k))
    <3>1. ~(k = M)
      BY <2>4, <2>6
    <3>2. disk[output] = SubSeq(t, 1, IF k = M THEN Len(t) ELSE InBlocks(k))
      BY <2>3
    <3> QED
      BY <3>1, <3>2
  <2>12. disk'[output] = SubSeq(t, 1, IF k + 1 = M THEN Len(t) ELSE InBlocks(k + 1))
    <3>1. CASE k + 1 = M
      <4>1. InBlocks(k) <= Len(t) /\ Len(t) < InBlocks(k + 1)
        <5>1. M - 1 = k
          BY <3>1
        <5> QED
          BY <2>4, <3>1, <5>1
      <4>2. b[Width] \in 1..Width /\ SubSeq(t, 1, InBlocks(k)) \o Fil!Unpadded(b) = t
        BY <2>4, <2>7, <4>1, LastBlock
      <4>3. w = Fil!Unpadded(b)
        BY <2>10, <3>1, <4>2 DEF w
      <4>4. SubSeq(t, 1, Len(t)) = t
        BY <2>4
      <4> QED
        BY <1>9, <2>11, <3>1, <4>2, <4>3, <4>4
    <3>2. CASE k + 1 # M
      <4>1. InBlocks(k + 1) <= Len(t)
        <5>1. k + 1 <= M - 1 /\ k + 1 \in Nat /\ M - 1 \in Nat
          BY <2>4, <2>6, <3>2
        <5>2. InBlocks(k + 1) <= InBlocks(M - 1) /\ InBlocks(k + 1) \in Nat /\ InBlocks(M - 1) \in Nat
          BY <5>1, BlocksRule
        <5> QED
          BY <2>4, <5>2
      <4>2. SubSeq(t, 1, InBlocks(k)) \o b = SubSeq(t, 1, InBlocks(k + 1))
        BY <2>4, <2>7, <4>1, MiddleBlock
      <4>3. w = b
        BY <2>10, <3>2 DEF w
      <4> QED
        BY <1>9, <2>11, <3>2, <4>2, <4>3
    <3> QED
      BY <3>1, <3>2
  <2>13. PartDeciphered(k + 1)'
    <3>1. (InBlocks(k + 1))' = InBlocks(k + 1) /\ (CipherOf(s, t, fkey))' = CipherOf(s', t', fkey') /\ t' = t
      BY <1>1 DEF InBlocks, CipherOf, BlocksOf, BlockOf, Fil!Enciphered, Fil!Block, Fil!Bytes, t, s
    <3>2. CipherOf(disk'[input'], ftext', fkey')
      BY <1>1, <2>3, <2>5 DEF t, s
    <3>3. disk'[input'] = s /\ Len(disk'[input']) = M
      BY <1>1, <2>5 DEF s, M
    <3> QED
      BY <1>1, <2>6, <2>8, <2>9, <2>12, <3>1, <3>2, <3>3 DEF PartDeciphered, t
  <2> QED
    BY <2>1, <2>13
<1> QED
  BY <1>10, <1>11, <1>12, <1>13 DEF FilesInv

LEMMA FilesDecipherEnds == ASSUME Fil!CipherFileAssumption, FilesInv, Fil!DecipherEnds PROVE FilesInv'
<1>1. /\ fpc = "dec" /\ rest = <<>> /\ fpc' = "shell"
      /\ UNCHANGED <<input, output, fkey, kind, ftext, origin, disk, faulty, position>>
  BY DEF Fil!DecipherEnds, Fil!Ended, Fil!run
<1>2. FileTypes'
  BY <1>1 DEF FilesInv, FileTypes
<1>3. RunTypes'
  BY <1>1 DEF RunTypes
<1>4. Made'
  BY <1>1, MadeStays DEF FilesInv
<1>5. Doing'
  <2> SUFFICES ASSUME ftext # NoFile, ~faulty PROVE ftext \in Seq(Fil!Bytes) /\ disk[output] = ftext
    BY <1>1 DEF Doing
  <2>1. ftext \in Seq(Fil!Bytes) /\ \E k \in Nat : PartDeciphered(k)
    BY <1>1 DEF FilesInv, Doing
  <2>2. PICK k \in Nat : PartDeciphered(k)
    BY <2>1
  <2> DEFINE s == disk[input]
  <2>3. /\ s \in Seq(Fil!Enciphered) /\ k <= Len(s) /\ rest = SubSeq(s, k + 1, Len(s))
        /\ disk[output] = SubSeq(ftext, 1, IF k = Len(s) THEN Len(ftext) ELSE InBlocks(k))
    BY <2>2 DEF PartDeciphered, CipherOf
  <2> HIDE DEF s
  <2>4. k = Len(s)
    <3>1. k \in 0..Len(s) /\ Len(s) \in Nat
      BY <2>3
    <3>2. Len(rest) = Len(s) - k
      BY <2>3, <3>1, LastPart
    <3> QED
      BY <1>1, <3>1, <3>2
  <2> QED
    BY <2>1, <2>3, <2>4
<1> QED
  BY <1>2, <1>3, <1>4, <1>5 DEF FilesInv

LEMMA FilesStay == ASSUME FilesInv, UNCHANGED Fil!vars PROVE FilesInv'
<1>1. UNCHANGED <<fpc, input, output, fkey, rest, position, disk, kind, faulty, ftext, origin>>
  BY DEF Fil!vars
<1>2. FileTypes'
  BY <1>1 DEF FilesInv, FileTypes
<1>3. RunTypes'
  BY <1>1 DEF FilesInv, RunTypes
<1>4. Made'
  BY <1>1 DEF FilesInv, Made
<1>5. Doing'
  BY <1>1 DEF FilesInv, Doing, PartEnciphered, PartDeciphered
<1> QED
  BY <1>2, <1>3, <1>4, <1>5 DEF FilesInv

LEMMA FilesStep ==
  ASSUME Fil!CipherFileAssumption, FilesInv, [Fil!Next]_(Fil!vars)
  PROVE  FilesInv'
<1>1. CASE Fil!Call
  BY <1>1, FilesCall
<1>2. CASE Fil!Encipher
  BY <1>2, FilesEncipher
<1>3. CASE Fil!EncipherEnds
  BY <1>3, FilesEncipherEnds
<1>4. CASE Fil!Decipher
  BY <1>4, FilesDecipher
<1>5. CASE Fil!DecipherEnds
  BY <1>5, FilesDecipherEnds
<1>6. CASE Fil!ReadFails \/ Fil!Kill
  BY <1>6, FilesFault
<1>7. CASE UNCHANGED Fil!vars
  BY <1>7, FilesStay
<1> QED
  BY <1>1, <1>2, <1>3, <1>4, <1>5, <1>6, <1>7 DEF Fil!Next

LEMMA FilesGood == ASSUME Fil!CipherFileAssumption, FilesInv PROVE Fil!FileRestored
<1>1. Fil!TypeOK
  BY DEF FilesInv, FileTypes, Held, Fil!TypeOK
<1>2. Fil!OneMoreBlock
  <2> SUFFICES ASSUME NEW n \in Names, origin[n] # NoFile
               PROVE  Len(disk[n]) = Len(origin[n].text) \div Width + 1
    BY DEF Fil!OneMoreBlock
  <2> DEFINE t == origin[n].text
             s == disk[n]
  <2>1. t \in Seq(Fil!Bytes) /\ CipherOf(s, t, origin[n].key)
    BY DEF FilesInv, Made
  <2>2. /\ s \in Seq(Fil!Enciphered) /\ Len(s) >= 1
        /\ InBlocks(Len(s) - 1) <= Len(t) /\ Len(t) < InBlocks(Len(s))
    BY <2>1 DEF CipherOf
  <2> HIDE DEF s, t
  <2> DEFINE k == Len(s) - 1
  <2>3. k \in Nat /\ k + 1 = Len(s) /\ Len(t) \in Nat
    BY <2>1, <2>2
  <2> HIDE DEF k
  <2>4. InBlocks(k) <= Len(t) /\ Len(t) < InBlocks(k + 1)
    BY <2>2, <2>3 DEF k
  <2>5. Len(t) \div Width = k
    BY <2>3, <2>4, WholeBlocks
  <2> QED
    BY <2>3, <2>5 DEF s, t
<1> QED
  BY <1>1, <1>2 DEF FilesInv, Doing, Fil!FileRestored

\* The program of encrypt, for any width of a block, any files, texts and keys: what a run has
\* enciphered without a failure has one block more than its text fills, and a run that
\* deciphers it into another file with its key, without a failure, gives exactly the text.
THEOREM FileGivenBack == ASSUME Fil!CipherFileAssumption PROVE Fil!Spec => []Fil!FileRestored
<1>1. Fil!Init => FilesInv
  BY FilesBegin
<1>2. FilesInv /\ [Fil!Next]_(Fil!vars) => FilesInv'
  BY FilesStep
<1>3. FilesInv => Fil!FileRestored
  BY FilesGood
<1> QED
  BY <1>1, <1>2, <1>3, PTL DEF Fil!Spec

-----------------------------------------------------------------------------
(***************************************************************************)
(* What is downloaded (Download), for any answers, cut in any way, any     *)
(* sizes of the buffer and any writes.                                     *)
(***************************************************************************)
\* That "crlf" is a string is beyond the provers.
Symbols == STRING \cup {"crlf"}

\* The places of the empty lines of a text.
EmptyLines(s) == {p \in 1..(Len(s) - 1) : s[p] = "crlf" /\ s[p + 1] = "crlf"}

DlTypes ==
  /\ dpc \in {"idle", "header", "parse", "body", "save", "ended", "failed"}
  /\ dcap \in Nat /\ FirstCap <= dcap /\ (Len(buffer) < dcap \/ dpc = "idle")
  /\ dpc = "idle" => buffer = <<>>
  /\ holds \subseteq {"buffer", "header", "body"} /\ (dpc \in {"ended", "failed"} => holds = {})
  /\ answer.stream \in Seq(Symbols) /\ drest \in Seq(Symbols) /\ buffer \in Seq(Symbols)
  /\ dheader \in Seq(Symbols) /\ chunk \in Seq(Symbols) /\ dbody \in Seq(Symbols)

\* What has come has no empty line yet, and what comes is behind it.
Collected == dpc = "header" => buffer \o drest = answer.stream /\ EmptyLines(buffer) = {}

Parted ==
  dpc \notin {"idle", "header", "failed"} =>
    \E p \in EmptyLines(answer.stream) :
      /\ \A q \in EmptyLines(answer.stream) : p <= q
      /\ dheader = SubSeq(answer.stream, 1, p - 1)
      /\ ((dheader \o <<"crlf", "crlf">>) \o dbody) \o drest = answer.stream

\* What is in the file and what is about to be written is what has come behind the header.
Written ==
  /\ dpc = "parse" => chunk = dbody
  /\ dpc = "body" => chunk = <<>>
  /\ \/ ddisk = NoFile /\ file_length = 0 /\ dpc \notin {"save", "body"}
     \/ /\ ddisk \in Seq(Symbols) /\ dpc \in {"save", "body", "ended"}
        /\ file_length = Len(ddisk) /\ (~short => ddisk \o chunk = dbody)

SaidRight ==
  dsaid = "ok" =>
    /\ dpc = "ended" /\ ddisk \in Seq(Symbols) /\ Len(ddisk) = answer.length
    /\ ~short => ddisk = dbody

DlInv == DlTypes /\ Collected /\ Parted /\ Written /\ SaidRight

LEMMA CatAssociates ==
  ASSUME NEW S, NEW a \in Seq(S), NEW b \in Seq(S), NEW c \in Seq(S)
  PROVE  (a \o b) \o c = a \o (b \o c)
<1> DEFINE m == a \o b
           o == b \o c
<1>0. Len(a) \in Nat /\ Len(b) \in Nat /\ Len(c) \in Nat
  OBVIOUS
<1>1. m \in Seq(S) /\ Len(m) = Len(a) + Len(b) /\ (\A p \in 1..Len(a) : m[p] = a[p])
      /\ \A p \in 1..Len(b) : m[Len(a) + p] = b[p]
  BY Joining
<1>2. o \in Seq(S) /\ Len(o) = Len(b) + Len(c) /\ (\A p \in 1..Len(b) : o[p] = b[p])
      /\ \A p \in 1..Len(c) : o[Len(b) + p] = c[p]
  BY Joining
<1> HIDE DEF m, o
<1>8. m \in Seq(S) /\ o \in Seq(S)
  BY <1>1, <1>2
<1>3. m \o c \in Seq(S) /\ Len(m \o c) = Len(m) + Len(c) /\ (\A p \in 1..Len(m) : (m \o c)[p] = m[p])
      /\ \A p \in 1..Len(c) : (m \o c)[Len(m) + p] = c[p]
  <2>1. m \o c \in Seq(S) /\ Len(m \o c) = Len(m) + Len(c)
    BY <1>8, Joining
  <2>2. \A p \in 1..Len(m) : (m \o c)[p] = m[p]
    BY <1>8, Joining
  <2>3. \A p \in 1..Len(c) : (m \o c)[Len(m) + p] = c[p]
    BY <1>8, Joining
  <2> QED
    BY <2>1, <2>2, <2>3
<1>4. a \o o \in Seq(S) /\ Len(a \o o) = Len(a) + Len(o) /\ (\A p \in 1..Len(a) : (a \o o)[p] = a[p])
      /\ \A p \in 1..Len(o) : (a \o o)[Len(a) + p] = o[p]
  <2>1. a \o o \in Seq(S) /\ Len(a \o o) = Len(a) + Len(o)
    BY <1>8, Joining
  <2>2. \A p \in 1..Len(a) : (a \o o)[p] = a[p]
    BY <1>8, Joining
  <2>3. \A p \in 1..Len(o) : (a \o o)[Len(a) + p] = o[p]
    BY <1>8, Joining
  <2> QED
    BY <2>1, <2>2, <2>3
<1>5. Len(m \o c) = Len(a \o o) /\ Len(m \o c) = Len(a) + Len(b) + Len(c)
  BY <1>0, <1>1, <1>2, <1>3, <1>4
<1>6. ASSUME NEW p \in 1..Len(m \o c) PROVE (m \o c)[p] = (a \o o)[p]
  <2>0. p \in Nat /\ p >= 1 /\ p <= Len(a) + Len(b) + Len(c)
    BY <1>0, <1>5
  <2>1. CASE p <= Len(a)
    <3>1. p \in 1..Len(a) /\ p \in 1..Len(m)
      BY <1>0, <1>1, <2>0, <2>1
    <3> QED
      BY <1>1, <1>3, <1>4, <3>1
  <2>2. CASE p > Len(a) /\ p <= Len(a) + Len(b)
    <3> DEFINE j == p - Len(a)
    <3>1. j \in 1..Len(b) /\ p = Len(a) + j
      BY <1>0, <2>0, <2>2
    <3>2. p \in 1..Len(m) /\ j \in 1..Len(o)
      BY <1>0, <1>1, <1>2, <2>0, <2>2, <3>1
    <3> HIDE DEF j
    <3>3. (m \o c)[p] = m[Len(a) + j] /\ (a \o o)[Len(a) + j] = o[j]
      BY <1>3, <1>4, <3>1, <3>2
    <3>4. m[Len(a) + j] = b[j] /\ o[j] = b[j]
      BY <1>1, <1>2, <3>1
    <3> QED
      BY <3>1, <3>3, <3>4
  <2>3. CASE p > Len(a) + Len(b)
    <3> DEFINE j == p - (Len(a) + Len(b))
    <3>1. j \in 1..Len(c) /\ p = Len(m) + j /\ p = Len(a) + (Len(b) + j) /\ Len(b) + j \in 1..Len(o)
      BY <1>0, <1>1, <1>2, <2>0, <2>3
    <3> HIDE DEF j
    <3>2. (m \o c)[p] = c[j]
      BY <1>3, <3>1
    <3>3. (a \o o)[p] = o[Len(b) + j] /\ o[Len(b) + j] = c[j]
      BY <1>2, <1>4, <3>1
    <3> QED
      BY <3>2, <3>3
  <2>4. p <= Len(a) \/ (p > Len(a) /\ p <= Len(a) + Len(b)) \/ p > Len(a) + Len(b)
    BY <1>0, <2>0
  <2> QED
    BY <2>1, <2>2, <2>3, <2>4
<1>7. m \o c = a \o o
  BY <1>3, <1>4, <1>5, <1>6, SameSequence
<1> QED
  BY <1>7 DEF m, o

\* Concatenation under a name of its own, which the provers leave alone.
Cat(s, t) == s \o t

LEMMA CatAssoc ==
  ASSUME NEW S, NEW a \in Seq(S), NEW b \in Seq(S), NEW c \in Seq(S)
  PROVE  Cat(Cat(a, b), c) = Cat(a, Cat(b, c)) /\ Cat(a, b) \in Seq(S)
<1>1. Cat(Cat(a, b), c) = Cat(a, Cat(b, c))
  BY CatAssociates DEF Cat
<1>2. Cat(a, b) \in Seq(S)
  BY Joining DEF Cat
<1> QED
  BY <1>1, <1>2

LEMMA CatFour ==
  ASSUME NEW S, NEW a \in Seq(S), NEW b \in Seq(S), NEW c \in Seq(S), NEW d \in Seq(S)
  PROVE  Cat(Cat(a, Cat(b, c)), d) = Cat(Cat(a, b), Cat(c, d))
<1> DEFINE x == Cat(a, b)
<1>1. Cat(x, c) = Cat(a, Cat(b, c))
  BY CatAssoc
<1>2. x \in Seq(S)
  BY CatAssoc
<1> HIDE DEF x
<1>3. Cat(Cat(x, c), d) = Cat(x, Cat(c, d))
  BY <1>2, CatAssoc
<1> QED
  BY <1>1, <1>3 DEF x

\* The empty lines that have come are the first ones of the answer.
LEMMA EmptyLinesOfPart ==
  ASSUME NEW a \in Seq(Symbols), NEW b \in Seq(Symbols), NEW s, s = a \o b
  PROVE  /\ EmptyLines(a) \subseteq EmptyLines(s)
         /\ \A q \in EmptyLines(s) : q \in EmptyLines(a) \/ q >= Len(a)
<1>1. s \in Seq(Symbols) /\ Len(s) = Len(a) + Len(b)
  BY Joining
<1>2. \A p \in 1..Len(a) : s[p] = a[p]
  BY Joining
<1>3. Len(a) \in Nat /\ Len(b) \in Nat
  OBVIOUS
<1>4. ASSUME NEW q \in 1..(Len(a) - 1)
      PROVE  q \in 1..(Len(s) - 1) /\ s[q] = a[q] /\ s[q + 1] = a[q + 1]
  <2>1. q \in 1..Len(a) /\ q + 1 \in 1..Len(a) /\ q \in 1..(Len(s) - 1)
    BY <1>1, <1>3
  <2> QED
    BY <1>2, <2>1
<1>5. EmptyLines(a) \subseteq EmptyLines(s)
  BY <1>4 DEF EmptyLines
<1>6. ASSUME NEW q \in EmptyLines(s), ~(q >= Len(a)) PROVE q \in EmptyLines(a)
  <2>1. q \in 1..(Len(s) - 1) /\ s[q] = "crlf" /\ s[q + 1] = "crlf"
    BY DEF EmptyLines
  <2>2. q \in 1..(Len(a) - 1)
    BY <1>1, <1>3, <1>6, <2>1
  <2> QED
    BY <1>4, <2>1, <2>2 DEF EmptyLines
<1> QED
  BY <1>5, <1>6

\* EndOf finds the first empty line.
LEMMA EndOfRule ==
  ASSUME NEW s \in Seq(Symbols)
  PROVE  /\ EndOf(s) = 0 => EmptyLines(s) = {}
         /\ EndOf(s) # 0 =>
              EndOf(s) \in EmptyLines(s) /\ \A q \in EmptyLines(s) : EndOf(s) <= q
         /\ \A p \in EmptyLines(s) : (\A q \in EmptyLines(s) : p <= q) => EndOf(s) = p
<1> DEFINE E == EmptyLines(s)
<1>1. E \subseteq Nat /\ \A p \in E : p >= 1
  <2>1. Len(s) - 1 \in Int
    OBVIOUS
  <2> QED
    BY <2>1 DEF EmptyLines
<1>2. EndOf(s) = IF E = {} THEN 0 ELSE CHOOSE p \in E : \A q \in E : p =< q
  BY DEF EndOf, Min, EmptyLines
<1> HIDE DEF E
<1>3. CASE E = {}
  BY <1>2, <1>3 DEF E
<1>4. CASE E # {}
  <2>1. \E p \in E : \A q \in E : p <= q
    BY <1>1, <1>4, Least
  <2>2. EndOf(s) = CHOOSE p \in E : \A q \in E : p =< q
    BY <1>2, <1>4
  <2>3. EndOf(s) \in E /\ \A q \in E : EndOf(s) <= q
    BY <2>1, <2>2
  <2>4. EndOf(s) # 0
    BY <1>1, <2>3
  <2>5. ASSUME NEW p \in E, \A q \in E : p <= q PROVE EndOf(s) = p
    <3>1. p <= EndOf(s) /\ EndOf(s) <= p /\ p \in Nat /\ EndOf(s) \in Nat
      BY <1>1, <2>3, <2>5
    <3> QED
      BY <3>1
  <2> QED
    BY <2>3, <2>4, <2>5 DEF E
<1> QED
  BY <1>3, <1>4

LEMMA AnswersOfSymbols ==
  ASSUME DownloadAssumption, NEW a \in Answers PROVE a.stream \in Seq(Symbols)
<1>1. a.stream \in Seq(STRING)
  BY DEF DownloadAssumption
<1>2. \A s \in Seq(STRING) : s \in Seq(STRING \cup {"crlf"})
  OBVIOUS
<1> QED
  BY <1>1, <1>2 DEF Symbols

LEMMA DlBegins == ASSUME DownloadAssumption, DownloadInit PROVE DlInv
<1>1. /\ dpc = "idle" /\ answer = [stream |-> <<>>, length |-> 0]
      /\ drest = <<>> /\ buffer = <<>> /\ dcap = FirstCap /\ dheader = <<>> /\ chunk = <<>>
      /\ dbody = <<>> /\ ddisk = NoFile /\ file_length = 0 /\ holds = {} /\ dsaid = "none"
  BY DEF DownloadInit
<1>2. <<>> \in Seq(Symbols) /\ answer.stream = <<>> /\ FirstCap \in Nat
  BY <1>1 DEF DownloadAssumption
<1>3. DlTypes
  BY <1>1, <1>2 DEF DlTypes
<1>4. Collected /\ Parted /\ Written /\ SaidRight
  BY <1>1 DEF Collected, Parted, Written, SaidRight
<1> QED
  BY <1>3, <1>4 DEF DlInv

LEMMA PartsJoin ==
  ASSUME NEW S, NEW s \in Seq(S), NEW n \in 0..Len(s)
  PROVE  SubSeq(s, 1, n) \o SubSeq(s, n + 1, Len(s)) = s
<1> DEFINE a == SubSeq(s, 1, n)
           b == SubSeq(s, n + 1, Len(s))
<1>0. Len(s) \in Nat /\ n \in Nat /\ n <= Len(s)
  OBVIOUS
<1>1. a \in Seq(S) /\ Len(a) = n /\ \A p \in 1..n : a[p] = s[p]
  BY FirstPart
<1>2. b \in Seq(S) /\ Len(b) = Len(s) - n /\ \A p \in 1..(Len(s) - n) : b[p] = s[n + p]
  BY LastPart
<1> HIDE DEF a, b
<1>8. a \o b \in Seq(S) /\ Len(a \o b) = Len(a) + Len(b)
  BY <1>1, <1>2, Joining
<1>3. a \o b \in Seq(S) /\ Len(a \o b) = Len(s)
  BY <1>0, <1>1, <1>2, <1>8
<1>4. \A p \in 1..Len(a) : (a \o b)[p] = a[p]
  BY <1>1, <1>2, Joining
<1>5. \A p \in 1..Len(b) : (a \o b)[Len(a) + p] = b[p]
  BY <1>1, <1>2, Joining
<1>6. ASSUME NEW p \in 1..Len(s) PROVE (a \o b)[p] = s[p]
  <2>1. CASE p <= n
    BY <1>0, <1>1, <1>4, <2>1
  <2>2. CASE p > n
    <3> DEFINE j == p - n
    <3>1. j \in 1..Len(b) /\ j \in 1..(Len(s) - n) /\ p = Len(a) + j /\ p = n + j
      BY <1>0, <1>1, <1>2, <2>2
    <3> HIDE DEF j
    <3> QED
      BY <1>2, <1>5, <3>1
  <2>3. p <= n \/ p > n
    BY <1>0
  <2> QED
    BY <2>1, <2>2, <2>3
<1>7. a \o b = s
  BY <1>3, <1>6, SameSequence
<1> QED
  BY <1>7 DEF a, b

LEMMA PairSeq == ASSUME NEW S, NEW a \in S, NEW b \in S PROVE <<a, b>> \in Seq(S)
OBVIOUS

LEMMA TwoEnds == <<"crlf", "crlf">> \in Seq(Symbols)
<1> DEFINE c == "crlf"
<1>1. c \in Symbols
  BY DEF Symbols
<1> HIDE DEF c
<1>2. <<c, c>> \in Seq(Symbols)
  BY <1>1, PairSeq
<1> QED
  BY <1>2 DEF c

\* A text is what is before an empty line, the line's two ends, and what is behind it.
LEMMA AroundEmptyLine ==
  ASSUME NEW s \in Seq(Symbols), NEW p \in EmptyLines(s)
  PROVE  /\ p \in Nat /\ p >= 1 /\ p + 1 <= Len(s)
         /\ SubSeq(s, 1, p - 1) \in Seq(Symbols) /\ SubSeq(s, p + 2, Len(s)) \in Seq(Symbols)
         /\ (SubSeq(s, 1, p - 1) \o <<"crlf", "crlf">>) \o SubSeq(s, p + 2, Len(s)) = s
<1> DEFINE a == SubSeq(s, 1, p - 1)
           m == <<"crlf", "crlf">>
           x == SubSeq(s, 1, p + 1)
           b == SubSeq(s, p + 2, Len(s))
<1>0. Len(s) \in Nat
  OBVIOUS
<1>1. p \in 1..(Len(s) - 1) /\ s[p] = "crlf" /\ s[p + 1] = "crlf"
  BY DEF EmptyLines
<1>2. p \in Nat /\ p >= 1 /\ p + 1 <= Len(s) /\ p - 1 \in 0..Len(s) /\ p + 1 \in 0..Len(s) /\ (p + 1) + 1 = p + 2
  BY <1>0, <1>1
<1>3. a \in Seq(Symbols) /\ Len(a) = p - 1 /\ \A q \in 1..(p - 1) : a[q] = s[q]
  BY <1>2, FirstPart
<1>4. x \in Seq(Symbols) /\ Len(x) = p + 1 /\ \A q \in 1..(p + 1) : x[q] = s[q]
  BY <1>2, FirstPart
<1>5. SubSeq(s, (p + 1) + 1, Len(s)) \in Seq(Symbols)
  BY <1>2, LastPart
<1>6. x \o SubSeq(s, (p + 1) + 1, Len(s)) = s
  BY <1>2, PartsJoin
<1>7. m \in Seq(Symbols) /\ Len(m) = 2 /\ m[1] = "crlf" /\ m[2] = "crlf"
  <2>1. m \in Seq(Symbols)
    BY TwoEnds
  <2>2. Len(m) = 2
    OBVIOUS
  <2>3. m[1] = "crlf" /\ m[2] = "crlf"
    OBVIOUS
  <2> QED
    BY <2>1, <2>2, <2>3
<1>8. b \in Seq(Symbols) /\ x \o b = s
  BY <1>2, <1>5, <1>6
<1> HIDE DEF a, m, x, b
<1>14. a \o m \in Seq(Symbols) /\ Len(a \o m) = Len(a) + Len(m)
  BY <1>3, <1>7, Joining
<1>9. a \o m \in Seq(Symbols) /\ Len(a \o m) = p + 1
  BY <1>2, <1>3, <1>7, <1>14
<1>10. \A q \in 1..Len(a) : (a \o m)[q] = a[q]
  BY <1>3, <1>7, Joining
<1>11. \A q \in 1..Len(m) : (a \o m)[Len(a) + q] = m[q]
  <2>1. a \in Seq(Symbols) /\ m \in Seq(Symbols)
    BY <1>3, <1>7
  <2> QED
    BY ONLY <2>1, Joining
<1>12. ASSUME NEW q \in 1..(p + 1) PROVE (a \o m)[q] = x[q]
  <2>1. CASE q <= p - 1
    BY <1>2, <1>3, <1>4, <1>10, <2>1
  <2>2. CASE q = p
    <3>1. p = Len(a) + 1 /\ 1 \in 1..Len(m)
      BY <1>2, <1>3, <1>7
    <3>2. (a \o m)[p] = m[1]
      BY <1>11, <3>1
    <3> QED
      BY <1>1, <1>4, <1>7, <2>2, <3>2
  <2>3. CASE q = p + 1
    <3>1. p + 1 = Len(a) + 2 /\ 2 \in 1..Len(m)
      BY <1>2, <1>3, <1>7
    <3>2. (a \o m)[p + 1] = m[2]
      BY <1>11, <3>1
    <3> QED
      BY <1>1, <1>4, <1>7, <2>3, <3>2
  <2>4. q <= p - 1 \/ q = p \/ q = p + 1
    BY <1>2
  <2> QED
    BY <2>1, <2>2, <2>3, <2>4
<1>13. a \o m = x
  BY <1>2, <1>4, <1>9, <1>12, SameSequence
<1> QED
  BY <1>2, <1>3, <1>8, <1>13 DEF a, m, b

LEMMA DlConnects == ASSUME DownloadAssumption, DlInv, Connect PROVE DlInv'
<1>1. /\ dpc = "idle" /\ answer' \in Answers /\ drest' = answer'.stream /\ dpc' = "header" /\ holds' = {"buffer"}
      /\ UNCHANGED <<buffer, dcap, dheader, chunk, dbody, ddisk, file_length, dsaid, short>>
  BY DEF Connect
<1>2. answer'.stream \in Seq(Symbols) /\ FirstCap \in Nat \ {0}
  BY <1>1, AnswersOfSymbols DEF DownloadAssumption
<1>3. DlTypes /\ Written /\ SaidRight
  BY DEF DlInv
<1>4. buffer' = <<>> /\ dcap' \in Nat /\ FirstCap <= dcap' /\ Len(buffer') = 0
  BY <1>1, <1>3 DEF DlTypes
<1>5. DlTypes'
  BY <1>1, <1>2, <1>3, <1>4 DEF DlTypes
<1>6. Collected'
  <2>1. <<>> \o drest' = drest'
    BY <1>1, <1>2
  <2>2. EmptyLines(<<>>) = {}
    BY DEF EmptyLines
  <2> QED
    BY <1>1, <1>4, <2>1, <2>2 DEF Collected
<1>7. Parted'
  BY <1>1 DEF Parted
<1>8. Written'
  BY <1>1, <1>3 DEF Written
<1>9. SaidRight'
  BY <1>1, <1>3 DEF SaidRight
<1> QED
  BY <1>5, <1>6, <1>7, <1>8, <1>9 DEF DlInv

LEMMA Receives ==
  ASSUME DownloadAssumption, drest \in Seq(Symbols), NEW n \in Chunks, Take(n)
  PROVE  /\ n \in Nat /\ n <= FirstCap /\ Given(n) \in Seq(Symbols) /\ Len(Given(n)) = n
         /\ drest' \in Seq(Symbols) /\ Cat(Given(n), drest') = drest
<1>1. Len(drest) \in Nat /\ MostRead \in Nat /\ FirstCap \in Nat /\ MostRead <= FirstCap
  BY DEF DownloadAssumption
<1>2. n \in Nat /\ n <= Len(drest) /\ n <= MostRead
  BY <1>1 DEF Chunks
<1>3. n \in 0..Len(drest) /\ n <= FirstCap
  BY <1>1, <1>2
<1>4. SubSeq(drest, 1, n) \in Seq(Symbols) /\ Len(SubSeq(drest, 1, n)) = n
  BY <1>3, FirstPart
<1>5. SubSeq(drest, n + 1, Len(drest)) \in Seq(Symbols)
  BY <1>3, LastPart
<1>6. SubSeq(drest, 1, n) \o SubSeq(drest, n + 1, Len(drest)) = drest
  BY <1>3, PartsJoin
<1> QED
  BY <1>2, <1>3, <1>4, <1>5, <1>6 DEF Take, Given, Cat

LEMMA PartOfPart ==
  ASSUME NEW S, NEW a \in Seq(S), NEW b \in Seq(S), NEW n \in 0..Len(a)
  PROVE  SubSeq(a \o b, 1, n) = SubSeq(a, 1, n)
<1> DEFINE s == a \o b
<1>1. s \in Seq(S) /\ Len(s) = Len(a) + Len(b)
  BY Joining
<1>2. \A p \in 1..Len(a) : s[p] = a[p]
  BY Joining
<1> HIDE DEF s
<1>3. Len(a) \in Nat /\ Len(b) \in Nat /\ n \in 0..Len(s) /\ n \in Nat /\ n <= Len(a)
  BY <1>1
<1>4. SubSeq(s, 1, n) \in Seq(S) /\ Len(SubSeq(s, 1, n)) = n /\ \A p \in 1..n : SubSeq(s, 1, n)[p] = s[p]
  BY <1>1, <1>3, FirstPart
<1>5. SubSeq(a, 1, n) \in Seq(S) /\ Len(SubSeq(a, 1, n)) = n /\ \A p \in 1..n : SubSeq(a, 1, n)[p] = a[p]
  BY FirstPart
<1>6. \A p \in 1..n : SubSeq(s, 1, n)[p] = SubSeq(a, 1, n)[p]
  BY <1>2, <1>3, <1>4, <1>5
<1>7. SubSeq(s, 1, n) = SubSeq(a, 1, n)
  BY <1>4, <1>5, <1>6, SameSequence
<1> QED
  BY <1>7 DEF s

LEMMA DlHeader ==
  ASSUME DownloadAssumption, DlInv, NEW n \in Chunks, ExtractHeader(n) PROVE DlInv'
<1>1. /\ dpc = "header" /\ Take(n) /\ buffer' = buffer \o Given(n)
      /\ dcap' = IF Len(buffer) + n >= dcap THEN 2 * dcap ELSE dcap
      /\ UNCHANGED <<answer, ddisk, file_length, dsaid, short>>
  BY DEF ExtractHeader
<1>2. LET pos == EndOf(buffer')
      IN  IF pos = 0 THEN UNCHANGED <<dpc, dheader, chunk, dbody, holds>>
          ELSE /\ dheader' = SubSeq(buffer', 1, pos - 1)
               /\ chunk' = SubSeq(buffer', pos + 2, Len(buffer')) /\ dbody' = chunk'
               /\ holds' = {"header"} \cup (IF chunk' = <<>> THEN {} ELSE {"body"})
               /\ dpc' = "parse"
  BY DEF ExtractHeader, Searched
<1>3. DlTypes /\ Collected /\ Written /\ SaidRight
  BY DEF DlInv
<1>4. /\ buffer \in Seq(Symbols) /\ drest \in Seq(Symbols) /\ answer.stream \in Seq(Symbols)
      /\ dheader \in Seq(Symbols) /\ chunk \in Seq(Symbols) /\ dbody \in Seq(Symbols)
      /\ dcap \in Nat /\ FirstCap <= dcap /\ Len(buffer) < dcap
  BY <1>1, <1>3 DEF DlTypes
<1>5. /\ n \in Nat /\ n <= FirstCap /\ Given(n) \in Seq(Symbols) /\ Len(Given(n)) = n
      /\ drest' \in Seq(Symbols) /\ Cat(Given(n), drest') = drest
  BY <1>1, <1>4, Receives
<1>6. buffer' \in Seq(Symbols) /\ Len(buffer') = Len(buffer) + Len(Given(n))
  BY <1>1, <1>4, <1>5, Joining
<1>7. dcap' \in Nat /\ FirstCap <= dcap' /\ Len(buffer') < dcap'
  <2>1. FirstCap \in Nat /\ Len(buffer) \in Nat /\ Len(buffer') = Len(buffer) + n
    BY <1>4, <1>5, <1>6 DEF DownloadAssumption
  <2>2. CASE Len(buffer) + n >= dcap
    BY <1>1, <1>4, <1>5, <2>1, <2>2
  <2>3. CASE ~(Len(buffer) + n >= dcap)
    BY <1>1, <1>4, <1>5, <2>1, <2>3
  <2> QED
    BY <2>2, <2>3
<1>8. buffer' \o drest' = answer.stream
  <2>1. Cat(buffer, drest) = answer.stream
    BY <1>1, <1>3 DEF Collected, Cat
  <2>2. Cat(Cat(buffer, Given(n)), drest') = Cat(buffer, Cat(Given(n), drest'))
    BY <1>4, <1>5, CatAssoc
  <2>3. buffer' = Cat(buffer, Given(n))
    BY <1>1 DEF Cat
  <2>4. Cat(buffer', drest') = answer.stream
    BY <1>5, <2>1, <2>2, <2>3
  <2> QED
    BY <2>4 DEF Cat
<1>9. SaidRight' /\ dsaid' # "ok"
  BY <1>1, <1>3 DEF SaidRight
<1>10. CASE EndOf(buffer') = 0
  <2>1. UNCHANGED <<dpc, dheader, chunk, dbody, holds>>
    BY <1>2, <1>10
  <2>2. DlTypes'
    BY <1>1, <1>3, <1>4, <1>5, <1>6, <1>7, <2>1 DEF DlTypes
  <2>3. EmptyLines(buffer') = {}
    BY <1>6, <1>10, EndOfRule
  <2>4. Collected'
    BY <1>1, <1>8, <2>3 DEF Collected
  <2>5. Parted'
    BY <1>1, <2>1 DEF Parted
  <2>6. Written'
    BY <1>1, <1>3, <2>1 DEF Written
  <2> QED
    BY <1>9, <2>2, <2>4, <2>5, <2>6 DEF DlInv
<1>11. CASE EndOf(buffer') # 0
  <2> DEFINE pos == EndOf(buffer')
  <2>1. /\ dheader' = SubSeq(buffer', 1, pos - 1)
        /\ chunk' = SubSeq(buffer', pos + 2, Len(buffer')) /\ dbody' = chunk'
        /\ holds' = {"header"} \cup (IF chunk' = <<>> THEN {} ELSE {"body"})
        /\ dpc' = "parse"
    BY <1>2, <1>11
  <2>2. pos \in EmptyLines(buffer') /\ \A q \in EmptyLines(buffer') : pos <= q
    BY <1>6, <1>11, EndOfRule
  <2> HIDE DEF pos
  <2>3. pos \in Nat /\ pos >= 1 /\ pos + 1 <= Len(buffer')
    BY <1>6, <2>2, AroundEmptyLine
  <2>4. dheader' \in Seq(Symbols) /\ chunk' \in Seq(Symbols)
    BY <1>6, <2>1, <2>2, AroundEmptyLine
  <2>5. (dheader' \o <<"crlf", "crlf">>) \o dbody' = buffer'
    BY <1>6, <2>1, <2>2, AroundEmptyLine
  <2>6. DlTypes'
    <3>1. holds' \subseteq {"buffer", "header", "body"}
      BY <2>1
    <3> QED
      BY <1>1, <1>4, <1>5, <1>6, <1>7, <2>1, <2>4, <3>1 DEF DlTypes
  <2>7. Collected'
    BY <2>1 DEF Collected
  <2>8. pos \in EmptyLines(answer.stream) /\ \A q \in EmptyLines(answer.stream) : pos <= q
    <3>1. /\ EmptyLines(buffer') \subseteq EmptyLines(answer.stream)
          /\ \A q \in EmptyLines(answer.stream) : q \in EmptyLines(buffer') \/ q >= Len(buffer')
      BY <1>5, <1>6, <1>8, EmptyLinesOfPart
    <3>2. Len(buffer') \in Nat
      BY <1>6
    <3>3. ASSUME NEW q \in EmptyLines(answer.stream) PROVE pos <= q
      <4>1. CASE q \in EmptyLines(buffer')
        BY <2>2, <4>1
      <4>2. CASE q >= Len(buffer')
        <5>1. q \in Nat
          BY <1>4, AroundEmptyLine
        <5> QED
          BY <2>3, <3>2, <4>2, <5>1
      <4> QED
        BY <3>1, <4>1, <4>2
    <3> QED
      BY <2>2, <3>1, <3>3
  <2>9. dheader' = SubSeq(answer.stream, 1, pos - 1)
    <3>1. pos - 1 \in 0..Len(buffer')
      BY <1>6, <2>3
    <3>2. SubSeq(buffer' \o drest', 1, pos - 1) = SubSeq(buffer', 1, pos - 1)
      BY <1>5, <1>6, <3>1, PartOfPart
    <3> QED
      BY <1>8, <2>1, <3>2
  <2>10. Parted'
    <3>1. ((dheader' \o <<"crlf", "crlf">>) \o dbody') \o drest' = answer'.stream
      BY <1>1, <1>8, <2>5
    <3> QED
      BY <1>1, <2>8, <2>9, <3>1 DEF Parted
  <2>11. Written'
    BY <1>1, <1>3, <2>1 DEF Written
  <2> QED
    BY <1>9, <2>6, <2>7, <2>10, <2>11 DEF DlInv
<1> QED
  BY <1>10, <1>11

LEMMA DlFails ==
  ASSUME DlInv, Failed, dpc \in {"header", "parse"} PROVE DlInv'
<1>1. /\ dpc' = "failed" /\ holds' = {}
      /\ UNCHANGED <<answer, drest, buffer, dcap, dheader, chunk, dbody, ddisk, file_length, dsaid, short>>
  BY DEF Failed
<1>2. DlTypes /\ Written /\ SaidRight
  BY DEF DlInv
<1>3. DlTypes'
  BY <1>1, <1>2 DEF DlTypes
<1>4. Collected' /\ Parted'
  BY <1>1 DEF Collected, Parted
<1>5. Written'
  BY <1>1, <1>2 DEF Written
<1>6. SaidRight'
  BY <1>1, <1>2 DEF SaidRight
<1> QED
  BY <1>3, <1>4, <1>5, <1>6 DEF DlInv

LEMMA NothingBefore == \A S : \A s \in Seq(S) : <<>> \o s = s /\ s \o <<>> = s
OBVIOUS

LEMMA DlParse == ASSUME DlInv, Parse PROVE DlInv'
<1>1. /\ dpc = "parse"
      /\ UNCHANGED <<answer, drest, buffer, dcap, dheader, chunk, dbody, file_length, dsaid, short>>
      /\ \/ dpc' = "save" /\ ddisk' = <<>> /\ UNCHANGED holds
         \/ dpc' = "ended" /\ holds' = {} /\ UNCHANGED ddisk
  BY DEF Parse
<1>2. DlTypes /\ Parted /\ Written /\ SaidRight
  BY DEF DlInv
<1>3. DlTypes'
  BY <1>1, <1>2 DEF DlTypes
<1>4. Collected'
  BY <1>1 DEF Collected
<1>5. Parted'
  BY <1>1, <1>2 DEF Parted
<1>6. Written'
  <2>1. ddisk = NoFile /\ file_length = 0 /\ chunk = dbody /\ dbody \in Seq(Symbols)
    BY <1>1, <1>2 DEF Written, DlTypes
  <2>2. CASE dpc' = "save" /\ ddisk' = <<>>
    <3>1. <<>> \in Seq(Symbols) /\ Len(<<>>) = 0 /\ <<>> \o chunk = dbody
      BY <2>1, NothingBefore
    <3> QED
      BY <1>1, <2>1, <2>2, <3>1 DEF Written
  <2>3. CASE dpc' = "ended" /\ UNCHANGED ddisk
    BY <1>1, <2>1, <2>3 DEF Written
  <2> QED
    BY <1>1, <2>2, <2>3
<1>7. SaidRight'
  BY <1>1, <1>2 DEF SaidRight
<1> QED
  BY <1>3, <1>4, <1>5, <1>6, <1>7 DEF DlInv

LEMMA DlSave ==
  ASSUME DlInv, NEW n \in 0..Len(chunk), Save(n) PROVE DlInv'
<1>1. /\ dpc = "save" /\ ddisk' = ddisk \o SubSeq(chunk, 1, n) /\ file_length' = file_length + n
      /\ short' = (short \/ n < Len(chunk)) /\ dpc' = "body" /\ chunk' = <<>>
      /\ UNCHANGED <<answer, drest, buffer, dcap, dheader, dbody, holds, dsaid>>
  BY DEF Save
<1>2. DlTypes /\ Parted /\ Written /\ SaidRight
  BY DEF DlInv
<1>3. DlTypes'
  <2>1. <<>> \in Seq(Symbols)
    OBVIOUS
  <2> QED
    BY <1>1, <1>2, <2>1 DEF DlTypes
<1>4. Collected'
  BY <1>1 DEF Collected
<1>5. Parted'
  BY <1>1, <1>2 DEF Parted
<1>6. Written'
  <2>1. /\ ddisk \in Seq(Symbols) /\ file_length = Len(ddisk) /\ (~short => ddisk \o chunk = dbody)
        /\ chunk \in Seq(Symbols)
    BY <1>1, <1>2 DEF Written, DlTypes
  <2>2. SubSeq(chunk, 1, n) \in Seq(Symbols) /\ Len(SubSeq(chunk, 1, n)) = n
    BY <2>1, FirstPart
  <2>3. ddisk' \in Seq(Symbols) /\ Len(ddisk') = Len(ddisk) + n
    BY <1>1, <2>1, <2>2, Joining
  <2>4. ddisk' \o chunk' = ddisk'
    BY <1>1, <2>3, NothingBefore
  <2>5. ASSUME ~short' PROVE ddisk' = dbody'
    <3>1. ~short /\ ~(n < Len(chunk))
      BY <1>1, <2>5
    <3>2. n = Len(chunk)
      BY <2>1, <3>1
    <3>3. SubSeq(chunk, 1, Len(chunk)) = chunk
      BY <2>1
    <3> QED
      BY <1>1, <2>1, <3>1, <3>2, <3>3
  <2> QED
    BY <1>1, <2>1, <2>3, <2>4, <2>5 DEF Written
<1>7. SaidRight'
  BY <1>1, <1>2 DEF SaidRight
<1> QED
  BY <1>3, <1>4, <1>5, <1>6, <1>7 DEF DlInv

LEMMA DlBody ==
  ASSUME DownloadAssumption, DlInv, NEW n \in Chunks, ReadBody(n) PROVE DlInv'
<1>1. /\ dpc = "body" /\ Take(n) /\ chunk' = Given(n) /\ dbody' = dbody \o chunk' /\ dpc' = "save"
      /\ UNCHANGED <<answer, buffer, dcap, dheader, ddisk, file_length, holds, dsaid, short>>
  BY DEF ReadBody
<1>2. DlTypes /\ Parted /\ Written /\ SaidRight
  BY DEF DlInv
<1>3. /\ drest \in Seq(Symbols) /\ dbody \in Seq(Symbols) /\ dheader \in Seq(Symbols)
  BY <1>2 DEF DlTypes
<1>4. /\ chunk' \in Seq(Symbols) /\ drest' \in Seq(Symbols) /\ Cat(chunk', drest') = drest
  BY <1>1, <1>3, Receives
<1>5. dbody' \in Seq(Symbols)
  BY <1>1, <1>3, <1>4, Joining
<1>6. DlTypes'
  BY <1>1, <1>2, <1>4, <1>5 DEF DlTypes
<1>7. Collected'
  BY <1>1 DEF Collected
<1>8. Parted'
  <2> DEFINE h == dheader \o <<"crlf", "crlf">>
  <2>1. PICK p \in EmptyLines(answer.stream) :
          /\ \A q \in EmptyLines(answer.stream) : p <= q
          /\ dheader = SubSeq(answer.stream, 1, p - 1)
          /\ (h \o dbody) \o drest = answer.stream
    BY <1>1, <1>2 DEF Parted
  <2>2. h \in Seq(Symbols)
    BY <1>3, TwoEnds, Joining
  <2> HIDE DEF h
  <2>3. Cat(Cat(h, Cat(dbody, chunk')), drest') = Cat(Cat(h, dbody), Cat(chunk', drest'))
    BY <1>3, <1>4, <2>2, CatFour
  <2>4. Cat(Cat(h, dbody), drest) = answer.stream /\ dbody' = Cat(dbody, chunk')
    BY <1>1, <2>1 DEF Cat
  <2>5. Cat(Cat(h, dbody'), drest') = answer.stream
    BY <1>4, <2>3, <2>4
  <2>6. (h \o dbody') \o drest' = answer.stream
    BY <2>5 DEF Cat
  <2> QED
    BY <1>1, <2>1, <2>6 DEF Parted, h
<1>9. Written'
  <2>1. ddisk \in Seq(Symbols) /\ file_length = Len(ddisk) /\ (~short => ddisk \o <<>> = dbody)
    BY <1>1, <1>2 DEF Written
  <2>2. ~short => ddisk = dbody
    BY <2>1, NothingBefore
  <2> QED
    BY <1>1, <2>1, <2>2 DEF Written
<1>10. SaidRight'
  BY <1>1, <1>2 DEF SaidRight
<1> QED
  BY <1>6, <1>7, <1>8, <1>9, <1>10 DEF DlInv

\* The server closes or resets the connection.
LEMMA DlEnds == ASSUME DlInv, Closed \/ Reset PROVE DlInv'
<1>1. /\ dpc = "body" /\ dpc' = "ended" /\ holds' = {} /\ (dsaid' = "ok" => Whole)
      /\ UNCHANGED <<answer, drest, buffer, dcap, dheader, chunk, dbody, ddisk, file_length, short>>
  BY DEF Closed, Reset
<1>2. DlTypes /\ Parted /\ Written
  BY DEF DlInv
<1>3. DlTypes'
  BY <1>1, <1>2 DEF DlTypes
<1>4. Collected'
  BY <1>1 DEF Collected
<1>5. Parted'
  BY <1>1, <1>2 DEF Parted
<1>6. Written'
  BY <1>1, <1>2 DEF Written
<1>7. SaidRight'
  <2>1. ddisk \in Seq(Symbols) /\ file_length = Len(ddisk) /\ (~short => ddisk \o <<>> = dbody)
    BY <1>1, <1>2 DEF Written
  <2>2. ~short => ddisk = dbody
    BY <2>1, NothingBefore
  <2> QED
    BY <1>1, <2>1, <2>2 DEF SaidRight, Whole
<1> QED
  BY <1>3, <1>4, <1>5, <1>6, <1>7 DEF DlInv

LEMMA DlStay == ASSUME DlInv, UNCHANGED downloadvars PROVE DlInv'
<1>1. UNCHANGED <<dpc, answer, drest, buffer, dcap, dheader, chunk, dbody, ddisk, file_length, holds, dsaid, short>>
  BY DEF downloadvars
<1>2. DlTypes'
  BY <1>1 DEF DlInv, DlTypes
<1>3. Collected' /\ Parted'
  BY <1>1 DEF DlInv, Collected, Parted
<1>4. Written' /\ SaidRight'
  BY <1>1 DEF DlInv, Written, SaidRight
<1> QED
  BY <1>2, <1>3, <1>4 DEF DlInv

LEMMA DlStep ==
  ASSUME DownloadAssumption, DlInv, [DownloadNext]_downloadvars PROVE DlInv'
<1>1. CASE Connect
  BY <1>1, DlConnects
<1>2. CASE HeaderFails \/ FileFails
  BY <1>2, DlFails DEF HeaderFails, FileFails
<1>3. CASE Parse
  BY <1>3, DlParse
<1>4. CASE Closed \/ Reset
  BY <1>4, DlEnds
<1>5. ASSUME NEW n \in Chunks, ExtractHeader(n) \/ ReadBody(n) PROVE DlInv'
  BY <1>5, DlHeader, DlBody
<1>6. ASSUME NEW n \in 0..Len(chunk), Save(n) PROVE DlInv'
  BY <1>6, DlSave
<1>7. CASE UNCHANGED downloadvars
  BY <1>7, DlStay
<1> QED
  BY <1>1, <1>2, <1>3, <1>4, <1>5, <1>6, <1>7 DEF DownloadNext

LEMMA DlGood == ASSUME DlInv PROVE DownloadSaved
<1>1. DlTypes /\ Parted /\ Written /\ SaidRight
  BY DEF DlInv
<1>2. DownloadTypeOK
  BY <1>1 DEF DlTypes, DownloadTypeOK
<1>3. Divided
  <2> SUFFICES ASSUME dpc \notin {"idle", "header", "failed"}
               PROVE  /\ EndOf(answer.stream) # 0
                      /\ dheader = SubSeq(answer.stream, 1, EndOf(answer.stream) - 1)
                      /\ ((dheader \o <<"crlf", "crlf">>) \o dbody) \o drest = answer.stream
    BY DEF Divided
  <2>1. PICK p \in EmptyLines(answer.stream) :
          /\ \A q \in EmptyLines(answer.stream) : p <= q
          /\ dheader = SubSeq(answer.stream, 1, p - 1)
          /\ ((dheader \o <<"crlf", "crlf">>) \o dbody) \o drest = answer.stream
    BY <1>1 DEF Parted
  <2>2. answer.stream \in Seq(Symbols)
    BY <1>1 DEF DlTypes
  <2>3. EndOf(answer.stream) = p
    BY <2>1, <2>2, EndOfRule
  <2>4. p >= 1 /\ p \in Nat
    BY <2>2, AroundEmptyLine
  <2> QED
    BY <2>1, <2>3, <2>4
<1>4. ddisk # NoFile /\ ~short => ddisk \o chunk = dbody
  BY <1>1 DEF Written
<1>5. ASSUME dsaid = "ok"
      PROVE  /\ Len(ddisk) = answer.length
             /\ ~short => IsPrefix(ddisk, dbody)
             /\ ~short /\ Len(dbody \o drest) = answer.length => drest = <<>>
  <2>1. Len(ddisk) = answer.length /\ (~short => ddisk = dbody)
    BY <1>1, <1>5 DEF SaidRight
  <2>2. dbody \in Seq(Symbols) /\ drest \in Seq(Symbols)
    BY <1>1 DEF DlTypes
  <2>3. IsPrefix(dbody, dbody)
    BY <2>2 DEF IsPrefix
  <2>4. Len(dbody \o drest) = Len(dbody) + Len(drest) /\ Len(dbody) \in Nat /\ Len(drest) \in Nat
    BY <2>2, Joining
  <2>5. Len(drest) = 0 => drest = <<>>
    BY <2>2
  <2> QED
    BY <2>1, <2>3, <2>4, <2>5
<1> QED
  BY <1>2, <1>3, <1>4, <1>5 DEF DownloadSaved

\* What dl saves is what the server sent behind its header, however the network cuts the answer;
\* OK is said for a file of the length announced, and then nothing of it is missing.
THEOREM DownloadedAlways == ASSUME DownloadAssumption PROVE DownloadSpec => []DownloadSaved
<1>1. DownloadInit => DlInv
  BY DlBegins
<1>2. DlInv /\ [DownloadNext]_downloadvars => DlInv'
  BY DlStep
<1>3. DlInv => DownloadSaved
  BY DlGood
<1> QED
  BY <1>1, <1>2, <1>3, PTL DEF DownloadSpec

-----------------------------------------------------------------------------
(***************************************************************************)
(* The progress bars (Download), for any lengths, pieces, widths of the    *)
(* terminal and what counts as a hundred.                                  *)
(***************************************************************************)
BarSet == [width : Int, filled : Int, percent : Int]

\* The progress the last bar was drawn for.
Progress == AtMost(gone, announced)

\* A bar shows no more than the whole, and shows the whole as the whole.
GoodBar(b, g) ==
  /\ b.percent <= Percents
  /\ b.percent = Percents =>
       /\ b.width > 10 \/ bars = "loop" => b.filled = b.width
       /\ bars = "loop" \/ g >= announced
  /\ b.filled = b.width /\ bars # "loop" => b.percent = Percents

BarTypes ==
  /\ bars \in {"download", "transfer", "loop"} /\ announced \in Nat /\ gone \in Nat
  /\ shown \in Seq(BarSet) /\ Len(shown) <= 2

Latest == shown[Len(shown)].percent

\* The last bar shows what has gone, and the one before it shows less.
LoopShown ==
  bars = "loop" =>
    /\ announced = Percents /\ (~over => gone <= Percents)
    /\ shown # <<>> => Latest = gone - 1
DownloadShown ==
  bars = "download" /\ shown # <<>> => announced # 0 /\ Latest \in Scaled(Progress, Percents)
TransferShown ==
  bars = "transfer" =>
    /\ announced # 0 => previous \in Scaled(Progress, Percents)
    /\ shown # <<>> => announced # 0 /\ Latest = previous

BarsGood == \A p \in DOMAIN shown : GoodBar(shown[p], gone)
InOrder ==
  Len(shown) = 2 =>
    IF bars = "transfer" THEN shown[2].percent > shown[1].percent ELSE shown[2].percent >= shown[1].percent

BarsInv ==
  /\ BarTypes /\ LoopShown /\ DownloadShown /\ TransferShown /\ BarsGood /\ InOrder

-----------------------------------------------------------------------------
LEMMA Quotient ==
  ASSUME NEW x \in Nat, NEW a \in Nat, a # 0
  PROVE  x \div a \in Nat /\ a * (x \div a) <= x /\ x < a * (x \div a) + a
OBVIOUS

LEMMA Remainder ==
  ASSUME NEW x \in Nat, NEW a \in Nat, a # 0, x % a = 0
  PROVE  a * (x \div a) = x
OBVIOUS

LEMMA TimesLess ==
  ASSUME NEW a \in Nat, a # 0, NEW x \in Int, NEW y \in Int
  PROVE  (x < y <=> a * x < a * y) /\ (x <= y <=> a * x <= a * y) /\ a * x \in Int
OBVIOUS

LEMMA TimesOne == ASSUME NEW a \in Nat, NEW x \in Int PROVE a * (x + 1) = a * x + a
OBVIOUS

LEMMA Turned == ASSUME NEW a \in Int, NEW b \in Int PROVE a * b = b * a /\ a * b \in Int
OBVIOUS

\* What is scaled is the quotient, or one less where the product is a whole number.
LEMMA ScaledUp ==
  ASSUME announced \in Nat, announced # 0, NEW p \in Nat, p <= announced, NEW n \in Nat,
         NEW f \in Scaled(p, n)
  PROVE  /\ (p * n) \div announced \in Nat /\ (p * n) \div announced <= n
         /\ \/ f = (p * n) \div announced
            \/ /\ f = (p * n) \div announced - 1 /\ f >= 0
               /\ (p * n) % announced = 0 /\ p # announced /\ p # 0
         /\ f \in Nat /\ f <= n
<1> DEFINE e == (p * n) \div announced
<1>1. p * n \in Nat /\ announced * n \in Nat /\ p * n <= announced * n
  <2>1. CASE n = 0
    BY <2>1
  <2>2. CASE n # 0
    <3>1. n * p <= n * announced
      BY <2>2, TimesLess
    <3> QED
      BY <3>1, Turned
  <2> QED
    BY <2>1, <2>2
<1>2. e \in Nat /\ announced * e <= p * n
  BY <1>1, Quotient
<1>3. e <= n
  <2>1. announced * e <= announced * n
    <3>1. announced * e \in Int
      BY <1>2, Turned
    <3> HIDE DEF e
    <3> QED
      BY <1>1, <1>2, <3>1
  <2> HIDE DEF e
  <2> QED
    BY <1>2, <2>1, TimesLess
<1>4. \/ f = e
      \/ f = e - 1 /\ e > 0 /\ (p * n) % announced = 0 /\ p # announced /\ p # 0
  <2>1. ~(n < 0) /\ AtLeast(n, -n) = n
    BY DEF AtLeast
  <2>2. f \in {1 * e} \cup IF (p * n) % announced = 0 /\ p \notin {0, announced} /\ e > 0 THEN {1 * (e - 1)} ELSE {}
    BY <2>1 DEF Scaled
  <2>3. 1 * e = e /\ 1 * (e - 1) = e - 1
    BY <1>2
  <2> HIDE DEF e
  <2> QED
    BY <2>2, <2>3
<1> HIDE DEF e
<1>5. f \in Nat /\ f <= n /\ (f = e - 1 => f >= 0 \/ e = 0)
  BY <1>2, <1>3, <1>4
<1> QED
  BY <1>2, <1>3, <1>4, <1>5 DEF e

\* Ratio 1 is exact.
LEMMA ScaledWhole ==
  ASSUME announced \in Nat, announced # 0, NEW n \in Nat, NEW f \in Scaled(announced, n)
  PROVE  f = n
<1> DEFINE e == (announced * n) \div announced
<1>1. announced * n \in Nat
  OBVIOUS
<1>2. e \in Nat /\ announced * e <= announced * n /\ announced * n < announced * e + announced
  BY <1>1, Quotient
<1>3. f = e /\ e <= n
  BY ScaledUp
<1> HIDE DEF e
<1>4. announced * n < announced * (e + 1)
  BY <1>2, TimesOne
<1>5. n < e + 1
  BY <1>2, <1>4, TimesLess
<1> QED
  BY <1>2, <1>3, <1>5

\* Only ratio 1 gives the whole.
LEMMA WholeScaled ==
  ASSUME announced \in Nat, announced # 0, NEW p \in Nat, p <= announced, NEW n \in Nat, n # 0,
         n \in Scaled(p, n)
  PROVE  p = announced
<1> DEFINE e == (p * n) \div announced
<1>1. p * n \in Nat
  OBVIOUS
<1>2. e \in Nat /\ announced * e <= p * n
  BY <1>1, Quotient
<1>3. e <= n /\ (n = e \/ n = e - 1)
  BY ScaledUp
<1> HIDE DEF e
<1>4. e = n
  BY <1>2, <1>3
<1>5. n * announced <= n * p
  BY <1>2, <1>4, Turned
<1>6. announced <= p
  BY <1>5, TimesLess
<1> QED
  BY <1>6

\* More progress never shows less.
LEMMA ScaledMore ==
  ASSUME announced \in Nat, announced # 0, NEW p \in Nat, NEW q \in Nat, p <= q, q <= announced,
         p < q \/ q = announced,
         NEW n \in Nat, n # 0, NEW f \in Scaled(p, n), NEW g \in Scaled(q, n)
  PROVE  f <= g
<1> DEFINE e == (p * n) \div announced
           d == (q * n) \div announced
<1>1. p <= announced
  OBVIOUS
<1>2. e \in Nat /\ f \in Nat /\ f <= n /\ f <= e
  <2>1. e \in Nat /\ (f = e \/ f = e - 1) /\ f \in Nat /\ f <= n
    BY <1>1, ScaledUp
  <2> HIDE DEF e
  <2> QED
    BY <2>1
<1>3. d \in Nat /\ (g = d \/ (g = d - 1 /\ (q * n) % announced = 0 /\ q # announced)) /\ g \in Nat
  BY ScaledUp
<1>4. p * n \in Nat /\ q * n \in Nat /\ n * p = p * n /\ n * q = q * n
  BY Turned
<1>5. announced * e <= p * n
  BY <1>4, Quotient
<1>6. q * n < announced * d + announced
  BY <1>4, Quotient
<1>7. (q * n) % announced = 0 => announced * d = q * n
  BY <1>4, Remainder
<1> HIDE DEF e, d
<1>8. p * n <= q * n /\ (p < q => p * n < q * n)
  <2>1. n * p <= n * q /\ (p < q => n * p < n * q)
    BY TimesLess
  <2> QED
    BY <1>4, <2>1
<1>9. announced * e \in Int /\ announced * d \in Int
  BY <1>2, <1>3, TimesLess
<1>10. e <= d
  <2>1. announced * e < announced * d + announced
    BY <1>4, <1>5, <1>6, <1>8, <1>9
  <2>2. announced * e < announced * (d + 1)
    BY <1>3, <2>1, TimesOne
  <2>3. e < d + 1
    BY <1>2, <1>3, <2>2, TimesLess
  <2> QED
    BY <1>2, <1>3, <2>3
<1>11. CASE g = d
  BY <1>2, <1>3, <1>10, <1>11
<1>12. CASE g = d - 1 /\ (q * n) % announced = 0 /\ q # announced
  <2>1. announced * e < announced * d
    BY <1>4, <1>5, <1>7, <1>8, <1>9, <1>12
  <2>2. e < d
    BY <1>2, <1>3, <2>1, TimesLess
  <2> QED
    BY <1>2, <1>3, <1>12, <2>2
<1> QED
  BY <1>3, <1>11, <1>12

LEMMA SmallNumbers == \A n \in Nat : (n <= 1 => n = 0 \/ n = 1) /\ (1 < n /\ n <= 2 => n = 2)
OBVIOUS

\* The last bar but one is forgotten when a bar is drawn.
LEMMA DrawnRule ==
  ASSUME BarTypes, NEW b \in BarSet, Drawn(b)
  PROVE  /\ shown' \in Seq(BarSet) /\ Len(shown') <= 2 /\ shown' # <<>> /\ shown'[Len(shown')] = b
         /\ \A p \in DOMAIN shown' : shown'[p] = b \/ \E q \in DOMAIN shown : shown'[p] = shown[q]
         /\ Len(shown') = 2 => shown # <<>> /\ shown'[2] = b /\ shown'[1] = shown[Len(shown)]
<1> DEFINE k == IF Len(shown) < 2 THEN shown ELSE Tail(shown)
<1>1. shown \in Seq(BarSet) /\ Len(shown) \in Nat /\ Len(shown) <= 2 /\ shown' = Append(k, b)
  BY DEF BarTypes, Drawn
<1>2. /\ k \in Seq(BarSet) /\ Len(k) <= 1
      /\ Len(k) = 1 => Len(shown) \in {1, 2} /\ k[1] = shown[Len(shown)]
  <2>1. CASE Len(shown) < 2
    BY <1>1, <2>1
  <2>2. CASE Len(shown) = 2
    <3>1. Tail(shown) \in Seq(BarSet) /\ Len(Tail(shown)) = 1 /\ Tail(shown)[1] = shown[2]
      BY <1>1, <2>2
    <3>2. k = Tail(shown)
      BY <2>2
    <3>3. shown[Len(shown)] = shown[2] /\ Len(shown) \in {1, 2}
      BY <2>2
    <3> HIDE DEF k
    <3>4. k \in Seq(BarSet) /\ Len(k) = 1 /\ k[1] = shown[2]
      BY <3>1, <3>2
    <3>5. Len(k) <= 1
      BY <3>4
    <3> QED
      BY <3>3, <3>4, <3>5
  <2> QED
    BY <1>1, <2>1, <2>2
<1> HIDE DEF k
<1>8. Len(k) \in Nat
  BY <1>2
<1>9. Len(k) <= 1
  BY <1>2
<1>3. Len(k) = 0 \/ Len(k) = 1
  BY ONLY <1>8, <1>9, SmallNumbers
<1>4. Append(k, b) \in Seq(BarSet) /\ Len(Append(k, b)) = Len(k) + 1 /\ Append(k, b)[Len(k) + 1] = b
  BY <1>2
<1>5. \A p \in 1..Len(k) : Append(k, b)[p] = k[p]
  BY <1>2
<1>6. CASE Len(k) = 0
  <2>1. Len(shown') = 1 /\ shown'[1] = b /\ DOMAIN shown' = {1} /\ shown' # <<>>
    BY <1>1, <1>4, <1>6
  <2> QED
    BY <1>1, <1>4, <2>1
<1>7. CASE Len(k) = 1
  <2>1. Len(shown') = 2 /\ shown'[2] = b /\ DOMAIN shown' = {1, 2} /\ shown' # <<>>
    BY <1>1, <1>4, <1>7
  <2>2. shown'[1] = shown[Len(shown)] /\ Len(shown) \in DOMAIN shown /\ shown # <<>>
    BY <1>1, <1>2, <1>5, <1>7
  <2> QED
    BY <1>1, <1>4, <2>1, <2>2
<1> QED
  BY <1>3, <1>6, <1>7

\* A bar that shows no less than the last one, and shows it rightly, keeps the rest.
LEMMA DrawnGood ==
  ASSUME BarTypes, BarsGood, InOrder, NEW b \in BarSet, Drawn(b), gone \in Nat, gone' \in Nat, gone' >= gone,
         UNCHANGED <<bars, announced>>, announced \in Nat,
         GoodBar(b, gone'),
         shown # <<>> => IF bars = "transfer" THEN b.percent > Latest ELSE b.percent >= Latest
  PROVE  BarTypes' /\ BarsGood' /\ InOrder' /\ shown' # <<>> /\ Latest' = b.percent
<1>1. /\ shown' \in Seq(BarSet) /\ Len(shown') <= 2 /\ shown' # <<>> /\ shown'[Len(shown')] = b
      /\ \A p \in DOMAIN shown' : shown'[p] = b \/ \E q \in DOMAIN shown : shown'[p] = shown[q]
      /\ Len(shown') = 2 => shown # <<>> /\ shown'[2] = b /\ shown'[1] = shown[Len(shown)]
  BY DrawnRule
<1>2. BarTypes'
  BY <1>1 DEF BarTypes
<1>3. \A r : GoodBar(r, gone) => GoodBar(r, gone')
  BY DEF GoodBar
<1>4. \A r : GoodBar(r, gone') => GoodBar(r, gone)'
  BY DEF GoodBar
<1>5. BarsGood'
  <2>1. ASSUME NEW p \in DOMAIN shown' PROVE GoodBar(shown'[p], gone')
    BY <1>1, <1>3, <2>1 DEF BarsGood
  <2> QED
    BY <2>1 DEF BarsGood, GoodBar
<1>6. InOrder'
  BY <1>1 DEF InOrder, Latest
<1>7. Latest' = b.percent
  BY <1>1 DEF Latest
<1> QED
  BY <1>1, <1>2, <1>5, <1>6, <1>7

\* What happens where nothing is drawn.
LEMMA NotDrawn ==
  ASSUME BarTypes, BarsGood, InOrder, UNCHANGED <<bars, announced, shown>>, gone' \in Nat, gone' >= gone
  PROVE  BarTypes' /\ BarsGood' /\ InOrder' /\ Latest' = Latest
<1>1. BarTypes' /\ gone \in Nat /\ announced \in Nat
  BY DEF BarTypes
<1>2. InOrder' /\ Latest' = Latest
  BY DEF InOrder, Latest
<1>3. \A r : GoodBar(r, gone) => GoodBar(r, gone)'
  BY <1>1 DEF GoodBar
<1>4. BarsGood'
  <2>1. ASSUME NEW p \in DOMAIN shown' PROVE GoodBar(shown[p], gone)'
    BY <1>3 DEF BarsGood
  <2> QED
    BY <2>1 DEF BarsGood
<1> QED
  BY <1>1, <1>2, <1>4

\* A piece of one of the transfers is drawn rightly.
LEMMA PieceBar ==
  ASSUME ProgressAssumption, BarTypes, bars # "loop", announced # 0, NEW p \in Nat, p <= announced,
         NEW g \in Nat, p = announced => g >= announced,
         NEW width \in Widths, NEW percent \in Scaled(p, Percents), NEW filled \in Scaled(p, width - 12)
  PROVE  /\ Bar(AtLeast(width - 12, 10), filled, percent) \in BarSet
         /\ Bar(AtLeast(width - 12, 10), filled, percent).percent = percent
         /\ GoodBar(Bar(AtLeast(width - 12, 10), filled, percent), g)
<1> DEFINE room == AtLeast(width - 12, 10)
           part == AtMost(AtLeast(filled, 0), room)
           b == Bar(room, filled, percent)
<1>1. width \in Nat /\ width - 12 \in Int /\ Percents \in Nat /\ Percents # 0 /\ announced \in Nat
  BY DEF ProgressAssumption, BarTypes
<1>2. room \in Nat /\ room >= 10 /\ room >= width - 12 /\ (room > 10 => room = width - 12)
  BY <1>1 DEF AtLeast
<1>3. percent \in Nat /\ percent <= Percents
  BY <1>1, ScaledUp
<1>4. b = [width |-> room, filled |-> part, percent |-> percent]
  BY DEF Bar
<1>5. percent = Percents => p = announced
  BY <1>1, WholeScaled
<1>6. p = announced => percent = Percents
  BY <1>1, ScaledWhole
<1>7. CASE width - 12 >= 0
  <2> DEFINE n == width - 12
  <2>1. n \in Nat /\ filled \in Scaled(p, n)
    BY <1>1, <1>7
  <2>2. n <= room /\ (room > 10 => room = n) /\ (room = n => n # 0)
    BY <1>2
  <2> HIDE DEF n
  <2>3. filled \in Nat /\ filled <= n
    BY <1>1, <2>1, ScaledUp
  <2>4. p = announced => filled = n
    BY <1>1, <2>1, ScaledWhole
  <2>5. filled = n /\ n # 0 => p = announced
    BY <1>1, <2>1, WholeScaled
  <2>6. part = filled
    <3> HIDE DEF room
    <3> QED
      BY <1>2, <2>1, <2>2, <2>3 DEF AtMost, AtLeast
  <2>7. part = room => filled = n /\ n # 0
    <3> HIDE DEF room, part
    <3> QED
      BY <1>2, <2>1, <2>2, <2>3, <2>6
  <2> HIDE DEF room, part, b
  <2>8. part \in Int /\ room \in Int
    BY <1>2, <2>3, <2>6
  <2>9. b \in BarSet /\ b.percent = percent
    BY <1>3, <1>4, <2>8 DEF BarSet
  <2>10. GoodBar(b, g)
    BY <1>2, <1>3, <1>4, <1>5, <1>6, <2>2, <2>4, <2>5, <2>6, <2>7 DEF GoodBar
  <2> QED
    BY <2>9, <2>10 DEF b, room
<1>8. CASE ~(width - 12 >= 0)
  <2>1. filled \in Int /\ filled <= 0
    <3> DEFINE n == width - 12
               e == (p * (-n)) \div announced
               W == (p * n) % announced = 0 /\ p \notin {0, announced} /\ e > 0
    <3>1. n \in Int /\ n < 0 /\ -n \in Nat
      BY <1>1, <1>8
    <3>2. AtLeast(n, -n) = -n
      BY <3>1 DEF AtLeast
    <3>3. filled \in {(-1) * e} \cup IF W THEN {(-1) * (e - 1)} ELSE {}
      BY <3>1, <3>2 DEF Scaled
    <3>4. p * (-n) \in Nat
      <4> DEFINE k == -n
      <4>1. k \in Nat
        BY <3>1
      <4> HIDE DEF k
      <4>2. p * k \in Nat
        BY <4>1
      <4> QED
        BY <4>2 DEF k
    <3>5. e \in Nat
      <4> DEFINE m == p * (-n)
      <4> HIDE DEF m
      <4>1. m \div announced \in Nat
        BY <1>1, <3>4, Quotient DEF m
      <4> QED
        BY <4>1 DEF m
    <3>6. W => e > 0
      OBVIOUS
    <3> HIDE DEF e, W
    <3>7. filled = (-1) * e \/ (filled = (-1) * (e - 1) /\ e > 0)
      BY <3>3, <3>6
    <3> QED
      BY <3>5, <3>7
  <2>2. part = 0
    <3> HIDE DEF room
    <3> QED
      BY <1>2, <2>1 DEF AtMost, AtLeast
  <2>3. ~(room > 10)
    BY <1>1, <1>2, <1>8
  <2> HIDE DEF room, part, b
  <2>9. b \in BarSet /\ b.percent = percent
    BY <1>2, <1>3, <1>4, <2>2 DEF BarSet
  <2>10. GoodBar(b, g)
    BY <1>2, <1>3, <1>4, <1>5, <2>2, <2>3 DEF GoodBar
  <2> QED
    BY <2>9, <2>10 DEF b, room
<1> QED
  BY <1>7, <1>8

LEMMA BarsBegin == ASSUME ProgressAssumption, BarInit PROVE BarsInv
<1>1. /\ bars \in Bars /\ (bars = "loop" => announced = Percents) /\ (bars # "loop" => announced \in Lengths)
      /\ gone = 0 /\ previous = 0 /\ shown = <<>>
  BY DEF BarInit
<1>2. bars \in {"download", "transfer", "loop"} /\ announced \in Nat /\ Percents \in Nat
  BY <1>1 DEF ProgressAssumption
<1>3. shown \in Seq(BarSet) /\ Len(shown) = 0 /\ DOMAIN shown = {}
  BY <1>1
<1>4. BarTypes /\ BarsGood /\ InOrder /\ LoopShown /\ DownloadShown
  BY <1>1, <1>2, <1>3 DEF BarTypes, BarsGood, InOrder, LoopShown, DownloadShown
<1>5. TransferShown
  <2> SUFFICES ASSUME announced # 0 PROVE 0 \in Scaled(Progress, Percents)
    BY <1>1 DEF TransferShown
  <2>1. Progress = 0
    BY <1>1, <1>2 DEF Progress, AtMost
  <2>3. AtLeast(Percents, -Percents) = Percents
    BY <1>2 DEF AtLeast
  <2>4. ~(Percents < 0)
    BY <1>2
  <2>5. (0 * Percents) \div announced = 0
    BY <1>2
  <2>6. 1 * ((0 * Percents) \div announced) \in Scaled(0, Percents)
    BY <2>3, <2>4 DEF Scaled
  <2> QED
    BY <2>1, <2>5, <2>6
<1> QED
  BY <1>4, <1>5 DEF BarsInv

LEMMA BarsPiece == ASSUME ProgressAssumption, BarsInv, Piece PROVE BarsInv'
<1>1. /\ bars # "loop" /\ gone <= announced /\ UNCHANGED <<bars, announced, over>> /\ print_progress
  BY DEF Piece
<1>2. BarTypes /\ BarsGood /\ InOrder /\ DownloadShown /\ TransferShown
  BY DEF BarsInv
<1>3. gone \in Nat /\ announced \in Nat /\ Percents \in Nat /\ Percents # 0 /\ bars \in {"download", "transfer"}
  BY <1>1, <1>2 DEF BarTypes, ProgressAssumption
<1>4. gone' \in Nat /\ gone' > gone
  <2>1. PICK c \in Reads : gone' = gone + c
    BY DEF Piece
  <2> QED
    BY <1>3, <2>1 DEF ProgressAssumption
<1> DEFINE p == AtMost(gone', announced)
<1>5. Progress' = p
  BY <1>1 DEF Progress
<1>6. /\ p \in Nat /\ p <= announced /\ (p = announced => gone' >= announced)
      /\ Progress \in Nat /\ Progress <= p /\ (Progress < p \/ p = announced)
  BY <1>1, <1>3, <1>4 DEF Progress, AtMost
<1>7. gone' >= gone /\ LoopShown'
  BY <1>1, <1>3, <1>4 DEF LoopShown
<1>8. CASE announced = 0
  <2>1. UNCHANGED <<shown, previous>>
    BY <1>1, <1>8 DEF print_progress
  <2>2. BarTypes' /\ BarsGood' /\ InOrder' /\ Latest' = Latest
    BY <1>1, <1>2, <1>4, <1>7, <2>1, NotDrawn
  <2>3. DownloadShown' /\ TransferShown'
    BY <1>1, <1>2, <1>8, <2>1 DEF DownloadShown, TransferShown
  <2> QED
    BY <1>7, <2>2, <2>3 DEF BarsInv
<1>9. CASE announced # 0 /\ bars = "download"
  <2>1. DrawDownload(p)
    BY <1>1, <1>9 DEF print_progress
  <2> HIDE DEF p
  <2>2. PICK width \in Widths, percent \in Scaled(p, Percents) :
          \E filled \in Scaled(p, width - 12) :
            Drawn(Bar(AtLeast(width - 12, 10), filled, percent)) /\ UNCHANGED previous
    BY <2>1 DEF DrawDownload
  <2>3. PICK filled \in Scaled(p, width - 12) :
            Drawn(Bar(AtLeast(width - 12, 10), filled, percent)) /\ UNCHANGED previous
    BY <2>2
  <2> DEFINE b == Bar(AtLeast(width - 12, 10), filled, percent)
  <2>4. b \in BarSet /\ b.percent = percent /\ GoodBar(b, gone')
    BY <1>2, <1>4, <1>6, <1>9, PieceBar
  <2>5. Drawn(b)
    BY <2>3
  <2> HIDE DEF b
  <2>6. ASSUME shown # <<>> PROVE percent >= Latest
    <3>1. Latest \in Scaled(Progress, Percents)
      BY <1>2, <1>9, <2>6 DEF DownloadShown
    <3>2. Latest <= percent
      BY <1>3, <1>6, <1>9, <3>1, ScaledMore
    <3>3. Latest \in Nat /\ percent \in Nat
      <4>1. Progress <= announced
        BY <1>3, <1>6
      <4> QED
        BY <1>3, <1>6, <1>9, <3>1, <4>1, ScaledUp
    <3> QED
      BY <3>2, <3>3
  <2>7. BarTypes' /\ BarsGood' /\ InOrder' /\ shown' # <<>> /\ Latest' = percent
    BY <1>1, <1>2, <1>3, <1>4, <1>7, <1>9, <2>4, <2>5, <2>6, DrawnGood
  <2>8. Scaled(Progress, Percents)' = Scaled(p, Percents)
    BY <1>1, <1>5 DEF Scaled
  <2>9. DownloadShown' /\ TransferShown'
    BY <1>1, <1>9, <2>7, <2>8 DEF DownloadShown, TransferShown
  <2> QED
    BY <1>7, <2>7, <2>9 DEF BarsInv
<1>10. CASE announced # 0 /\ bars = "transfer"
  <2>1. DrawTransfer(p)
    BY <1>1, <1>10 DEF print_progress
  <2> HIDE DEF p
  <2>2. PICK width \in Widths, percent \in Scaled(p, Percents) :
          \E filled \in Scaled(p, width - 12) :
            /\ previous' = percent
            /\ IF previous = percent THEN UNCHANGED shown
               ELSE Drawn(Bar(AtLeast(width - 12, 10), filled, percent))
    BY <2>1 DEF DrawTransfer
  <2>3. PICK filled \in Scaled(p, width - 12) :
            /\ previous' = percent
            /\ IF previous = percent THEN UNCHANGED shown
               ELSE Drawn(Bar(AtLeast(width - 12, 10), filled, percent))
    BY <2>2
  <2> DEFINE b == Bar(AtLeast(width - 12, 10), filled, percent)
  <2>4. b \in BarSet /\ b.percent = percent /\ GoodBar(b, gone')
    BY <1>2, <1>4, <1>6, <1>10, PieceBar
  <2>5. previous' = percent /\ (previous # percent => Drawn(b)) /\ (previous = percent => UNCHANGED shown)
    BY <2>3
  <2> HIDE DEF b
  <2>6. previous \in Scaled(Progress, Percents) /\ (shown # <<>> => Latest = previous)
    BY <1>2, <1>10 DEF TransferShown
  <2>7. previous <= percent /\ previous \in Nat /\ percent \in Nat
    <3>1. previous <= percent
      BY <1>3, <1>6, <1>10, <2>6, ScaledMore
    <3>2. Progress <= announced
      BY <1>3, <1>6
    <3> QED
      BY <1>3, <1>6, <1>10, <2>6, <3>1, <3>2, ScaledUp
  <2>8. Scaled(Progress, Percents)' = Scaled(p, Percents)
    BY <1>1, <1>5 DEF Scaled
  <2>9. CASE previous = percent
    <3>1. BarTypes' /\ BarsGood' /\ InOrder' /\ Latest' = Latest
      BY <1>1, <1>2, <1>4, <1>7, <2>5, <2>9, NotDrawn
    <3>2. DownloadShown' /\ TransferShown'
      BY <1>1, <1>10, <2>5, <2>6, <2>8, <2>9, <3>1 DEF DownloadShown, TransferShown
    <3> QED
      BY <1>7, <3>1, <3>2 DEF BarsInv
  <2>10. CASE previous # percent
    <3>1. shown # <<>> => b.percent > Latest
      BY <2>4, <2>6, <2>7, <2>10
    <3>2. BarTypes' /\ BarsGood' /\ InOrder' /\ shown' # <<>> /\ Latest' = b.percent
      BY <1>1, <1>2, <1>3, <1>4, <1>7, <1>10, <2>4, <2>5, <2>10, <3>1, DrawnGood
    <3>3. DownloadShown' /\ TransferShown'
      BY <1>1, <1>10, <2>4, <2>5, <2>8, <3>2 DEF DownloadShown, TransferShown
    <3> QED
      BY <1>7, <3>2, <3>3 DEF BarsInv
  <2> QED
    BY <2>9, <2>10
<1> QED
  BY <1>3, <1>8, <1>9, <1>10

LEMMA BarsTick == ASSUME ProgressAssumption, BarsInv, Tick PROVE BarsInv'
<1>1. /\ bars = "loop" /\ ~over /\ DrawLoop(gone) /\ gone' = gone + 1 /\ over' = (gone = Percents)
      /\ UNCHANGED <<bars, announced>>
  BY DEF Tick
<1>2. BarTypes /\ BarsGood /\ InOrder /\ LoopShown
  BY DEF BarsInv
<1>3. /\ gone \in Nat /\ announced = Percents /\ gone <= Percents /\ Percents \in Nat /\ Percents # 0
      /\ (shown # <<>> => Latest = gone - 1)
  BY <1>1, <1>2 DEF BarTypes, LoopShown, ProgressAssumption
<1>4. PICK width \in Widths :
        Drawn(Bar(AtLeast(width - 12, 10), (gone * AtLeast(width - 12, 10)) \div Percents, gone))
  BY <1>1 DEF DrawLoop
<1> DEFINE room == AtLeast(width - 12, 10)
           e == (gone * room) \div Percents
           part == AtMost(AtLeast(e, 0), room)
           b == Bar(room, e, gone)
<1>5. room \in Nat /\ room >= 10
  <2>1. width \in Nat
    BY DEF ProgressAssumption
  <2> QED
    BY <2>1 DEF AtLeast
<1>6. b = [width |-> room, filled |-> part, percent |-> gone] /\ Drawn(b)
  BY <1>4 DEF Bar
<1> HIDE DEF room
<1>7. e \in Nat /\ (gone = Percents => e = room)
  <2>1. gone * room \in Nat
    BY <1>3, <1>5
  <2>2. e \in Nat /\ Percents * e <= gone * room /\ gone * room < Percents * e + Percents
    BY <1>3, <2>1, Quotient
  <2> HIDE DEF e
  <2>3. ASSUME gone = Percents PROVE e = room
    <3>1. Percents * e <= Percents * room /\ Percents * room < Percents * (e + 1)
      BY <1>3, <2>2, <2>3, TimesOne
    <3>2. e <= room /\ room < e + 1
      BY <1>3, <1>5, <2>2, <3>1, TimesLess
    <3> QED
      BY <1>5, <2>2, <3>2
  <2> QED
    BY <2>2, <2>3
<1> HIDE DEF e
<1>8. part \in Int /\ (gone = Percents => part = room)
  BY <1>5, <1>7 DEF AtMost, AtLeast
<1> HIDE DEF part, b
<1>9. b \in BarSet /\ b.percent = gone /\ GoodBar(b, gone')
  <2>1. b \in BarSet
    BY <1>3, <1>5, <1>6, <1>8 DEF BarSet
  <2>2. GoodBar(b, gone')
    BY <1>1, <1>3, <1>6, <1>8 DEF GoodBar
  <2> QED
    BY <1>6, <2>1, <2>2
<1>10. shown # <<>> => b.percent >= Latest
  BY <1>3, <1>9
<1>11. gone' \in Nat /\ gone' >= gone
  BY <1>1, <1>3
<1>12. BarTypes' /\ BarsGood' /\ InOrder' /\ shown' # <<>> /\ Latest' = b.percent
  BY <1>1, <1>2, <1>3, <1>6, <1>9, <1>10, <1>11, DrawnGood
<1>13. LoopShown'
  <2>3. over' = (gone = Percents)
    BY <1>1
  <2>4. ~over' => gone # Percents
    BY ONLY <2>3, Zenon
  <2>1. ~over' => gone' <= Percents
    BY <1>1, <1>3, <2>4
  <2>2. announced' = Percents /\ Latest' = gone' - 1
    BY <1>1, <1>3, <1>9, <1>12
  <2> QED
    BY <2>1, <2>2 DEF LoopShown
<1>14. DownloadShown' /\ TransferShown'
  BY <1>1 DEF DownloadShown, TransferShown
<1> QED
  BY <1>12, <1>13, <1>14 DEF BarsInv

LEMMA BarsSame ==
  ASSUME BarsInv, UNCHANGED <<bars, announced, gone, previous, shown>>, over => over'
  PROVE  BarsInv'
<1>1. BarTypes' /\ InOrder' /\ Latest' = Latest
  BY DEF BarsInv, BarTypes, InOrder, Latest
<1>2. BarsGood'
  BY DEF BarsInv, BarsGood, GoodBar
<1>3. Scaled(Progress, Percents)' = Scaled(Progress, Percents)
  BY DEF Scaled, Progress
<1>4. LoopShown'
  BY <1>1 DEF BarsInv, LoopShown
<1>5. DownloadShown' /\ TransferShown'
  BY <1>1, <1>3 DEF BarsInv, DownloadShown, TransferShown
<1> QED
  BY <1>1, <1>2, <1>4, <1>5 DEF BarsInv

LEMMA BarsStep == ASSUME ProgressAssumption, BarsInv, [BarNext]_barvars PROVE BarsInv'
<1>1. CASE Piece
  BY <1>1, BarsPiece
<1>2. CASE Tick
  BY <1>2, BarsTick
<1>3. CASE Close
  BY <1>3, BarsSame DEF Close
<1>4. CASE UNCHANGED barvars
  BY <1>4, BarsSame DEF barvars
<1> QED
  BY <1>1, <1>2, <1>3, <1>4 DEF BarNext

LEMMA BarsRight == ASSUME ProgressAssumption, BarsInv PROVE ProgressInv
<1>1. BarTypes /\ LoopShown /\ DownloadShown /\ TransferShown /\ BarsGood /\ InOrder
  BY DEF BarsInv
<1>2. shown \in Seq(BarSet) /\ Len(shown) \in Nat /\ Len(shown) <= 2 /\ announced \in Nat /\ gone \in Nat
  BY <1>1 DEF BarTypes
<1>3. Percents \in Nat /\ Percents # 0
  BY DEF ProgressAssumption
<1>4. Increasing
  <2> SUFFICES ASSUME NEW p \in DOMAIN shown, p > 1
               PROVE  IF bars = "transfer" THEN shown[p].percent > shown[p - 1].percent
                      ELSE shown[p].percent >= shown[p - 1].percent
    BY DEF Increasing, Shown
  <2>1. p \in 1..Len(shown)
    BY <1>2
  <2>3. p \in Nat /\ p > 1 /\ p <= Len(shown) /\ Len(shown) \in Nat /\ Len(shown) <= 2
    BY <1>2, <2>1
  <2>4. 1 < p /\ p <= 2 /\ 1 < Len(shown)
    <3> DEFINE m == Len(shown)
    <3>1. m \in Nat /\ p <= m /\ m <= 2
      BY <2>3
    <3> HIDE DEF m
    <3>2. 1 < p /\ p <= 2 /\ 1 < m
      BY ONLY <2>3, <3>1
    <3> QED
      BY <3>2 DEF m
  <2>5. p = 2
    BY ONLY <2>3, <2>4, SmallNumbers
  <2>6. Len(shown) = 2
    BY ONLY <2>3, <2>4, SmallNumbers, Zenon
  <2>2. p = 2 /\ Len(shown) = 2 /\ p - 1 = 1
    BY ONLY <2>5, <2>6
  <2> QED
    BY <1>1, <2>2 DEF InOrder
<1>5. UpToDate
  <2> SUFFICES ASSUME shown # <<>>, bars # "loop"
               PROVE  Latest \in {(Progress * Percents) \div announced - 1, (Progress * Percents) \div announced}
    BY DEF UpToDate, Shown, Latest, Progress
  <2>1. announced # 0 /\ Latest \in Scaled(Progress, Percents)
    <3>1. bars = "download" \/ bars = "transfer"
      BY <1>1 DEF BarTypes
    <3> QED
      BY <1>1, <3>1 DEF DownloadShown, TransferShown
  <2>2. Progress \in Nat /\ Progress <= announced
    BY <1>2 DEF Progress, AtMost
  <2> QED
    BY <1>2, <1>3, <2>1, <2>2, ScaledUp
<1>6. FullAtEnd
  BY <1>1 DEF FullAtEnd, Shown, BarsGood, GoodBar
<1> QED
  BY <1>4, <1>5, <1>6 DEF ProgressInv

\* A progress bar never goes back, shows what has gone to one hundredth, and shows the whole as
\* the whole, whatever the pieces, the terminal's width and the rounding of the quotient.
THEOREM ProgressShown == ASSUME ProgressAssumption PROVE BarSpec => []ProgressInv
<1>1. BarInit => BarsInv
  BY BarsBegin
<1>2. BarsInv /\ [BarNext]_barvars => BarsInv'
  BY BarsStep
<1>3. BarsInv => ProgressInv
  BY BarsRight
<1> QED
  BY <1>1, <1>2, <1>3, PTL DEF BarSpec

\* What dl saves is what was sent behind the header and what the bars show is how much of it,
\* for any answers, cuts, writes, lengths and terminals; the two go on independently.
THEOREM DownloadAlways ==
  ASSUME DownloadAssumption, ProgressAssumption
  PROVE  DownloadSpec /\ BarSpec => []DownloadRight
<1>1. DownloadSpec => []DownloadSaved
  BY DownloadedAlways
<1>2. BarSpec => []ProgressInv
  BY ProgressShown
<1>3. DownloadSaved /\ ProgressInv => DownloadRight
  BY DEF DownloadRight
<1> QED
  BY <1>1, <1>2, <1>3, PTL

=============================================================================
