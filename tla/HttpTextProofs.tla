--------------------------- MODULE HttpTextProofs ---------------------------
(***************************************************************************)
(* The text side of a connection, for any size of the reader's buffer, any  *)
(* stream and any way to cut it into segments and reads.                    *)
(***************************************************************************)
EXTENDS HttpTextProps, SequenceTheorems, Extremes

Text == Seq(Char \ {NUL})

-----------------------------------------------------------------------------
(* Sequences *)

(* The characters of a concatenation. *)
LEMMA Joined ==
    ASSUME NEW S, NEW a \in Seq(S), NEW b \in Seq(S), NEW c, c = a \o b
    PROVE  /\ c \in Seq(S)
           /\ Len(c) = Len(a) + Len(b) /\ Len(a) \in Nat /\ Len(b) \in Nat
           /\ \A i \in 1 .. Len(a) : c[i] = a[i]
           /\ \A i \in 1 .. Len(b) : c[Len(a) + i] = b[i]
  OBVIOUS

(* The characters of a subsequence. *)
LEMMA Cut ==
    ASSUME NEW S, NEW s \in Seq(S), NEW m \in Nat \ {0}, NEW n \in Nat,
           n <= Len(s), m <= n + 1, NEW c, c = SubSeq(s, m, n)
    PROVE  /\ c \in Seq(S)
           /\ Len(c) = n - m + 1
           /\ \A i \in 1 .. n - m + 1 : c[i] = s[m + i - 1]
  OBVIOUS

(* A piece of a piece. *)
LEMMA CutOfCut ==
    ASSUME NEW S, NEW s \in Seq(S), NEW m \in Nat \ {0}, NEW n \in Nat,
           n <= Len(s), m <= n + 1,
           NEW k \in Nat \ {0}, NEW l \in Nat, l <= n - m + 1, k <= l + 1
    PROVE  SubSeq(SubSeq(s, m, n), k, l) = SubSeq(s, m + k - 1, m + l - 1)
  <1> DEFINE c == SubSeq(s, m, n)
             d == SubSeq(c, k, l)
             e == SubSeq(s, m + k - 1, m + l - 1)
  <1>0. Len(s) \in Nat
    OBVIOUS
  <1>1. c \in Seq(S) /\ Len(c) = n - m + 1 /\ \A i \in 1 .. n - m + 1 : c[i] = s[m + i - 1]
    BY Cut
  <1> HIDE DEF c
  <1>2. d \in Seq(S) /\ Len(d) = l - k + 1 /\ \A i \in 1 .. l - k + 1 : d[i] = c[k + i - 1]
    BY <1>1, Cut
  <1>3. /\ e \in Seq(S) /\ Len(e) = l - k + 1
        /\ \A i \in 1 .. l - k + 1 : e[i] = s[m + k - 1 + i - 1]
    <2>1. m + k - 1 \in Nat \ {0} /\ m + l - 1 \in Nat /\ m + l - 1 <= Len(s)
          /\ m + k - 1 <= (m + l - 1) + 1 /\ (m + l - 1) - (m + k - 1) + 1 = l - k + 1
      BY <1>0
    <2> QED
      BY <2>1, Cut
  <1> HIDE DEF d, e
  <1>4. \A i \in 1 .. l - k + 1 : k + i - 1 \in 1 .. n - m + 1 /\ m + (k + i - 1) - 1 = m + k - 1 + i - 1
    OBVIOUS
  <1>5. \A i \in 1 .. l - k + 1 : d[i] = e[i]
    <2> SUFFICES ASSUME NEW i \in 1 .. l - k + 1 PROVE d[i] = e[i]
      OBVIOUS
    <2>1. d[i] = c[k + i - 1]
      BY <1>2
    <2>2. c[k + i - 1] = s[m + (k + i - 1) - 1]
      BY <1>1, <1>4
    <2>3. e[i] = s[m + (k + i - 1) - 1]
      BY <1>3, <1>4
    <2> QED
      BY <2>1, <2>2, <2>3
  <1>6. d = e
    BY <1>2, <1>3, <1>5, SeqEqual
  <1> QED
    BY <1>6 DEF c, d, e

(* Multiples of the buffer's size are that size apart. *)
LEMMA Division ==
    ASSUME NEW B \in Int, B > 0, NEW n \in Int, NEW q \in Int, q = n \div B,
           NEW r \in Int, r = n % B
    PROVE  n = B * q + r
  BY SMTT(30)

(* Remainder nought means multiple. *)
LEMMA IsMultiple ==
    ASSUME NEW B \in Int, B > 0, NEW n \in Int
    PROVE  n % B = 0 <=> \E q \in Int : n = B * q
  <1>1. ASSUME n % B = 0 PROVE \E q \in Int : n = B * q
    <2>1. PICK q \in Int : q = n \div B
      OBVIOUS
    <2>2. n = B * q + 0
      BY <1>1, <2>1, Division
    <2> QED
      BY <2>2
  <1>2. ASSUME NEW q \in Int, n = B * q PROVE n % B = 0
    BY <1>2
  <1> QED
    BY <1>1, <1>2

(* Two multiples of the buffer size are at least one buffer apart. *)
LEMMA Multiples ==
    ASSUME NEW B \in Int, B > 0, NEW m \in Int, m % B = 0
    PROVE  /\ (m + B) % B = 0
           /\ \A n \in Int : n % B = 0 /\ n > m => n >= m + B
  <1>1. PICK q \in Int : m = B * q
    BY IsMultiple
  <1>2. m + B = B * (q + 1)
    BY <1>1
  <1>3. (m + B) % B = 0
    <2>1. m + B \in Int /\ q + 1 \in Int
      OBVIOUS
    <2> QED
      BY <1>2, <2>1, IsMultiple
  <1>4. ASSUME NEW n \in Int, n % B = 0, n > m PROVE n >= m + B
    <2>1. PICK p \in Int : n = B * p
      BY <1>4, IsMultiple
    <2>2. p > q
      BY <1>1, <1>4, <2>1
    <2>3. p >= q + 1
      BY <2>2
    <2>4. B * p >= B * (q + 1)
      BY <2>3
    <2> QED
      BY <1>2, <2>1, <2>4
  <1> QED
    BY <1>3, <1>4

-----------------------------------------------------------------------------
(* What Find and the header search find. *)

BlankAt(text, i) ==
    i + 3 <= Len(text) /\ text[i] = CR /\ text[i + 1] = LF /\ text[i + 2] = CR /\ text[i + 3] = LF

(* The blank line, character by character. *)
LEMMA BlankLines ==
    ASSUME NEW S, NEW text \in Seq(S), NEW i \in 1 .. Len(text) - 3
    PROVE  SubSeq(text, i, i + 3) = BlankLine <=> BlankAt(text, i)
  <1> DEFINE c == SubSeq(text, i, i + 3)
  <1>0. Len(text) \in Nat
    OBVIOUS
  <1>1. c \in Seq(S) /\ Len(c) = 4 /\ \A k \in 1 .. 4 : c[k] = text[i + k - 1]
    BY <1>0, Cut
  <1>2. c[1] = text[i] /\ c[2] = text[i + 1] /\ c[3] = text[i + 2] /\ c[4] = text[i + 3]
    BY <1>1
  <1> HIDE DEF c
  <1>3. /\ BlankLine \in Seq({CR, LF}) /\ Len(BlankLine) = 4
        /\ BlankLine[1] = CR /\ BlankLine[2] = LF /\ BlankLine[3] = CR /\ BlankLine[4] = LF
    BY DEF BlankLine
  <1>4. ASSUME BlankAt(text, i) PROVE c = BlankLine
    <2> DEFINE T == S \cup {CR, LF}
    <2>1. c \in Seq(T) /\ BlankLine \in Seq(T)
      BY <1>1, <1>3
    <2>2. \A k \in 1 .. 4 : c[k] = BlankLine[k]
      BY <1>2, <1>3, <1>4 DEF BlankAt
    <2>3. Len(c) = Len(BlankLine) /\ \A k \in 1 .. Len(c) : c[k] = BlankLine[k]
      BY <1>1, <1>3, <2>2
    <2> HIDE DEF T
    <2> QED
      BY <2>1, <2>3, SeqEqual
  <1>5. ASSUME c = BlankLine PROVE BlankAt(text, i)
    BY <1>0, <1>2, <1>3, <1>5 DEF BlankAt
  <1> QED
    BY <1>4, <1>5 DEF c

(* Find finds the first blank line there is. *)
LEMMA FindFirst ==
    ASSUME NEW S, NEW text \in Seq(S)
    PROVE  /\ Find(text) \in Nat
           /\ Find(text) = 0 <=> \A i \in Nat \ {0} : ~BlankAt(text, i)
           /\ Find(text) # 0 => /\ Find(text) + 3 <= Len(text)
                                /\ BlankAt(text, Find(text))
                                /\ \A i \in Nat \ {0} : i < Find(text) => ~BlankAt(text, i)
  <1> DEFINE at == {i \in 1 .. Len(text) - 3 : SubSeq(text, i, i + 3) = BlankLine}
  <1>0. Len(text) \in Nat
    OBVIOUS
  <1>1. \A i \in Nat \ {0} : i \in at <=> BlankAt(text, i)
    <2> SUFFICES ASSUME NEW i \in Nat \ {0} PROVE i \in at <=> BlankAt(text, i)
      OBVIOUS
    <2>1. i \in 1 .. Len(text) - 3 <=> i + 3 <= Len(text)
      BY <1>0
    <2>2. CASE i \in 1 .. Len(text) - 3
      BY <2>2, BlankLines
    <2>3. CASE i \notin 1 .. Len(text) - 3
      BY <2>1, <2>3 DEF BlankAt
    <2> QED
      BY <2>2, <2>3
  <1>2. at \in SUBSET Nat /\ 0 \notin at /\ \A i \in at : i + 3 <= Len(text)
    BY <1>0
  <1>3. Find(text) = IF at = {} THEN 0 ELSE Min(at)
    BY DEF Find
  <1> HIDE DEF at
  <1>4. at # {} => Min(at) \in at /\ \A i \in at : Min(at) <= i
    BY <1>2, LeastNat DEF Min
  <1>5. CASE at = {}
    BY <1>1, <1>3, <1>5
  <1>6. CASE at # {}
    <2>1. Find(text) \in at /\ \A i \in at : Find(text) <= i
      BY <1>3, <1>4, <1>6
    <2>2. Find(text) \in Nat \ {0} /\ Find(text) + 3 <= Len(text) /\ BlankAt(text, Find(text))
      BY <1>1, <1>2, <2>1
    <2>3. ASSUME NEW i \in Nat \ {0}, i < Find(text) PROVE ~BlankAt(text, i)
      BY <1>1, <2>1, <2>2, <2>3
    <2> QED
      BY <2>2, <2>3
  <1> QED
    BY <1>5, <1>6

(* A text without a blank line starts with none. *)
LEMMA NoneInFront ==
    ASSUME NEW S, NEW a \in Seq(S), NEW b \in Seq(S), Len(a) <= Len(b),
           \A i \in 1 .. Len(a) : a[i] = b[i]
    PROVE  \A i \in Nat \ {0} : BlankAt(a, i) => BlankAt(b, i)
  <1> SUFFICES ASSUME NEW i \in Nat \ {0}, BlankAt(a, i) PROVE BlankAt(b, i)
    OBVIOUS
  <1>1. Len(a) \in Nat /\ Len(b) \in Nat
    OBVIOUS
  <1>2. i + 3 <= Len(a)
    BY DEF BlankAt
  <1>3. {i, i + 1, i + 2, i + 3} \subseteq 1 .. Len(a) /\ i + 3 <= Len(b)
    BY <1>1, <1>2
  <1> QED
    BY <1>3 DEF BlankAt

(* No blank line in a text, none in a front of it. *)
LEMMA FindInFront ==
    ASSUME NEW S, NEW a \in Seq(S), NEW b \in Seq(S), Len(a) <= Len(b),
           \A i \in 1 .. Len(a) : a[i] = b[i], Find(b) = 0
    PROVE  Find(a) = 0
  BY FindFirst, NoneInFront

(* strcspn and its like return the first character of a class. *)
LEMMA NextFirst ==
    ASSUME NEW text \in Text, NEW i \in Nat \ {0}, NEW C
    PROVE  /\ Next1(text, i, C) = 0 <=> \A k \in i .. Len(text) : text[k] \notin C
           /\ Next1(text, i, C) # 0 => /\ Next1(text, i, C) \in i .. Len(text)
                                       /\ text[Next1(text, i, C)] \in C
                                       /\ \A k \in i .. Len(text) :
                                             text[k] \in C => Next1(text, i, C) <= k
  <1> DEFINE at == {k \in i .. Len(text) : text[k] \in C}
  <1>0. Len(text) \in Nat
    BY DEF Text
  <1>1. at \in SUBSET Nat /\ 0 \notin at
    BY <1>0
  <1>2. Next1(text, i, C) = IF at = {} THEN 0 ELSE Min(at)
    BY DEF Next1
  <1>3. \A k \in i .. Len(text) : text[k] \in C <=> k \in at
    OBVIOUS
  <1>4. at \subseteq i .. Len(text)
    OBVIOUS
  <1> HIDE DEF at
  <1>5. at # {} => Min(at) \in at /\ \A k \in at : Min(at) <= k
    BY <1>1, LeastNat DEF Min
  <1> QED
    BY <1>1, <1>2, <1>3, <1>4, <1>5

(* The search never leaves a text without a NUL.  The process goes on if and *)
(* only if the name does not occur in the text, whatever stands around it:   *)
(* the two kinds of request of module Anticent.                              *)
LEMMA Searched ==
    ASSUME NEW text \in Text
    PROVE  /\ GetSessionID(text) \in {"no cookie", "no colon", "cookie"}
           /\ GetSessionID(text) = "no cookie" <=> NAME \notin Range(text)
  <1> DEFINE n == Name(text)
             v == Next1(text, n, {COLON})
             s == Skipped(text, v)
  <1>0. Len(text) \in Nat /\ \A k \in 1 .. Len(text) : text[k] \in Char
    BY DEF Text
  <1>1. n = 0 <=> NAME \notin Range(text)
    BY NextFirst DEF Name, Range, Text
  <1>2. CASE n = 0
    BY <1>1, <1>2 DEF GetSessionID
  <1>3. CASE n # 0
    <2>1. n \in Nat \ {0}
      BY <1>0, <1>3, NextFirst DEF Name
    <2>2. CASE v = 0
      BY <1>1, <1>3, <2>2 DEF GetSessionID
    <2>3. CASE v # 0
      <3>1. v \in n .. Len(text) /\ text[v] = COLON
        BY <2>1, <2>3, NextFirst
      <3>2. v \in Nat \ {0} /\ v \in v .. Len(text)
        BY <1>0, <2>1, <3>1
      <3>3. COLON \in Char \ {SP} /\ COLON \notin {CR, LF}
        BY DEF Char, COLON, SP, CR, LF
      <3>4. s # 0
        BY <3>1, <3>2, <3>3, NextFirst DEF Skipped
      <3>5. s \in v .. Len(text) /\ s <= v
        BY <3>1, <3>2, <3>3, <3>4, NextFirst DEF Skipped
      <3>6. s = v
        BY <3>2, <3>5
      <3>7. At(text, s) = COLON
        BY <3>1, <3>2, <3>6 DEF At
      <3>8. GetSessionID(text) = "cookie"
        <4> HIDE DEF n, v, s
        <4>1. Value(text, n) = v
          BY DEF Value, v
        <4>2. GetSessionID(text) =
                IF n = 0 THEN "no cookie" ELSE IF v = 0 THEN "no colon"
                ELSE IF s = 0 THEN "overrun"
                ELSE IF At(text, s) \in {CR, LF} THEN "no cookie" ELSE "cookie"
          BY <4>1 DEF GetSessionID, n, v, s
        <4> QED
          BY <1>3, <2>3, <3>3, <3>4, <3>7, <4>2
      <3> QED
        BY <1>1, <1>3, <3>8
    <2> QED
      BY <2>2, <2>3
  <1> QED
    BY <1>2, <1>3

-----------------------------------------------------------------------------
(* The inductive invariant *)

Clean(n) == NUL \notin Range(SubSeq(stream, 1, n))

(* Between two reads of a turn: all of them filled the buffer, and the text  *)
(* they made is there and holds no blank line. *)
MidTurn ==
    iRead = 1 =>
        /\ ~blocked
        /\ turn.from < consumed
        /\ (consumed - turn.from) % BUFSIZE = 0
        /\ Find(request) = 0
        /\ Clean(consumed) => request = turn.text \o SubSeq(stream, turn.from + 1, consumed)

(* No request taken ends beyond what was read. *)
EndsRead ==
    Clean(consumed) => \A i \in DOMAIN taken : taken[i].end \in 0 .. consumed

TextInv ==
    TypeOK /\ NoOverrun /\ MidTurn /\ EndsRead /\ FramedAsSent

(* What TypeOK says of the positions in the stream. *)
LEMMA StreamTypes ==
    ASSUME TypeOK
    PROVE  /\ stream \in Seq(Char) /\ Len(stream) \in Nat
           /\ arrived \in Nat /\ arrived <= Len(stream)
           /\ consumed \in Nat /\ consumed <= arrived
           /\ turn.from \in Nat /\ turn.from <= consumed
           /\ request \in Text /\ turn.text \in Text
           /\ BUFSIZE \in Nat /\ BUFSIZE > 0
  <1>1. stream \in Seq(Char)
    BY HttpTextAssumption DEF TypeOK
  <1>2. request \in Text /\ turn.text \in Text
    BY DEF TypeOK, Text
  <1>3. arrived \in 0 .. Len(stream) /\ consumed \in 0 .. arrived /\ turn.from \in 0 .. consumed
    BY DEF TypeOK
  <1>4. Len(stream) \in Nat
    BY <1>1
  <1> QED
    BY <1>1, <1>2, <1>3, <1>4, HttpTextAssumption

(* A text is a sequence of characters. *)
LEMMA TextIsSeq == Text \subseteq Seq(Char)
  BY DEF Text

(* A clean front of the stream holds no NUL. *)
LEMMA CleanSays ==
    ASSUME stream \in Seq(Char), NEW n \in Nat, n <= Len(stream)
    PROVE  Clean(n) <=> \A k \in 1 .. n : stream[k] # NUL
  <1> DEFINE c == SubSeq(stream, 1, n)
  <1>1. c \in Seq(Char) /\ Len(c) = n - 1 + 1 /\ \A k \in 1 .. n - 1 + 1 : c[k] = stream[1 + k - 1]
    BY Cut
  <1>2. Len(c) = n /\ \A k \in 1 .. n : c[k] = stream[k]
    BY <1>1
  <1>3. Range(c) = {c[k] : k \in 1 .. n}
    <2>1. DOMAIN c = 1 .. n
      BY <1>1, <1>2
    <2> HIDE DEF c
    <2> QED
      BY <2>1 DEF Range
  <1> HIDE DEF c
  <1>4. NUL \notin Range(c) <=> \A k \in 1 .. n : stream[k] # NUL
    BY <1>2, <1>3
  <1> QED
    BY <1>4 DEF Clean, c

(* read() returns at most a buffer, and less only if the kernel has no more. *)
LEMMA ReadResults ==
    ASSUME TypeOK
    PROVE  /\ ReadResult \in Int /\ ReadResult <= BUFSIZE
           /\ ReadResult >= 0 => consumed + ReadResult <= arrived
           /\ ReadResult < BUFSIZE /\ ReadResult >= 0 => consumed + ReadResult = arrived
           /\ ReadResult = -1 => consumed = arrived
  <1>0. /\ arrived \in Nat /\ consumed \in Nat /\ consumed <= arrived
        /\ BUFSIZE \in Nat /\ BUFSIZE > 0 /\ fin \in BOOLEAN
    BY StreamTypes DEF TypeOK
  <1> DEFINE S == {BUFSIZE, arrived - consumed}
  <1>1. S \in SUBSET Nat /\ S # {} /\ BUFSIZE \in S /\ arrived - consumed \in S
    BY <1>0
  <1>2. CASE arrived > consumed
    <2>1. ReadResult = Min(S)
      BY <1>0, <1>2 DEF ReadResult
    <2>2. Min(S) = BUFSIZE \/ Min(S) = arrived - consumed
      <3> HIDE DEF S
      <3>1. Min(S) \in S
        BY <1>1, LeastNat DEF Min
      <3> QED
        BY <3>1 DEF S
    <2>3. Min(S) <= BUFSIZE /\ Min(S) <= arrived - consumed
      <3> HIDE DEF S
      <3>1. \A m \in S : Min(S) <= m
        BY <1>1, LeastNat DEF Min
      <3> QED
        BY <1>1, <3>1
    <2> HIDE DEF S
    <2> QED
      BY <1>0, <2>1, <2>2, <2>3
  <1>3. CASE arrived = consumed /\ fin
    <2>1. ReadResult = 0
      BY <1>0, <1>3 DEF ReadResult
    <2> QED
      BY <1>0, <1>3, <2>1
  <1>4. CASE arrived = consumed /\ ~fin
    <2>1. ReadResult = -1
      BY <1>0, <1>4 DEF ReadResult
    <2> QED
      BY <1>0, <1>4, <2>1
  <1> QED
    BY <1>0, <1>2, <1>3, <1>4

(* What is appended is the bytes read, up to the first NUL. *)
LEMMA AppendedText ==
    ASSUME NEW text \in Text, NEW chunk \in Seq(Char)
    PROVE  /\ Appended(text, chunk) \in Text
           /\ (\A k \in 1 .. Len(chunk) : chunk[k] # NUL) => Appended(text, chunk) = text \o chunk
  <1> DEFINE nul == {i \in DOMAIN chunk : chunk[i] = NUL}
             C == Char \ {NUL}
  <1>0. Len(chunk) \in Nat /\ DOMAIN chunk = 1 .. Len(chunk) /\ \A k \in 1 .. Len(chunk) : chunk[k] \in Char
    OBVIOUS
  <1>1. nul \in SUBSET Nat /\ \A k \in 1 .. Len(chunk) : k \in nul <=> chunk[k] = NUL
    BY <1>0
  <1>2. nul \subseteq 1 .. Len(chunk)
    BY <1>0
  <1>3. Appended(text, chunk) = text \o (IF nul = {} THEN chunk ELSE SubSeq(chunk, 1, Min(nul) - 1))
    BY DEF Appended
  <1>4. text \in Seq(C)
    BY DEF Text
  <1> HIDE DEF nul
  <1>5. CASE nul = {}
    <2>1. \A k \in 1 .. Len(chunk) : chunk[k] \in C
      BY <1>0, <1>1, <1>5
    <2>2. chunk \in Seq(C)
      BY <1>0, <2>1
    <2> HIDE DEF C
    <2>3. text \o chunk \in Seq(C)
      BY <1>4, <2>2, Joined
    <2>4. Appended(text, chunk) = text \o chunk
      BY <1>3, <1>5
    <2> QED
      BY <2>3, <2>4 DEF Text, C
  <1>6. CASE nul # {}
    <2>1. Min(nul) \in nul /\ \A k \in nul : Min(nul) <= k
      BY <1>1, <1>6, LeastNat DEF Min
    <2> DEFINE m == Min(nul)
               d == SubSeq(chunk, 1, m - 1)
    <2>2. m \in 1 .. Len(chunk) /\ m - 1 \in Nat
      <3>1. m \in 1 .. Len(chunk)
        BY <1>2, <2>1
      <3> HIDE DEF m
      <3> QED
        BY <1>0, <3>1
    <2>3. \A k \in 1 .. m - 1 : chunk[k] \in C
      <3> SUFFICES ASSUME NEW k \in 1 .. m - 1 PROVE chunk[k] \in C
        OBVIOUS
      <3>1. k \in 1 .. Len(chunk) /\ ~(m <= k)
        BY <1>0, <2>2
      <3>2. k \notin nul
        BY <2>1, <3>1
      <3> QED
        BY <1>0, <1>1, <3>1, <3>2
    <2> HIDE DEF m
    <2>4. d \in Seq(Char) /\ Len(d) = m - 1 - 1 + 1 /\ \A k \in 1 .. m - 1 - 1 + 1 : d[k] = chunk[1 + k - 1]
      BY <1>0, <2>2, Cut
    <2>5. Len(d) = m - 1 /\ \A k \in 1 .. m - 1 : d[k] = chunk[k]
      BY <2>2, <2>4
    <2>6. d \in Seq(C)
      BY <2>3, <2>4, <2>5
    <2>7. Appended(text, chunk) = text \o d
      BY <1>3, <1>6 DEF m
    <2> HIDE DEF C, d
    <2>8. text \o d \in Seq(C)
      BY <1>4, <2>6, Joined
    <2>9. \E k \in 1 .. Len(chunk) : chunk[k] = NUL
      BY <1>1, <1>2, <2>1
    <2> QED
      BY <2>7, <2>8, <2>9 DEF Text, C
  <1> QED
    BY <1>5, <1>6

(* Longer pieces after the same text start with the shorter ones. *)
LEMMA ShorterPieces ==
    ASSUME stream \in Seq(Char), NEW t \in Seq(Char), NEW f \in Nat, NEW m \in Nat, NEW n \in Nat,
           n <= m, f + m <= Len(stream), Find(t \o SubSeq(stream, f + 1, f + m)) = 0
    PROVE  Find(t \o SubSeq(stream, f + 1, f + n)) = 0
  <1> DEFINE c == SubSeq(stream, f + 1, f + n)
             d == SubSeq(stream, f + 1, f + m)
             a == t \o c
             b == t \o d
  <1>0. Len(stream) \in Nat /\ Len(t) \in Nat
    OBVIOUS
  <1>1. c \in Seq(Char) /\ Len(c) = n /\ \A i \in 1 .. n : c[i] = stream[f + i]
    <2>1. /\ c \in Seq(Char) /\ Len(c) = (f + n) - (f + 1) + 1
          /\ \A i \in 1 .. (f + n) - (f + 1) + 1 : c[i] = stream[f + 1 + i - 1]
      BY <1>0, Cut
    <2>2. (f + n) - (f + 1) + 1 = n /\ \A i \in 1 .. n : f + 1 + i - 1 = f + i
      OBVIOUS
    <2> QED
      BY <2>1, <2>2
  <1>2. d \in Seq(Char) /\ Len(d) = m /\ \A i \in 1 .. m : d[i] = stream[f + i]
    <2>1. /\ d \in Seq(Char) /\ Len(d) = (f + m) - (f + 1) + 1
          /\ \A i \in 1 .. (f + m) - (f + 1) + 1 : d[i] = stream[f + 1 + i - 1]
      BY <1>0, Cut
    <2>2. (f + m) - (f + 1) + 1 = m /\ \A i \in 1 .. m : f + 1 + i - 1 = f + i
      OBVIOUS
    <2> QED
      BY <2>1, <2>2
  <1> HIDE DEF c, d
  <1>3. a = t \o c /\ b = t \o d
    OBVIOUS
  <1> HIDE DEF a, b
  <1>4. /\ a \in Seq(Char) /\ Len(a) = Len(t) + Len(c)
        /\ \A i \in 1 .. Len(t) : a[i] = t[i]
        /\ \A i \in 1 .. Len(c) : a[Len(t) + i] = c[i]
    <2>1. c \in Seq(Char) /\ a = t \o c
      BY <1>1, <1>3
    <2> QED
      BY <2>1, Joined
  <1>5. /\ b \in Seq(Char) /\ Len(b) = Len(t) + Len(d)
        /\ \A i \in 1 .. Len(t) : b[i] = t[i]
        /\ \A i \in 1 .. Len(d) : b[Len(t) + i] = d[i]
    <2>1. d \in Seq(Char) /\ b = t \o d
      BY <1>2, <1>3
    <2> QED
      BY <2>1, Joined
  <1>6. ASSUME NEW i \in 1 .. Len(a) PROVE a[i] = b[i]
    <2>1. CASE i <= Len(t)
      BY <1>0, <1>4, <1>5, <2>1
    <2>2. CASE i > Len(t)
      <3> DEFINE j == i - Len(t)
      <3>1. j \in 1 .. n /\ j \in 1 .. m /\ i = Len(t) + j
        BY <1>0, <1>1, <1>4, <2>2
      <3> HIDE DEF j
      <3> QED
        BY <1>1, <1>2, <1>4, <1>5, <3>1
    <2> QED
      BY <1>0, <1>4, <2>1, <2>2
  <1>7. Len(a) <= Len(b)
    BY <1>0, <1>1, <1>2, <1>4, <1>5
  <1>8. Find(b) = 0
    BY DEF a, b, c, d
  <1>9. Find(a) = 0
    BY <1>4, <1>5, <1>6, <1>7, <1>8, FindInFront
  <1> QED
    BY <1>9 DEF a, c

(* Appending nothing. *)
LEMMA Nothing ==
    ASSUME NEW S, NEW s \in Seq(S), NEW n \in Nat, n <= Len(s), NEW t \in Seq(S)
    PROVE  t \o SubSeq(s, n + 1, n) = t
  <1> DEFINE c == SubSeq(s, n + 1, n)
             d == t \o c
  <1>0. Len(t) \in Nat /\ Len(s) \in Nat
    OBVIOUS
  <1>1. c \in Seq(S) /\ Len(c) = n - (n + 1) + 1
    BY <1>0, Cut
  <1>2. Len(c) = 0
    BY <1>1
  <1> HIDE DEF c
  <1>3. d = t \o c
    OBVIOUS
  <1> HIDE DEF d
  <1>4. d \in Seq(S) /\ Len(d) = Len(t) + Len(c) /\ \A i \in 1 .. Len(t) : d[i] = t[i]
    BY <1>1, <1>3, Joined
  <1>5. Len(d) = Len(t)
    BY <1>0, <1>2, <1>4
  <1>6. d = t
    BY <1>4, <1>5, SeqEqual
  <1> QED
    BY <1>6 DEF c, d

(* At any read of a turn: what was read in it before, and the text that made *)
(* of what was there at its start. *)
LEMMA TurnSoFar ==
    ASSUME TypeOK, MidTurn, BeginTurn
    PROVE  /\ turn'.from \in Nat /\ turn'.from <= consumed /\ turn'.text \in Text
           /\ (consumed - turn'.from) % BUFSIZE = 0
           /\ turn'.from < consumed => Find(request) = 0
           /\ Clean(consumed) => request = turn'.text \o SubSeq(stream, turn'.from + 1, consumed)
  <1>0. /\ stream \in Seq(Char) /\ consumed \in Nat /\ consumed <= Len(stream)
        /\ request \in Text /\ BUFSIZE \in Nat /\ BUFSIZE > 0 /\ request \in Seq(Char)
    BY StreamTypes, TextIsSeq
  <1>1. CASE iRead = 0
    <2>1. turn'.from = consumed /\ turn'.text = request
      BY <1>1 DEF BeginTurn
    <2>2. consumed - consumed = BUFSIZE * 0
      BY <1>0
    <2>3. (consumed - consumed) % BUFSIZE = 0
      BY <1>0, <2>2, IsMultiple
    <2>4. request = request \o SubSeq(stream, consumed + 1, consumed)
      BY <1>0, Nothing
    <2> QED
      BY <1>0, <2>1, <2>3, <2>4
  <1>2. CASE iRead = 1
    <2>1. turn' = turn /\ turn.from < consumed
      BY <1>2 DEF BeginTurn, MidTurn
    <2>2. /\ (consumed - turn.from) % BUFSIZE = 0
          /\ Find(request) = 0
          /\ Clean(consumed) => request = turn.text \o SubSeq(stream, turn.from + 1, consumed)
      BY <1>2 DEF MidTurn
    <2>3. turn.from \in Nat /\ turn.from <= consumed /\ turn.text \in Text
      BY StreamTypes
    <2> QED
      BY <2>1, <2>2, <2>3
  <1> QED
    BY <1>1, <1>2 DEF TypeOK

(* What a read that returns bytes, or the end of the stream, adds. *)
LEMMA TurnGrows ==
    ASSUME TypeOK, MidTurn, BeginTurn, NEW n \in Nat, consumed <= n, n <= arrived,
           NEW text, text = Appended(request, SubSeq(stream, consumed + 1, n))
    PROVE  /\ text \in Text
           /\ Clean(n) => /\ Clean(consumed)
                          /\ text = request \o SubSeq(stream, consumed + 1, n)
                          /\ text = turn'.text \o SubSeq(stream, turn'.from + 1, n)
  <1>0. /\ stream \in Seq(Char) /\ Len(stream) \in Nat /\ arrived \in Nat /\ arrived <= Len(stream)
        /\ consumed \in Nat /\ request \in Text /\ n <= Len(stream)
    BY StreamTypes
  <1> DEFINE chunk == SubSeq(stream, consumed + 1, n)
             early == SubSeq(stream, turn'.from + 1, consumed)
  <1>1. /\ chunk \in Seq(Char) /\ Len(chunk) = n - (consumed + 1) + 1
        /\ \A i \in 1 .. n - (consumed + 1) + 1 : chunk[i] = stream[consumed + 1 + i - 1]
    BY <1>0, Cut
  <1>2. text = Appended(request, chunk)
    OBVIOUS
  <1> HIDE DEF chunk
  <1>3. text \in Text
    BY <1>0, <1>1, <1>2, AppendedText
  <1>4. ASSUME Clean(n)
        PROVE  Clean(consumed) /\ text = request \o chunk /\ text = turn'.text \o SubSeq(stream, turn'.from + 1, n)
    <2>1. \A k \in 1 .. n : stream[k] # NUL
      BY <1>0, <1>4, CleanSays
    <2>2. Clean(consumed)
      <3>1. \A k \in 1 .. consumed : stream[k] # NUL
        BY <1>0, <2>1
      <3> QED
        BY <1>0, <3>1, CleanSays
    <2>3. \A i \in 1 .. Len(chunk) : chunk[i] # NUL
      <3> SUFFICES ASSUME NEW i \in 1 .. Len(chunk) PROVE chunk[i] # NUL
        OBVIOUS
      <3>1. chunk[i] = stream[consumed + 1 + i - 1] /\ consumed + 1 + i - 1 \in 1 .. n
        BY <1>0, <1>1
      <3> QED
        BY <2>1, <3>1
    <2>4. text = request \o chunk
      BY <1>0, <1>1, <1>2, <2>3, AppendedText
    <2>5. /\ turn'.from \in Nat /\ turn'.from <= consumed /\ turn'.text \in Seq(Char)
          /\ request = turn'.text \o early
      BY <2>2, TurnSoFar, TextIsSeq
    <2>6. early \in Seq(Char)
      BY <1>0, <2>5, Cut
    <2>7. early \o chunk = SubSeq(stream, turn'.from + 1, n)
      <3> DEFINE m == turn'.from + 1
      <3>0. /\ turn'.from \in Nat /\ turn'.from <= consumed
            /\ consumed \in Nat /\ n \in Nat /\ Len(stream) \in Nat
            /\ consumed <= n /\ n <= Len(stream)
        BY <1>0, <2>5
      <3>1. m \in 1 .. Len(stream) + 1 /\ consumed \in m - 1 .. Len(stream)
            /\ n \in consumed .. Len(stream)
        BY <3>0
      <3> HIDE DEF m
      <3>2. SubSeq(stream, m, consumed) \o SubSeq(stream, consumed + 1, n) = SubSeq(stream, m, n)
        BY <1>0, <3>1, ConcatAdjacentSubSeq
      <3> QED
        BY <3>2 DEF m, early, chunk
    <2> DEFINE t == turn'.text
    <2>8. t \in Seq(Char) /\ request = t \o early
      BY <2>5
    <2> HIDE DEF early, t
    <2>9. (t \o early) \o chunk = t \o (early \o chunk)
      BY <1>1, <2>6, <2>8, ConcatAssociative
    <2>10. text = t \o SubSeq(stream, turn'.from + 1, n)
      BY <2>4, <2>7, <2>8, <2>9
    <2> QED
      BY <2>2, <2>4, <2>10 DEF t
  <1> QED
    BY <1>3, <1>4 DEF chunk

(* A text with a blank line is a request, the blank line and a rest. *)
LEMMA ParsedText ==
    ASSUME NEW text \in Text, NEW f, f = Find(text), f # 0, NEW req, req = SubSeq(text, 1, f - 1)
    PROVE  /\ f \in Nat /\ f + 3 <= Len(text) /\ Len(text) \in Nat
           /\ req \in Text /\ Len(req) = f - 1
           /\ Rest(text) \in Text /\ Len(Rest(text)) = Len(text) - f - 3
           /\ SubSeq(text, 1, f + 3) = req \o BlankLine
           /\ Find(req \o BlankLine) = f
  <1> DEFINE C == Char \ {NUL}
             rest == SubSeq(text, f + 4, Len(text))
             whole == req \o BlankLine
             front == SubSeq(text, 1, f + 3)
  <1>0. text \in Seq(C) /\ Len(text) \in Nat
    BY DEF Text
  <1>1. /\ f \in Nat /\ f + 3 <= Len(text) /\ BlankAt(text, f)
        /\ \A i \in Nat \ {0} : i < f => ~BlankAt(text, i)
    BY <1>0, FindFirst
  <1>2. BlankLine \in Seq(C)
    BY DEF BlankLine, Char, CR, LF, NUL
  <1>3. /\ Len(BlankLine) = 4
        /\ BlankLine[1] = CR /\ BlankLine[2] = LF /\ BlankLine[3] = CR /\ BlankLine[4] = LF
    BY DEF BlankLine
  <1>4. Rest(text) = rest
    BY DEF Rest
  <1> HIDE DEF C
  <1>5. rest \in Seq(C) /\ Len(rest) = Len(text) - f - 3
    <2>1. rest \in Seq(C) /\ Len(rest) = Len(text) - (f + 4) + 1
      BY <1>0, <1>1, Cut
    <2> HIDE DEF rest
    <2> QED
      BY <1>0, <1>1, <2>1
  <1>6. req \in Seq(C) /\ Len(req) = f - 1 /\ \A i \in 1 .. f - 1 : req[i] = text[i]
    <2>1. /\ req \in Seq(C) /\ Len(req) = f - 1 - 1 + 1
          /\ \A i \in 1 .. f - 1 - 1 + 1 : req[i] = text[1 + i - 1]
      BY <1>0, <1>1, Cut
    <2> QED
      BY <1>1, <2>1
  <1>7. front \in Seq(C) /\ Len(front) = f + 3 /\ \A i \in 1 .. f + 3 : front[i] = text[i]
    <2>1. /\ front \in Seq(C) /\ Len(front) = f + 3 - 1 + 1
          /\ \A i \in 1 .. f + 3 - 1 + 1 : front[i] = text[1 + i - 1]
      BY <1>0, <1>1, Cut
    <2> HIDE DEF front
    <2> QED
      BY <1>1, <2>1
  <1> HIDE DEF front, rest
  <1>8. whole = req \o BlankLine
    OBVIOUS
  <1> HIDE DEF whole
  <1>9. /\ whole \in Seq(C) /\ Len(whole) = Len(req) + Len(BlankLine)
        /\ \A i \in 1 .. Len(req) : whole[i] = req[i]
        /\ \A i \in 1 .. Len(BlankLine) : whole[Len(req) + i] = BlankLine[i]
    <2>1. req \in Seq(C)
      BY <1>6
    <2> QED
      BY <1>2, <1>8, <2>1, Joined
  <1>10. Len(whole) = f + 3
    BY <1>1, <1>3, <1>6, <1>9
  <1>11. whole[f] = CR /\ whole[f + 1] = LF /\ whole[f + 2] = CR /\ whole[f + 3] = LF
    <2>1. \A i \in 1 .. 4 : whole[f - 1 + i] = BlankLine[i]
      BY <1>3, <1>6, <1>9
    <2>2. f - 1 + 1 = f /\ f - 1 + 2 = f + 1 /\ f - 1 + 3 = f + 2 /\ f - 1 + 4 = f + 3
      BY <1>1
    <2> QED
      BY <1>3, <2>1, <2>2
  <1>12. ASSUME NEW i \in 1 .. f + 3 PROVE whole[i] = text[i]
    <2>1. CASE i <= f - 1
      BY <1>1, <1>6, <1>9, <2>1
    <2>2. CASE i > f - 1
      <3>1. i = f \/ i = f + 1 \/ i = f + 2 \/ i = f + 3
        BY <1>1, <2>2
      <3> QED
        BY <1>1, <1>11, <3>1 DEF BlankAt
    <2> QED
      BY <1>1, <2>1, <2>2
  <1>13. front = whole
    <2>1. \A i \in 1 .. f + 3 : front[i] = whole[i]
      BY <1>7, <1>12
    <2>2. Len(front) = Len(whole) /\ \A i \in 1 .. Len(front) : front[i] = whole[i]
      BY <1>7, <1>10, <2>1
    <2> QED
      BY <1>7, <1>9, <2>2, SeqEqual
  <1>14. Find(whole) = f
    <2> DEFINE g == Find(whole)
    <2>1. f \in Nat \ {0} /\ BlankAt(whole, f)
      BY <1>1, <1>10, <1>11 DEF BlankAt
    <2>2. \A i \in Nat \ {0} : BlankAt(whole, i) => BlankAt(text, i)
      <3>1. Len(whole) <= Len(text) /\ \A i \in 1 .. Len(whole) : whole[i] = text[i]
        BY <1>1, <1>10, <1>12
      <3> QED
        BY <1>0, <1>9, <3>1, NoneInFront
    <2>3. g \in Nat /\ g # 0
      BY <1>9, <2>1, FindFirst
    <2>4. BlankAt(whole, g) /\ \A i \in Nat \ {0} : i < g => ~BlankAt(whole, i)
      BY <1>9, <2>3, FindFirst
    <2> HIDE DEF g
    <2>5. ~(f < g)
      BY <2>1, <2>4
    <2>6. ~(g < f)
      BY <1>1, <2>2, <2>3, <2>4
    <2>7. g = f
      BY <2>1, <2>3, <2>5, <2>6
    <2> QED
      BY <2>7 DEF g
  <1> QED
    BY <1>0, <1>1, <1>4, <1>5, <1>6, <1>13, <1>14 DEF Text, C, front, whole

-----------------------------------------------------------------------------
(* The requests taken *)

From(requests, i) == IF i = 1 THEN 0 ELSE requests[i - 1].end

FramedRequest(requests, i) ==
    LET whole == requests[i].text \o BlankLine
    IN  /\ SubSeq(stream, From(requests, i) + 1, requests[i].end) = whole
        /\ Find(whole) = Len(requests[i].text) + 1

FramedSoFar(requests, text, n) ==
    /\ \A i \in DOMAIN requests : FramedRequest(requests, i)
    /\ SubSeq(stream, From(requests, Len(requests) + 1) + 1, n) = text

(* FramedAsSent as a fact about the requests taken so far, the text and the *)
(* position.                                                                *)
LEMMA FramedParts ==
    /\ FramedAsSent <=> (Clean(consumed) => FramedSoFar(taken, request, consumed))
    /\ stream' = stream =>
         (FramedAsSent' <=> (Clean(consumed') => FramedSoFar(taken', request', consumed')))
  BY DEF FramedAsSent, Clean, FramedRequest, FramedSoFar, From

(* The text kept for later is what was read since the last request's end. *)
LEMMA LastEnd ==
    ASSUME TypeOK, EndsRead, FramedAsSent, Clean(consumed)
    PROVE  /\ From(taken, Len(taken) + 1) \in Nat /\ From(taken, Len(taken) + 1) <= consumed
           /\ request = SubSeq(stream, From(taken, Len(taken) + 1) + 1, consumed)
  <1>1. taken \in Seq([text : Text, end : Int]) /\ consumed \in Nat
    BY StreamTypes DEF TypeOK, Text
  <1>2. Len(taken) \in Nat /\ DOMAIN taken = 1 .. Len(taken)
    BY <1>1
  <1>3. request = SubSeq(stream, From(taken, Len(taken) + 1) + 1, consumed)
    BY FramedParts DEF FramedSoFar
  <1>4. CASE Len(taken) = 0
    BY <1>1, <1>3, <1>4 DEF From
  <1>5. CASE Len(taken) # 0
    <2>1. From(taken, Len(taken) + 1) = taken[Len(taken)].end
      BY <1>2, <1>5 DEF From
    <2>2. taken[Len(taken)].end \in 0 .. consumed
      BY <1>2, <1>5 DEF EndsRead
    <2> QED
      BY <1>1, <1>3, <2>1, <2>2
  <1> QED
    BY <1>4, <1>5

-----------------------------------------------------------------------------
(* The invariant is inductive. *)

(* The reader starts with no text, before the first character. *)
LEMMA TextStarts == Init => TextInv
  <1> SUFFICES ASSUME Init PROVE TextInv
    OBVIOUS
  <1>1. /\ stream \in Seq(Char) /\ Len(stream) \in Nat /\ arrived = 0 /\ consumed = 0
        /\ request = <<>> /\ taken = <<>> /\ iRead = 0 /\ fate = "runs"
        /\ turn.from = 0 /\ turn.text = <<>>
    BY HttpTextAssumption DEF Init
  <1>2. TypeOK
    <2>1. stream \in Streams /\ fin \in BOOLEAN /\ blocked \in BOOLEAN
      BY DEF Init
    <2>2. arrived \in 0 .. Len(stream) /\ consumed \in 0 .. arrived /\ turn.from \in 0 .. consumed
      BY <1>1
    <2>3. <<>> \in Seq(Char \ {NUL}) /\ <<>> \in Seq([text : Seq(Char \ {NUL}), end : Int])
      OBVIOUS
    <2>4. inFlight \in Seq(Char \ {NUL}) \cup {NoRequest}
      BY DEF Init
    <2> QED
      BY <1>1, <2>1, <2>2, <2>3, <2>4 DEF TypeOK
  <1>3. NoOverrun /\ MidTurn
    BY <1>1 DEF NoOverrun, MidTurn
  <1>4. DOMAIN taken = {} /\ Len(taken) = 0
    BY <1>1
  <1>5. From(taken, Len(taken) + 1) = 0
    BY <1>4 DEF From
  <1>6. SubSeq(stream, 1, 0) = <<>>
    BY SubSeqEmpty
  <1>7. FramedAsSent
    BY <1>1, <1>4, <1>5, <1>6, FramedParts DEF FramedSoFar
  <1>8. EndsRead
    BY <1>4 DEF EndsRead
  <1> QED
    BY <1>2, <1>3, <1>7, <1>8 DEF TextInv

(* Nothing read. *)
LEMMA NothingRead ==
    ASSUME TextInv, UNCHANGED <<stream, consumed, request, taken>>
    PROVE  EndsRead' /\ FramedAsSent'
  <1>1. EndsRead'
    BY DEF TextInv, EndsRead, Clean
  <1>2. FramedAsSent'
    BY DEF TextInv, FramedAsSent
  <1> QED
    BY <1>1, <1>2

(* What clients do adds nothing to what was read. *)
LEMMA ClientKeeps ==
    ASSUME TextInv, fate = "runs", Arrive \/ Fin \/ Wake
    PROVE  TextInv'
  <1>1. UNCHANGED <<stream, consumed, request, iRead, turn, inFlight, taken, fate>>
    BY DEF Arrive, Fin, Wake, client
  <1>2. EndsRead' /\ FramedAsSent' /\ NoOverrun'
    BY <1>1, NothingRead DEF NoOverrun, TextInv
  <1>3. MidTurn'
    <2>1. iRead = 1 => ~blocked /\ ~blocked'
      BY DEF TextInv, MidTurn, Arrive, Fin, Wake
    <2>2. Clean(consumed)' <=> Clean(consumed)
      BY <1>1 DEF Clean
    <2> QED
      BY <1>1, <2>1, <2>2 DEF TextInv, MidTurn
  <1>4. TypeOK'
    <2>1. arrived' \in 0 .. Len(stream) /\ consumed \in 0 .. arrived'
      BY StreamTypes DEF TextInv, Arrive, Fin, Wake, client
    <2>2. fin' \in BOOLEAN /\ blocked' \in BOOLEAN
      BY DEF TextInv, TypeOK, Arrive, Fin, Wake, client
    <2> QED
      BY <1>1, <2>1, <2>2 DEF TextInv, TypeOK
  <1> QED
    BY <1>2, <1>3, <1>4 DEF TextInv

(* The request's search keeps off the reader's text. *)
LEMMA RequestKeeps ==
    ASSUME TextInv, fate = "runs", RequestRun
    PROVE  TextInv'
  <1>1. /\ UNCHANGED <<stream, arrived, fin, consumed, request, blocked, iRead, turn, taken>>
        /\ iRead = 0 /\ inFlight # NoRequest
        /\ \/ inFlight' = NoRequest /\ fate' = fate
           \/ fate' = GetSessionID(inFlight) /\ inFlight' = inFlight /\ fate' # "no cookie"
    BY DEF RequestRun, client
  <1>2. EndsRead' /\ FramedAsSent' /\ MidTurn'
    <2>1. iRead' = 0
      BY <1>1
    <2>2. MidTurn'
      BY <2>1 DEF MidTurn
    <2> QED
      BY <1>1, <2>2, NothingRead
  <1>3. inFlight \in Text
    BY <1>1 DEF TextInv, TypeOK, Text
  <1>4. fate' \in {"runs", "no colon", "cookie"}
    BY <1>1, <1>3, Searched
  <1>5. inFlight' \in Text \cup {NoRequest}
    BY <1>1, <1>3
  <1>6. NoOverrun' /\ TypeOK'
    BY <1>1, <1>4, <1>5 DEF NoOverrun, TextInv, TypeOK, Text
  <1> QED
    BY <1>2, <1>6 DEF TextInv

(* Where a turn begins. *)
LEMMA TurnTypes ==
    ASSUME TextInv, BeginTurn
    PROVE  turn'.from \in 0 .. consumed /\ turn'.text \in Text
  <1>1. turn'.from \in Nat /\ turn'.from <= consumed /\ turn'.text \in Text /\ consumed \in Nat
    BY TurnSoFar, StreamTypes DEF TextInv
  <1> QED
    BY <1>1

(* A read that finds nothing. *)
LEMMA EmptyReadKeeps ==
    ASSUME TextInv, fate = "runs", ReadEof \/ ReadAgain, UNCHANGED client
    PROVE  TextInv'
  <1>1. /\ UNCHANGED <<stream, arrived, fin, consumed, request, inFlight, taken>>
        /\ BeginTurn /\ iRead' = 0
    BY DEF ReadEof, ReadAgain, client
  <1>2. fate' \in {"runs", "closed"} /\ (blocked' = TRUE \/ blocked' = blocked)
    BY DEF ReadEof, ReadAgain
  <1>3. EndsRead' /\ FramedAsSent' /\ MidTurn' /\ NoOverrun'
    BY <1>1, <1>2, NothingRead DEF MidTurn, NoOverrun
  <1>4. TypeOK'
    <2>1. turn'.from \in 0 .. consumed /\ turn'.text \in Text
      BY <1>1, TurnTypes
    <2>2. blocked' \in BOOLEAN
      BY <1>2 DEF TextInv, TypeOK
    <2> QED
      BY <1>1, <1>2, <2>1, <2>2 DEF TextInv, TypeOK, Text
  <1> QED
    BY <1>3, <1>4 DEF TextInv

(* A read of bytes that completes no request, or the first one in flight. *)
LEMMA BytesKeep ==
    ASSUME TextInv, fate = "runs", ReadBytes, UNCHANGED client
    PROVE  TextInv'
  <1> DEFINE n     == consumed + ReadResult
             text  == Appended(request, SubSeq(stream, consumed + 1, n))
             f     == Find(text)
             req   == SubSeq(text, 1, f - 1)
             entry == [text |-> req, end |-> n - Len(Rest(text))]
  <1>0. /\ stream' = stream /\ arrived' = arrived /\ fin' = fin /\ BeginTurn
        /\ ReadResult \in Int /\ ReadResult >= 0
        /\ TypeOK /\ MidTurn /\ EndsRead /\ FramedAsSent /\ iRead \in {0, 1}
    BY ReadResults DEF ReadBytes, client, TextInv, TypeOK
  <1>1. /\ n \in Nat /\ consumed <= n /\ n <= arrived /\ arrived <= Len(stream)
        /\ consumed \in Nat /\ arrived \in Nat /\ stream \in Seq(Char) /\ Len(stream) \in Nat
        /\ ReadResult <= BUFSIZE /\ BUFSIZE \in Nat /\ BUFSIZE > 0
    BY <1>0, StreamTypes, ReadResults
  <1>2. turn'.from \in 0 .. consumed /\ turn'.text \in Text
    BY <1>0, TurnTypes
  <1>3. CASE f # 0 /\ inFlight # NoRequest
    <2>1. /\ fate' = "EWORKTODO"
          /\ UNCHANGED <<consumed, request, blocked, iRead, inFlight, taken>>
      BY <1>3 DEF ReadBytes
    <2>2. EndsRead' /\ FramedAsSent'
      BY <1>0, <2>1, NothingRead
    <2>3. MidTurn' /\ NoOverrun'
      <3>1. Clean(consumed)' <=> Clean(consumed)
        BY <1>0, <2>1 DEF Clean
      <3>2. iRead' = 1 => iRead = 1 /\ turn' = turn
        BY <1>0, <2>1 DEF BeginTurn
      <3>3. MidTurn'
        BY <1>0, <2>1, <3>1, <3>2 DEF MidTurn
      <3> QED
        BY <2>1, <3>3 DEF NoOverrun
    <2>4. TypeOK'
      BY <1>0, <1>2, <2>1 DEF TypeOK, Text
    <2> QED
      BY <2>2, <2>3, <2>4 DEF TextInv
  <1>4. CASE ~(f # 0 /\ inFlight # NoRequest)
    <2>1. /\ request' = IF f # 0 THEN Rest(text) ELSE text
          /\ inFlight' = IF f # 0 THEN req ELSE inFlight
          /\ taken' = IF f # 0 THEN Append(taken, entry) ELSE taken
          /\ consumed' = n
          /\ blocked' = (ReadResult < BUFSIZE)
          /\ iRead' = IF f # 0 \/ ReadResult < BUFSIZE THEN 0 ELSE 1
          /\ fate' = fate
      <3>1. /\ request' = IF f # 0 THEN Rest(text) ELSE text
            /\ inFlight' = IF f # 0 THEN req ELSE inFlight
            /\ taken' = IF f # 0 THEN Append(taken, entry) ELSE taken
            /\ consumed' = n
            /\ blocked' = Short(ReadResult)
            /\ iRead' = IF f # 0 \/ Short(ReadResult) THEN 0 ELSE 1
            /\ fate' = fate
        <4>1. IF f # 0 /\ inFlight # NoRequest
              THEN /\ fate' = "EWORKTODO"
                   /\ UNCHANGED <<consumed, request, blocked, iRead, inFlight, taken>>
              ELSE /\ request' = IF f # 0 THEN Rest(text) ELSE text
                   /\ inFlight' = IF f # 0 THEN req ELSE inFlight
                   /\ taken' = IF f # 0 THEN Append(taken, entry) ELSE taken
                   /\ consumed' = n
                   /\ blocked' = Short(ReadResult)
                   /\ iRead' = IF f # 0 \/ Short(ReadResult) THEN 0 ELSE 1
                   /\ UNCHANGED fate
          BY DEF ReadBytes
        <4> HIDE DEF n, text, f, req, entry
        <4> QED
          BY <1>4, <4>1
      <3>2. Short(ReadResult) = (ReadResult < BUFSIZE)
        BY DEF Short
      <3> HIDE DEF n, text, f, req, entry
      <3> QED
        BY <3>1, <3>2
    <2>2. /\ text \in Text
          /\ Clean(n) => /\ Clean(consumed)
                         /\ text = request \o SubSeq(stream, consumed + 1, n)
                         /\ text = turn'.text \o SubSeq(stream, turn'.from + 1, n)
      <3> HIDE DEF n
      <3> QED
        BY <1>0, <1>1, TurnGrows
    <2>3. f # 0 => /\ f \in Nat /\ f + 3 <= Len(text) /\ Len(text) \in Nat
                   /\ req \in Text /\ Len(req) = f - 1
                   /\ Rest(text) \in Text /\ Len(Rest(text)) = Len(text) - f - 3
                   /\ SubSeq(text, 1, f + 3) = req \o BlankLine
                   /\ Find(req \o BlankLine) = f
      <3> HIDE DEF text
      <3> QED
        BY <2>2, ParsedText
    <2>4. f # 0 => Rest(text) = SubSeq(text, f + 4, Len(text))
      BY DEF Rest
    <2>5. taken \in Seq([text : Text, end : Int])
      BY <1>0 DEF TypeOK, Text
    <2>6. f # 0 => entry \in [text : Text, end : Int] /\ entry.text = req
                   /\ entry.end = n - Len(Rest(text))
      <3> SUFFICES ASSUME f # 0 PROVE entry \in [text : Text, end : Int]
        OBVIOUS
      <3>1. req \in Text /\ Len(Rest(text)) = Len(text) - f - 3 /\ Len(text) \in Nat /\ f \in Nat
        BY <2>3
      <3> DEFINE e == n - Len(Rest(text))
      <3> HIDE DEF n, text, f, req
      <3>2. e \in Int
        BY <1>1, <3>1
      <3> HIDE DEF e
      <3>3. entry = [text |-> req, end |-> e]
        BY DEF e
      <3> QED
        BY <3>1, <3>2, <3>3
    <2> DEFINE end  == entry.end
               b    == From(taken, Len(taken) + 1)
               rest == Rest(text)
    <2> HIDE DEF n, text, f, req, entry
    <2>7. TypeOK'
      <3>1. request' \in Text
        BY <2>1, <2>2, <2>3
      <3>2. inFlight' \in Text \cup {NoRequest}
        BY <1>0, <2>1, <2>3 DEF TypeOK, Text
      <3>3. taken' \in Seq([text : Text, end : Int])
        <4>1. CASE f # 0
          BY <2>1, <2>5, <2>6, <4>1
        <4>2. CASE f = 0
          BY <2>1, <2>5, <4>2
        <4> QED
          BY <4>1, <4>2
      <3>4. consumed' \in 0 .. arrived /\ turn'.from \in 0 .. consumed'
        BY <1>1, <1>2, <2>1
      <3>5. blocked' \in BOOLEAN /\ iRead' \in {0, 1}
        BY <2>1
      <3> QED
        BY <1>0, <1>2, <2>1, <3>1, <3>2, <3>3, <3>4, <3>5 DEF TypeOK, Text
    <2>8. MidTurn'
      <3> SUFFICES ASSUME iRead' = 1 PROVE MidTurn'
        BY DEF MidTurn
      <3>1. /\ f = 0 /\ ~(ReadResult < BUFSIZE) /\ request' = text /\ blocked' = FALSE
            /\ consumed' = n
        <4>1. ~(f # 0 \/ ReadResult < BUFSIZE)
          BY <2>1
        <4>2. f = 0 /\ (ReadResult < BUFSIZE) = FALSE
          BY <4>1
        <4> QED
          BY <2>1, <4>2
      <3>2. ReadResult = BUFSIZE /\ n = consumed + BUFSIZE
        BY <1>0, <1>1, <3>1 DEF n
      <3> DEFINE g == turn'.from
      <3>3. g \in Nat /\ g <= consumed /\ (consumed - g) % BUFSIZE = 0
        BY <1>0, TurnSoFar
      <3> HIDE DEF g
      <3>4. (consumed - g + BUFSIZE) % BUFSIZE = 0
        <4>1. consumed - g \in Int /\ BUFSIZE \in Int
          BY <1>1, <3>3
        <4> QED
          BY <1>1, <3>3, <4>1, Multiples
      <3>5. n - g = consumed - g + BUFSIZE /\ g < n
        BY <1>1, <3>2, <3>3
      <3>6. Find(request') = 0
        BY <3>1 DEF f
      <3>7. Clean(consumed)' => request' = turn'.text \o SubSeq(stream, turn'.from + 1, n)
        <4>1. Clean(consumed)' <=> Clean(n)
          BY <1>0, <3>1 DEF Clean
        <4> QED
          BY <2>2, <3>1, <4>1
      <3>8. turn'.from < consumed' /\ (consumed' - turn'.from) % BUFSIZE = 0
        BY <3>1, <3>4, <3>5 DEF g
      <3> QED
        BY <1>0, <3>1, <3>6, <3>7, <3>8 DEF MidTurn
    <2>9. Clean(consumed)' <=> Clean(n)
      BY <1>0, <2>1 DEF Clean
    <2>10. ASSUME Clean(n) PROVE b \in Nat /\ b <= consumed /\ text = SubSeq(stream, b + 1, n)
      <3>1. b \in Nat /\ b <= consumed /\ request = SubSeq(stream, b + 1, consumed)
        BY <1>0, <2>2, <2>10, LastEnd
      <3> DEFINE m == b + 1
      <3>2. m \in 1 .. Len(stream) + 1 /\ consumed \in m - 1 .. Len(stream)
            /\ n \in consumed .. Len(stream)
        BY <1>1, <3>1
      <3>3. text = SubSeq(stream, m, consumed) \o SubSeq(stream, consumed + 1, n)
        BY <2>2, <2>10, <3>1
      <3> HIDE DEF m
      <3>4. SubSeq(stream, m, consumed) \o SubSeq(stream, consumed + 1, n) = SubSeq(stream, m, n)
        BY <1>1, <3>2, ConcatAdjacentSubSeq
      <3>5. text = SubSeq(stream, m, n)
        BY <3>3, <3>4
      <3> QED
        BY <3>1, <3>5 DEF m
    <2>11. ASSUME Clean(n), f # 0
           PROVE  /\ end = b + f + 3 /\ end \in 0 .. n
                  /\ SubSeq(stream, b + 1, end) = req \o BlankLine
                  /\ SubSeq(stream, end + 1, n) = rest
      <3>1. b \in Nat /\ b <= consumed /\ text = SubSeq(stream, b + 1, n)
        BY <2>10, <2>11
      <3> HIDE DEF b, rest
      <3>2. Len(text) = n - b
        <4>1. Len(text) = n - (b + 1) + 1
          BY <1>1, <3>1, Cut
        <4> QED
          BY <1>1, <3>1, <4>1
      <3>3. Len(rest) = n - b - f - 3
        BY <2>3, <2>11, <3>2 DEF rest
      <3>4. end = b + f + 3
        <4>1. end = n - Len(rest)
          BY <2>6, <2>11 DEF end, rest
        <4>2. n \in Int /\ b \in Int /\ f \in Int
          BY <1>1, <2>3, <2>11, <3>1
        <4> HIDE DEF end, f
        <4> QED
          BY <3>3, <4>1, <4>2
      <3>5. f \in Nat /\ f + 3 <= n - b
        BY <2>3, <2>11, <3>2
      <3>6. SubSeq(text, 1, f + 3) = SubSeq(stream, b + 1 + 1 - 1, b + 1 + (f + 3) - 1)
        <4>1. b + 1 \in Nat \ {0} /\ n <= Len(stream) /\ b + 1 <= n + 1
              /\ f + 3 \in Nat /\ f + 3 <= n - (b + 1) + 1 /\ 1 <= (f + 3) + 1
          BY <1>1, <3>1, <3>5
        <4> QED
          BY <1>1, <3>1, <4>1, CutOfCut
      <3>7. b + 1 + 1 - 1 = b + 1 /\ b + 1 + (f + 3) - 1 = end
        BY <3>1, <3>4, <3>5
      <3>8. SubSeq(text, f + 4, n - b) = SubSeq(stream, b + 1 + (f + 4) - 1, b + 1 + (n - b) - 1)
        <4> DEFINE m == b + 1
                   k == f + 4
                   l == n - b
        <4>1. m \in Nat \ {0} /\ n <= Len(stream) /\ m <= n + 1 /\ k \in Nat \ {0}
              /\ l \in Nat /\ l <= n - m + 1 /\ k <= l + 1
          BY <1>1, <3>1, <3>5
        <4>2. text = SubSeq(stream, m, n)
          BY <3>1
        <4> HIDE DEF m, k, l
        <4>3. SubSeq(text, k, l) = SubSeq(stream, m + k - 1, m + l - 1)
          BY <1>1, <4>1, <4>2, CutOfCut
        <4> QED
          BY <4>3 DEF m, k, l
      <3>9. b + 1 + (f + 4) - 1 = end + 1 /\ b + 1 + (n - b) - 1 = n
        BY <1>1, <3>1, <3>4, <3>5
      <3>10. end \in 0 .. n
        BY <1>1, <3>1, <3>4, <3>5
      <3>11. SubSeq(stream, b + 1, end) = req \o BlankLine
        BY <2>3, <2>11, <3>6, <3>7
      <3>12. rest = SubSeq(text, f + 4, n - b)
        BY <2>4, <2>11, <3>2 DEF rest
      <3> QED
        BY <3>4, <3>8, <3>9, <3>10, <3>11, <3>12
    <2> HIDE DEF end, b, rest
    <2>12. Len(taken) \in Nat /\ DOMAIN taken = 1 .. Len(taken)
      BY <2>5
    <2>13. CASE f # 0
      <3>1. /\ taken' \in Seq([text : Text, end : Int])
            /\ Len(taken') = Len(taken) + 1 /\ DOMAIN taken' = 1 .. Len(taken) + 1
            /\ \A i \in 1 .. Len(taken) : taken'[i] = taken[i]
            /\ taken'[Len(taken) + 1] = entry
        BY <2>1, <2>5, <2>6, <2>13
      <3>2. \A i \in 1 .. Len(taken) + 1 : From(taken', i) = From(taken, i)
        <4> SUFFICES ASSUME NEW i \in 1 .. Len(taken) + 1 PROVE From(taken', i) = From(taken, i)
          OBVIOUS
        <4>1. i # 1 => i - 1 \in 1 .. Len(taken)
          BY <2>12
        <4> QED
          BY <3>1, <4>1 DEF From
      <3>3. From(taken', Len(taken) + 1) = b
        BY <2>12, <3>2 DEF b
      <3>4. From(taken', Len(taken') + 1) = end
        <4>1. Len(taken') + 1 # 1 /\ Len(taken') + 1 - 1 = Len(taken) + 1
          BY <2>12, <3>1
        <4> QED
          BY <3>1, <4>1 DEF From, end
      <3>5. ASSUME Clean(n) PROVE EndsRead'
        <4>1. \A i \in 1 .. Len(taken) : taken[i].end \in 0 .. consumed
          BY <1>0, <2>2, <2>12, <3>5 DEF EndsRead
        <4>2. \A i \in 1 .. Len(taken) : taken'[i].end \in 0 .. n
          <5>1. \A e \in 0 .. consumed : e \in 0 .. n
            BY <1>1
          <5> QED
            BY <3>1, <4>1, <5>1
        <4>3. taken'[Len(taken) + 1].end \in 0 .. n
          BY <2>11, <2>13, <3>1, <3>5 DEF end
        <4>4. \A i \in DOMAIN taken' : i \in 1 .. Len(taken) \/ i = Len(taken) + 1
          BY <2>12, <3>1
        <4> QED
          BY <2>1, <4>2, <4>3, <4>4 DEF EndsRead
      <3>6. ASSUME Clean(n) PROVE FramedSoFar(taken', request', consumed')
        <4>1. \A i \in 1 .. Len(taken) : FramedRequest(taken, i)
          BY <1>0, <2>2, <2>12, <3>6, FramedParts DEF FramedSoFar
        <4>2. ASSUME NEW i \in 1 .. Len(taken) PROVE FramedRequest(taken', i)
          <5>1. From(taken', i) = From(taken, i) /\ taken'[i] = taken[i]
            BY <2>12, <3>1, <3>2
          <5> QED
            BY <4>1, <5>1 DEF FramedRequest
        <4>3. FramedRequest(taken', Len(taken) + 1)
          <5>1. SubSeq(stream, b + 1, end) = req \o BlankLine /\ Find(req \o BlankLine) = f
                /\ Len(req) = f - 1 /\ f \in Nat
            BY <2>3, <2>11, <2>13, <3>6
          <5>2. entry.text = req /\ entry.end = end
            BY <2>6, <2>13 DEF end
          <5>3. Find(req \o BlankLine) = Len(req) + 1
            BY <5>1
          <5> QED
            BY <3>1, <3>3, <5>1, <5>2, <5>3 DEF FramedRequest
        <4>4. \A i \in DOMAIN taken' : i \in 1 .. Len(taken) \/ i = Len(taken) + 1
          BY <2>12, <3>1
        <4>5. \A i \in DOMAIN taken' : FramedRequest(taken', i)
          BY <4>2, <4>3, <4>4
        <4>6. SubSeq(stream, From(taken', Len(taken') + 1) + 1, consumed') = request'
          BY <2>1, <2>11, <2>13, <3>4, <3>6 DEF rest
        <4> QED
          BY <4>5, <4>6 DEF FramedSoFar
      <3>7. FramedAsSent'
        BY <1>0, <2>1, <2>9, <3>6, FramedParts
      <3>8. ~Clean(n) => EndsRead'
        BY <2>9 DEF EndsRead
      <3> QED
        BY <2>1, <2>7, <2>8, <3>5, <3>7, <3>8 DEF TextInv, NoOverrun
    <2>14. CASE f = 0
      <3>1. taken' = taken /\ request' = text
        BY <2>1, <2>14
      <3>2. EndsRead'
        <4>1. ASSUME Clean(n) PROVE \A i \in DOMAIN taken : taken[i].end \in 0 .. n
          <5>1. \A i \in DOMAIN taken : taken[i].end \in 0 .. consumed
            BY <1>0, <2>2, <4>1 DEF EndsRead
          <5> QED
            BY <1>1, <5>1
        <4> QED
          BY <2>1, <2>9, <3>1, <4>1 DEF EndsRead
      <3>3. ASSUME Clean(n) PROVE FramedSoFar(taken', request', consumed')
        <4>1. \A i \in DOMAIN taken : FramedRequest(taken, i)
          BY <1>0, <2>2, <3>3, FramedParts DEF FramedSoFar
        <4>2. SubSeq(stream, From(taken, Len(taken) + 1) + 1, n) = text
          BY <2>10, <3>3 DEF b
        <4> QED
          BY <2>1, <3>1, <4>1, <4>2 DEF FramedSoFar
      <3>4. FramedAsSent'
        BY <1>0, <2>1, <2>9, <3>3, FramedParts
      <3> QED
        BY <2>1, <2>7, <2>8, <3>2, <3>4 DEF TextInv, NoOverrun
    <2> QED
      BY <2>13, <2>14
  <1> QED
    BY <1>3, <1>4

(* Every step keeps the text framed and the turn in place. *)
LEMMA TextStep == TextInv /\ [Next]_vars => TextInv'
  <1> SUFFICES ASSUME TextInv, [Next]_vars PROVE TextInv'
    OBVIOUS
  <1>1. CASE UNCHANGED vars
    <2>1. UNCHANGED <<stream, arrived, fin, consumed, request, blocked, iRead, turn, inFlight, taken, fate>>
      BY <1>1 DEF vars
    <2>2. EndsRead' /\ FramedAsSent'
      BY <2>1, NothingRead
    <2>3. TypeOK' /\ MidTurn' /\ NoOverrun'
      BY <2>1 DEF TextInv, TypeOK, MidTurn, NoOverrun, Clean
    <2> QED
      BY <2>2, <2>3 DEF TextInv
  <1>2. CASE fate = "runs" /\ (Arrive \/ Fin \/ Wake \/ Read \/ RequestRun)
    BY <1>2, ClientKeeps, RequestKeeps, EmptyReadKeeps, BytesKeep DEF Read
  <1> QED
    BY <1>1, <1>2 DEF Next, Ended

(* The inductive invariant of the text side: types, bounds, the turn in the *)
(* middle of its reads, and the framing.                                    *)
THEOREM TextKept == Spec => []TextInv
  BY TextStarts, TextStep, PTL DEF Spec

(* Every variable of the reader and of the search keeps its type; in         *)
(* particular no text that the server keeps holds a NUL (http.cc:562). *)
THEOREM TextTyped == Spec => []TypeOK
  <1>1. TextInv => TypeOK
    BY DEF TextInv
  <1> QED
    BY <1>1, TextKept, PTL

(* However a stream is cut into segments and reads, the requests taken and   *)
(* the text kept are the bytes read (http.cc:477-491, 563-569). *)
THEOREM FramesAsSent == Spec => []FramedAsSent
  <1>1. TextInv => FramedAsSent
    BY DEF TextInv
  <1> QED
    BY <1>1, TextKept, PTL

(* No pointer of the header search leaves its text (httpreq.cc:106). *)
THEOREM NeverOverruns == Spec => []NoOverrun
  <1>1. TextInv => NoOverrun
    BY DEF TextInv
  <1> QED
    BY <1>1, TextKept, PTL

-----------------------------------------------------------------------------
(* The reader's turns *)

Seen(text, from, n) == Find(text \o SubSeq(stream, from + 1, from + n))

Full(text, from) ==
    {n \in 1 .. arrived - from : n % BUFSIZE = 0 /\ Seen(text, from, n) # 0}

(* A turn blocks unless some full buffer ends in a request, and then it *)
(* consumed the buffers up to the first such.                           *)
LEMMA TurnEnds ==
    ASSUME TextInv, Read, iRead' = 0, fate' = "runs", Clean(arrived),
           NEW t, t = turn'.text, NEW from, from = turn'.from,
           NEW full, full = Full(t, from)
    PROVE  /\ blocked' <=> full = {}
           /\ consumed' = from + IF full = {} THEN arrived - from ELSE Min(full)
  <1>0. /\ stream \in Seq(Char) /\ Len(stream) \in Nat /\ arrived \in Nat /\ arrived <= Len(stream)
        /\ consumed \in Nat /\ consumed <= arrived /\ request \in Text
        /\ BUFSIZE \in Nat /\ BUFSIZE > 0 /\ TypeOK /\ MidTurn /\ BeginTurn
    BY StreamTypes DEF TextInv, Read, ReadEof, ReadAgain, ReadBytes
  <1>1. \A n \in 0 .. arrived : Clean(n)
    <2> SUFFICES ASSUME NEW n \in 0 .. arrived PROVE Clean(n)
      OBVIOUS
    <2>1. \A k \in 1 .. arrived : stream[k] # NUL
      BY <1>0, CleanSays
    <2>2. \A k \in 1 .. n : stream[k] # NUL
      BY <1>0, <2>1
    <2> QED
      BY <1>0, <2>2, CleanSays
  <1>2. /\ from \in Nat /\ from <= consumed /\ t \in Seq(Char)
        /\ (consumed - from) % BUFSIZE = 0
        /\ from < consumed => Find(request) = 0
        /\ request = t \o SubSeq(stream, from + 1, consumed)
    <2>1. Clean(consumed)
      BY <1>0, <1>1
    <2>2. request = turn'.text \o SubSeq(stream, turn'.from + 1, consumed)
      BY <1>0, <2>1, TurnSoFar
    <2>3. turn'.from \in Nat /\ turn'.from <= consumed /\ turn'.text \in Text
      BY <1>0, TurnSoFar
    <2>4. (consumed - turn'.from) % BUFSIZE = 0 /\ (turn'.from < consumed => Find(request) = 0)
      BY <1>0, TurnSoFar
    <2> QED
      BY <2>2, <2>3, <2>4, TextIsSeq
  <1>n. /\ from \in Nat /\ from <= consumed /\ consumed \in Nat /\ consumed <= arrived
        /\ arrived \in Nat /\ arrived <= Len(stream) /\ Len(stream) \in Nat
        /\ BUFSIZE \in Nat /\ BUFSIZE > 0
    BY <1>0, <1>2
  <1>3. \A n \in full : n \in 1 .. arrived - from /\ n % BUFSIZE = 0 /\ Seen(t, from, n) # 0
    BY DEF Full
  <1>4. \A n \in 1 .. arrived - from : n % BUFSIZE = 0 /\ Seen(t, from, n) # 0 => n \in full
    BY DEF Full
  <1>5. ASSUME NEW n \in full PROVE n >= consumed - from + BUFSIZE
    <2>1. n \in Nat /\ n > 0 /\ n <= arrived - from /\ n % BUFSIZE = 0 /\ Seen(t, from, n) # 0
      <3>1. n \in 1 .. arrived - from /\ n % BUFSIZE = 0 /\ Seen(t, from, n) # 0
        BY <1>3
      <3> QED
        BY <1>n, <3>1
    <2>2. CASE n <= consumed - from
      <3> DEFINE m == consumed - from
      <3>1. m \in Nat /\ from + m = consumed /\ from < consumed /\ from + m <= Len(stream) /\ n <= m
        <4>1. n \in Nat /\ n > 0
          BY <2>1
        <4> QED
          BY <1>n, <2>2, <4>1
      <3>2. Find(t \o SubSeq(stream, from + 1, from + m)) = 0
        BY <1>2, <3>1
      <3> HIDE DEF m
      <3>3. Find(t \o SubSeq(stream, from + 1, from + n)) = 0
        <4>1. n \in Nat /\ stream \in Seq(Char) /\ t \in Seq(Char) /\ from \in Nat
          BY <1>0, <1>2, <2>1
        <4> QED
          BY <3>1, <3>2, <4>1, ShorterPieces
      <3> QED
        BY <2>1, <3>3 DEF Seen
    <2>3. CASE n > consumed - from
      <3>1. consumed - from \in Int /\ n \in Int /\ BUFSIZE \in Int
        BY <1>0, <1>2, <2>1
      <3> QED
        BY <1>0, <1>2, <2>1, <2>3, <3>1, Multiples
    <2> QED
      BY <1>0, <1>2, <2>1, <2>2, <2>3
  <1>6. arrived - from < consumed - from + BUFSIZE => full = {}
    <2>1. ASSUME NEW n \in full, arrived - from < consumed - from + BUFSIZE PROVE FALSE
      BY <1>0, <1>2, <1>3, <1>5, <2>1
    <2> QED
      BY <2>1
  <1>7. CASE ReadAgain
    <2>1. arrived = consumed /\ blocked' = TRUE /\ consumed' = consumed
      BY <1>0, <1>7, ReadResults DEF ReadAgain
    <2>2. full = {}
      <3>1. BUFSIZE \in Nat \ {0} /\ arrived \in Nat /\ from \in Nat
        BY <1>0, <1>2
      <3>2. arrived - from < consumed - from + BUFSIZE
        BY <2>1, <3>1
      <3> QED
        BY <1>6, <3>2
    <2>3. consumed' = from + (arrived - from)
      BY <1>0, <1>2, <2>1
    <2> QED
      BY <2>1, <2>2, <2>3
  <1>8. CASE ReadBytes
    <2> DEFINE n    == consumed + ReadResult
               text == Appended(request, SubSeq(stream, consumed + 1, n))
    <2>1. /\ consumed' = n
          /\ blocked' = Short(ReadResult)
          /\ iRead' = IF Find(text) # 0 \/ Short(ReadResult) THEN 0 ELSE 1
      BY <1>8 DEF ReadBytes
    <2>2. /\ ReadResult \in Int /\ ReadResult >= 0 /\ ReadResult <= BUFSIZE
          /\ n \in Nat /\ consumed <= n /\ n <= arrived
          /\ ReadResult < BUFSIZE => n = arrived
      <3>1. ReadResult > 0 \/ ReadResult = 0
        BY <1>8 DEF ReadBytes
      <3>2. /\ ReadResult \in Int /\ ReadResult <= BUFSIZE
            /\ ReadResult >= 0 => n <= arrived
            /\ ReadResult < BUFSIZE /\ ReadResult >= 0 => n = arrived
        BY <1>0, ReadResults
      <3>3. consumed \in Nat
        BY <1>0
      <3> QED
        BY <3>1, <3>2, <3>3
    <2>3. CASE ReadResult < BUFSIZE
      <3>1. blocked' = TRUE
        BY <2>1, <2>3 DEF Short
      <3>2. full = {}
        BY <1>0, <1>2, <1>6, <2>2, <2>3
      <3>3. consumed' = from + (arrived - from)
        <4>1. consumed' = n /\ n = arrived
          BY <2>1, <2>2, <2>3
        <4> HIDE DEF n
        <4> QED
          BY <1>n, <4>1
      <3> QED
        BY <3>1, <3>2, <3>3
    <2>4. CASE ReadResult = BUFSIZE
      <3>1. ~(ReadResult < BUFSIZE)
        BY <1>0, <2>4
      <3>2. blocked' = FALSE /\ Find(text) # 0
        <4>1. Short(ReadResult) = FALSE
          BY <3>1 DEF Short
        <4>2. ~(iRead' = 1)
          OBVIOUS
        <4> HIDE DEF text
        <4> QED
          BY <2>1, <4>1, <4>2
      <3> DEFINE m == n - from
      <3>3. m = consumed - from + BUFSIZE /\ m \in 1 .. arrived - from /\ from + m = n
        <4>1. n = consumed + BUFSIZE /\ n <= arrived
          BY <2>2, <2>4
        <4> HIDE DEF n
        <4> QED
          BY <1>n, <4>1
      <3>4. text = t \o SubSeq(stream, from + 1, n)
        <4>1. Clean(n) /\ n \in Nat /\ consumed <= n /\ n <= arrived
          BY <1>n, <1>1, <2>2
        <4>2. text = Appended(request, SubSeq(stream, consumed + 1, n))
          OBVIOUS
        <4> HIDE DEF n, text
        <4>3. text = turn'.text \o SubSeq(stream, turn'.from + 1, n)
          BY <1>0, <4>1, <4>2, TurnGrows
        <4> QED
          BY <4>3
      <3> HIDE DEF n, text, m
      <3>5. m % BUFSIZE = 0
        <4>1. consumed - from \in Int /\ BUFSIZE \in Int
          BY <1>0, <1>2
        <4> QED
          BY <1>0, <1>2, <3>3, <4>1, Multiples
      <3>6. m \in full
        BY <1>4, <3>2, <3>3, <3>4, <3>5 DEF Seen
      <3>7. \A k \in full : m <= k
        BY <1>5, <3>3
      <3>8. Min(full) = m
        <4>1. \A k \in full : k \in Int
          BY <1>3
        <4>2. \E k \in full : \A l \in full : k <= l
          BY <3>6, <3>7
        <4>3. Min(full) \in full /\ \A l \in full : Min(full) <= l
          BY <4>2 DEF Min
        <4> DEFINE k == Min(full)
        <4>4. k \in Int /\ m \in Int /\ k <= m /\ m <= k
          BY <3>6, <3>7, <4>1, <4>3
        <4> HIDE DEF k
        <4>5. k = m
          BY <4>4
        <4> QED
          BY <4>5 DEF k
      <3> QED
        BY <2>1, <3>2, <3>3, <3>6, <3>8
    <2> QED
      BY <1>0, <2>2, <2>3, <2>4
  <1>9. ~ReadEof
    BY DEF ReadEof
  <1> QED
    BY <1>7, <1>8, <1>9 DEF Read

(* A turn of reads, with the client sending in between, ends as if all it    *)
(* sent had been there when the turn began: module Anticent may take the     *)
(* turn as one step (http.cc:552-577). *)
THEOREM TurnsAreAtomic == Spec => TurnAtomic
  <1>1. TextInv => AsIfAtOnce
    <2> SUFFICES ASSUME TextInv, Read, iRead' = 0, fate' = "runs", Clean(arrived),
                        NEW t, t = turn'.text, NEW from, from = turn'.from
                 PROVE  /\ blocked' <=> Full(t, from) = {}
                        /\ consumed' = from + IF Full(t, from) = {} THEN arrived - from
                                              ELSE Min(Full(t, from))
      BY DEF AsIfAtOnce, Clean, Full, Seen
    <2> QED
      BY TurnEnds
  <1>2. TextInv /\ [Next]_vars => [AsIfAtOnce]_vars
    BY <1>1
  <1> QED
    BY <1>2, TextKept, PTL DEF Spec, TurnAtomic
=============================================================================
