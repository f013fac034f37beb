-------------------------- MODULE NdjsonLinesProofs --------------------------
(* What parseNdjsonLines yields, for any files, chunks and restarts.          *)
(*                                                                            *)
(* The argument.  The buffer holds the bytes of the file from the end of the  *)
(* last line to where the stream has come, and byteOffset and lineNumber are  *)
(* those of the last line.  A step between two chunks leaves no newline and   *)
(* at most MaxLineBytes in the buffer, so that what is left at the end of the *)
(* stream is one line that nothing is cut from.                               *)
EXTENDS NdjsonLines, FiniteSetTheorems, SequenceTheorems, WellFoundedInduction, TLAPS

Bytes(f) == {f[n] : n \in DOMAIN f}

\* Line l of file f holds the bytes from `from' on (NoByteLost, of one line).
IsLine(f, l, from) ==
  LET bytes == SubSeq(f, from + 1, l.byteOffsetAfter)
      body == IF bytes[Len(bytes)] = NL THEN SubSeq(bytes, 1, Len(bytes) - 1) ELSE bytes
  IN /\ from < l.byteOffsetAfter
     /\ l.raw = IF l.oversized THEN SubSeq(bytes, 1, MaxLineBytes) ELSE StripTrailingCr(body)
     /\ Newlines(body) = {}

\* Where the k-th of the lines ls begins.
Start(ls, k) == IF k = 1 THEN 0 ELSE ls[k - 1].byteOffsetAfter

AreLines(f, ls) ==
  /\ ls \in Seq(Line(f))
  /\ \A k \in DOMAIN ls : /\ ls[k].lineNumber = k
                          /\ k <= ls[k].byteOffsetAfter
                          /\ IsLine(f, ls[k], Start(ls, k))

BufferInv ==
  /\ pc # "done" => buffer = SubSeq(file, byteOffset + 1, read)
  /\ pc = "await" => Newlines(buffer) = {} /\ Len(buffer) <= MaxLineBytes
  /\ pc = "done" => byteOffset = Len(file)

ParseInv ==
  /\ TypeOK
  /\ AreLines(file, lines)
  /\ byteOffset <= read
  /\ lineNumber = Len(lines)
  /\ byteOffset = Start(lines, Len(lines) + 1)
  /\ BufferInv

------------------------------------------------------------------------------
\* Pieces of a file.

LEMMA NothingInIt == Len(<<>>) = 0 /\ DOMAIN <<>> = {} /\ Newlines(<<>>) = {}
<1>1. Len(<<>>) = 0 /\ DOMAIN <<>> = {}
  OBVIOUS
<1> QED
  BY <1>1 DEF Newlines

LEMMA FilesAreSequences ==
  ASSUME NEW f \in Files
  PROVE  f \in Seq(Bytes(f)) /\ Len(f) \in Nat /\ DOMAIN f = 1 .. Len(f)
BY FilesAssumption DEF Bytes

LEMMA Piece ==
  ASSUME NEW S, NEW f \in Seq(S), NEW a \in Nat, NEW b \in Nat, a <= b, b <= Len(f)
  PROVE  /\ SubSeq(f, a + 1, b) \in Seq(S)
         /\ Len(SubSeq(f, a + 1, b)) = b - a
         /\ \A k \in 1 .. b - a : SubSeq(f, a + 1, b)[k] = f[a + k]
<1>1. Len(f) \in Nat /\ \A k \in 1 .. Len(f) : f[k] \in S
  BY LenProperties, ElementOfSeq
<1>2. \A i \in a + 1 .. b : f[i] \in S
  BY <1>1
<1>3. a + 1 \in Int /\ b \in Int
  OBVIOUS
<1>4. /\ SubSeq(f, a + 1, b) \in Seq(S)
      /\ Len(SubSeq(f, a + 1, b)) = IF a + 1 <= b THEN b - (a + 1) + 1 ELSE 0
      /\ \A i \in 1 .. b - (a + 1) + 1 : SubSeq(f, a + 1, b)[i] = f[a + 1 + i - 1]
  BY <1>2, <1>3, SubSeqProperties
<1> QED
  BY <1>4

\* A piece falls into the pieces before and after any place in it.
LEMMA Pieces ==
  ASSUME NEW S, NEW f \in Seq(S), NEW a \in Nat, NEW b \in Nat, NEW c \in Nat,
         a <= b, b <= c, c <= Len(f)
  PROVE  /\ SubSeq(SubSeq(f, a + 1, c), 1, b - a) = SubSeq(f, a + 1, b)
         /\ SubSeq(SubSeq(f, a + 1, c), b - a + 1, c - a) = SubSeq(f, b + 1, c)
         /\ SubSeq(f, a + 1, b) \o SubSeq(f, b + 1, c) = SubSeq(f, a + 1, c)
<1> DEFINE all == SubSeq(f, a + 1, c)
           left == SubSeq(f, a + 1, b)
           right == SubSeq(f, b + 1, c)
<1>1. Len(f) \in Nat
  BY LenProperties
<1>2. /\ all \in Seq(S) /\ Len(all) = c - a
      /\ \A k \in 1 .. c - a : all[k] = f[a + k]
  BY <1>1, Piece
<1>3. /\ left \in Seq(S) /\ Len(left) = b - a
      /\ \A k \in 1 .. b - a : left[k] = f[a + k]
  BY <1>1, Piece
<1>4. /\ right \in Seq(S) /\ Len(right) = c - b
      /\ \A k \in 1 .. c - b : right[k] = f[b + k]
  BY <1>1, Piece
<1> HIDE DEF all, left, right
<1>5. SubSeq(all, 1, b - a) = left
  <2>1. b - a \in Nat /\ 0 <= b - a /\ b - a <= Len(all)
    BY <1>2
  <2>2. /\ SubSeq(all, 0 + 1, b - a) \in Seq(S)
        /\ Len(SubSeq(all, 0 + 1, b - a)) = b - a - 0
        /\ \A k \in 1 .. b - a - 0 : SubSeq(all, 0 + 1, b - a)[k] = all[0 + k]
    BY <1>2, <2>1, Piece
  <2>3. \A k \in 1 .. b - a : SubSeq(all, 1, b - a)[k] = left[k]
    BY <1>2, <1>3, <2>2
  <2> QED
    BY <1>3, <2>2, <2>3, SeqEqual
<1>6. SubSeq(all, b - a + 1, c - a) = right
  <2>1. b - a \in Nat /\ c - a \in Nat /\ b - a <= c - a /\ c - a <= Len(all)
    BY <1>2
  <2>2. /\ SubSeq(all, b - a + 1, c - a) \in Seq(S)
        /\ Len(SubSeq(all, b - a + 1, c - a)) = c - a - (b - a)
        /\ \A k \in 1 .. c - a - (b - a) : SubSeq(all, b - a + 1, c - a)[k] = all[b - a + k]
    BY <1>2, <2>1, Piece
  <2>3. \A k \in 1 .. c - b : SubSeq(all, b - a + 1, c - a)[k] = right[k]
    BY <1>2, <1>4, <2>2
  <2>4. Len(SubSeq(all, b - a + 1, c - a)) = Len(right) /\ Len(right) = c - b
    BY <1>4, <2>2
  <2> QED
    BY <1>4, <2>2, <2>3, <2>4, SeqEqual
<1>7. left \o right = all
  <2>1. /\ a + 1 \in 1 .. Len(f) + 1 /\ b \in a + 1 - 1 .. Len(f) /\ c \in b .. Len(f)
    BY <1>1
  <2> QED
    BY <2>1, ConcatAdjacentSubSeq DEF left, right, all
<1> QED
  BY <1>5, <1>6, <1>7 DEF all, left, right

\* A set of numbers has a least one.
LEMMA LeastNumber ==
  ASSUME NEW S \in SUBSET Nat, S # {}
  PROVE  \E n \in S : \A m \in S : n <= m
<1> DEFINE R == OpToRel(<, Nat)
<1>1. IsWellFoundedOn(R, Nat)
  BY NatLessThanWellFounded
<1> HIDE DEF R
<1>2. PICK n \in S : \A m \in S : <<m, n>> \notin R
  BY <1>1, WFMin
<1> USE DEF R
<1>3. \A m \in S : ~ (m < n)
  BY <1>2 DEF OpToRel
<1> QED
  BY <1>3

LEMMA NewlineFound ==
  ASSUME NEW S, NEW buf \in Seq(S), Newlines(buf) # {}
  PROVE  /\ FirstNewline(buf) \in 1 .. Len(buf)
         /\ buf[FirstNewline(buf)] = NL
         /\ \A m \in 1 .. FirstNewline(buf) - 1 : buf[m] # NL
<1>1. Len(buf) \in Nat /\ DOMAIN buf = 1 .. Len(buf)
  BY LenProperties
<1>2. Newlines(buf) \in SUBSET Nat
  BY <1>1 DEF Newlines
<1>3. \E n \in Newlines(buf) : \A m \in Newlines(buf) : n <= m
  BY <1>2, LeastNumber
<1>4. /\ FirstNewline(buf) \in Newlines(buf)
      /\ \A m \in Newlines(buf) : FirstNewline(buf) <= m
  BY <1>3 DEF FirstNewline
<1> QED
  BY <1>1, <1>4 DEF Newlines

------------------------------------------------------------------------------
\* The steps.

LEMMA ParseInit == Init => ParseInv
<1> SUFFICES ASSUME Init PROVE ParseInv
  OBVIOUS
<1>1. file \in Seq(Bytes(file)) /\ Len(file) \in Nat
  BY FilesAreSequences DEF Init
<1>2. SubSeq(file, 0 + 1, 0) = <<>>
  BY <1>1, SubSeqEmpty
<1>3. SubSeq(file, 1, 0) = <<>>
  BY <1>2
<1>4. <<>> \in Parts(file)
  <2>1. 1 \in 1 .. Len(file) + 1 /\ 0 \in 0 .. Len(file)
    BY <1>1
  <2> QED
    BY <1>3, <2>1 DEF Parts
<1>5. MaxLineBytes \in Nat /\ MaxResumes \in Nat
  BY FilesAssumption
<1>6. TypeOK
  BY <1>1, <1>4, <1>5 DEF Init, TypeOK
<1>7. lines = <<>> /\ DOMAIN lines = {} /\ Len(lines) = 0
  BY DEF Init
<1>8. AreLines(file, lines)
  BY <1>7 DEF AreLines
<1>9. BufferInv
  BY <1>2, <1>5 DEF Init, BufferInv, Newlines
<1> QED
  BY <1>6, <1>7, <1>8, <1>9 DEF Init, ParseInv, Start

LEMMA NumbersStayBelow ==
  ASSUME NEW f \in Files, NEW ls, AreLines(f, ls)
  PROVE  /\ Len(ls) \in Nat /\ Start(ls, Len(ls) + 1) \in 0 .. Len(f)
         /\ Len(ls) <= Start(ls, Len(ls) + 1)
<1>1. ls \in Seq(Line(f)) /\ Len(ls) \in Nat /\ DOMAIN ls = 1 .. Len(ls) /\ Len(f) \in Nat
  BY FilesAreSequences DEF AreLines
<1>2. CASE Len(ls) = 0
  BY <1>1, <1>2 DEF Start
<1>3. CASE Len(ls) # 0
  <2>1. Len(ls) \in DOMAIN ls /\ Start(ls, Len(ls) + 1) = ls[Len(ls)].byteOffsetAfter
    BY <1>1, <1>3 DEF Start
  <2>2. ls[Len(ls)].byteOffsetAfter \in 1 .. Len(f)
    <3>1. ls[Len(ls)] \in Line(f)
      BY <1>1, <2>1
    <3> QED
      BY <3>1 DEF Line
  <2>3. Len(ls) <= ls[Len(ls)].byteOffsetAfter
    BY <2>1 DEF AreLines
  <2> QED
    BY <1>1, <2>1, <2>2, <2>3
<1> QED
  BY <1>2, <1>3

LEMMA OneMoreLine ==
  ASSUME NEW f \in Files, NEW ls, AreLines(f, ls), NEW l \in Line(f),
         l.lineNumber = Len(ls) + 1, IsLine(f, l, Start(ls, Len(ls) + 1))
  PROVE  /\ AreLines(f, Append(ls, l))
         /\ Len(ls) \in Nat /\ Len(Append(ls, l)) = Len(ls) + 1
         /\ Start(Append(ls, l), Len(ls) + 2) = l.byteOffsetAfter
<1> DEFINE len == Len(ls)
           more == Append(ls, l)
<1>1. /\ ls \in Seq(Line(f)) /\ len \in Nat /\ DOMAIN ls = 1 .. len
      /\ Len(f) \in Nat
  BY FilesAreSequences DEF AreLines
<1>2. /\ more \in Seq(Line(f)) /\ Len(more) = len + 1 /\ DOMAIN more = 1 .. len + 1
      /\ more[len + 1] = l /\ \A k \in 1 .. len : more[k] = ls[k]
  BY <1>1, AppendProperties
<1> HIDE DEF more
<1>3. \A k \in 1 .. len + 1 : Start(more, k) = Start(ls, k)
  BY <1>1, <1>2 DEF Start
<1>4. len + 1 <= l.byteOffsetAfter
  <2>1. Start(ls, len + 1) < l.byteOffsetAfter /\ l.byteOffsetAfter \in Nat
    BY DEF IsLine, Line
  <2> QED
    BY <1>1, <2>1, NumbersStayBelow
<1>5. AreLines(f, more)
  BY <1>1, <1>2, <1>3, <1>4 DEF AreLines
<1> QED
  BY <1>1, <1>2, <1>5 DEF Start, more

\* The line that is yielded next begins where the one before it ended.
LEMMA YieldStep ==
  ASSUME ParseInv, NEW raw \in Parts(file), NEW n \in Nat \ {0}, NEW o \in BOOLEAN,
         byteOffset + n <= Len(file), Yield(raw, n, o), file' = file,
         IsLine(file, [lineNumber |-> lineNumber + 1, raw |-> raw,
                       byteOffsetAfter |-> byteOffset + n, oversized |-> o], byteOffset)
  PROVE  /\ AreLines(file', lines')
         /\ lineNumber' = Len(lines') /\ lineNumber' \in 0 .. Len(file)
         /\ byteOffset' = Start(lines', Len(lines') + 1)
         /\ byteOffset' = byteOffset + n
<1> DEFINE l == [lineNumber |-> lineNumber + 1, raw |-> raw,
                 byteOffsetAfter |-> byteOffset + n, oversized |-> o]
<1>1. /\ file \in Files /\ AreLines(file, lines) /\ byteOffset \in Nat /\ Len(file) \in Nat
      /\ lineNumber \in 0 .. Len(file)
      /\ lineNumber = Len(lines) /\ byteOffset = Start(lines, Len(lines) + 1)
  BY FilesAreSequences DEF ParseInv, TypeOK
<1>2. lineNumber <= byteOffset
  BY <1>1, NumbersStayBelow
<1>3. l \in Line(file)
  BY <1>1, <1>2 DEF Line
<1>4. lines' = Append(lines, l) /\ lineNumber' = lineNumber + 1 /\ byteOffset' = byteOffset + n
  BY DEF Yield
<1>5. l.lineNumber = Len(lines) + 1 /\ l.byteOffsetAfter = byteOffset + n
  BY <1>1
<1> HIDE DEF l
<1>6. IsLine(file, l, Start(lines, Len(lines) + 1))
  BY <1>1 DEF l
<1>7. /\ AreLines(file, Append(lines, l))
      /\ Len(lines) \in Nat /\ Len(Append(lines, l)) = Len(lines) + 1
      /\ Start(Append(lines, l), Len(lines) + 2) = l.byteOffsetAfter
  BY <1>1, <1>3, <1>5, <1>6, OneMoreLine
<1> QED
  BY <1>1, <1>2, <1>4, <1>5, <1>7

LEMMA PartsAre ==
  ASSUME NEW f, NEW x \in Parts(f)
  PROVE  \E a \in 1 .. Len(f) + 1, b \in 0 .. Len(f) : x = SubSeq(f, a, b)
BY DEF Parts

LEMMA PartsOfFiles ==
  ASSUME NEW f \in Files, NEW a \in Nat, NEW b \in Nat, a <= b, b <= Len(f)
  PROVE  /\ SubSeq(f, a + 1, b) \in Parts(f)
         /\ StripTrailingCr(SubSeq(f, a + 1, b)) \in Parts(f)
<1> DEFINE s == SubSeq(f, a + 1, b)
<1>1. f \in Seq(Bytes(f)) /\ Len(f) \in Nat
  BY FilesAreSequences
<1>2. \A c \in Nat : c <= Len(f) => SubSeq(f, a + 1, c) \in Parts(f)
  <2>1. a + 1 \in 1 .. Len(f) + 1
    BY <1>1
  <2>2. ASSUME NEW c \in Nat, c <= Len(f) PROVE SubSeq(f, a + 1, c) \in Parts(f)
    <3>1. c \in 0 .. Len(f)
      BY <1>1, <2>2
    <3>2. \E x \in 1 .. Len(f) + 1, y \in 0 .. Len(f) : SubSeq(f, a + 1, c) = SubSeq(f, x, y)
      BY <2>1, <3>1
    <3> QED
      BY <3>2 DEF Parts
  <2> QED
    BY <2>2
<1>3. /\ s \in Seq(Bytes(f)) /\ Len(s) = b - a
      /\ SubSeq(s, 1, 0) = <<>>
  BY <1>1, Piece, SubSeqEmpty
<1>4. ASSUME s # <<>>
      PROVE  SubSeq(s, 1, Len(s) - 1) \in Parts(f)
  <2>1. Len(s) # 0
    BY <1>3, <1>4, EmptySeq
  <2>2. PICK c \in Nat : c = b - 1 /\ a <= c /\ c <= b /\ c <= Len(f)
    BY <1>1, <1>3, <2>1
  <2>3. SubSeq(s, 1, c - a) = SubSeq(f, a + 1, c)
    BY <1>1, <2>2, Pieces
  <2>4. Len(s) - 1 = c - a
    BY <1>3, <2>2
  <2> HIDE DEF s
  <2>5. SubSeq(f, a + 1, c) \in Parts(f)
    BY <1>2, <2>2
  <2> QED
    BY <2>3, <2>4, <2>5
<1> QED
  BY <1>2, <1>4 DEF StripTrailingCr

LEMMA ReadChunkStep == ParseInv /\ ReadChunk => ParseInv'
<1> SUFFICES ASSUME ParseInv, ReadChunk PROVE ParseInv'
  OBVIOUS
<1>1. PICK n \in read + 1 .. Len(file) :
        buffer' = buffer \o SubSeq(file, read + 1, n) /\ read' = n
  BY DEF ReadChunk
<1>2. /\ file \in Files /\ file \in Seq(Bytes(file)) /\ Len(file) \in Nat
      /\ read \in 0 .. Len(file) /\ byteOffset \in 0 .. Len(file) /\ byteOffset <= read
      /\ buffer = SubSeq(file, byteOffset + 1, read)
  BY FilesAreSequences DEF ParseInv, TypeOK, BufferInv, ReadChunk
<1>3. buffer' = SubSeq(file, byteOffset + 1, n)
  <2>1. /\ byteOffset \in Nat /\ read \in Nat /\ n \in Nat
        /\ byteOffset <= read /\ read <= n /\ n <= Len(file)
    BY <1>1, <1>2
  <2>2. SubSeq(file, byteOffset + 1, read) \o SubSeq(file, read + 1, n)
          = SubSeq(file, byteOffset + 1, n)
    BY <1>2, <2>1, Pieces
  <2> QED
    BY <1>1, <1>2, <2>2
<1>4. buffer' \in Parts(file)
  <2>1. byteOffset \in Nat /\ n \in Nat /\ byteOffset <= n /\ n <= Len(file)
    BY <1>1, <1>2
  <2> QED
    BY <1>2, <1>3, <2>1, PartsOfFiles
<1>5. TypeOK'
  BY <1>1, <1>2, <1>4 DEF ParseInv, TypeOK, ReadChunk
<1>6. BufferInv'
  BY <1>1, <1>3 DEF BufferInv, ReadChunk
<1> QED
  BY <1>1, <1>2, <1>5, <1>6 DEF ParseInv, ReadChunk

LEMMA YieldLineStep == ParseInv /\ YieldLine => ParseInv'
<1> SUFFICES ASSUME ParseInv, YieldLine PROVE ParseInv'
  OBVIOUS
<1> DEFINE o == byteOffset
           n == FirstNewline(buffer)
           bytes == SubSeq(file, o + 1, o + n)
           body == SubSeq(file, o + 1, o + n - 1)
<1>1. /\ file \in Files /\ file \in Seq(Bytes(file)) /\ Len(file) \in Nat
      /\ read \in 0 .. Len(file) /\ o \in 0 .. Len(file) /\ o <= read
      /\ buffer = SubSeq(file, o + 1, read)
  BY FilesAreSequences DEF ParseInv, TypeOK, BufferInv, YieldLine
<1>2. /\ buffer \in Seq(Bytes(file)) /\ Len(buffer) = read - o
      /\ \A k \in 1 .. read - o : buffer[k] = file[o + k]
  BY <1>1, Piece
<1>3. /\ n \in 1 .. Len(buffer) /\ buffer[n] = NL
      /\ \A m \in 1 .. n - 1 : buffer[m] # NL
  BY <1>2, NewlineFound DEF YieldLine
<1> HIDE DEF n
<1>4. /\ n \in Nat /\ n >= 1 /\ o + n \in Nat /\ o + n - 1 \in Nat
      /\ o <= o + n - 1 /\ o + n <= read /\ o + n <= Len(file)
  BY <1>1, <1>2, <1>3
<1>5. /\ bytes \in Seq(Bytes(file)) /\ Len(bytes) = n
      /\ bytes[n] = NL
  <2>1. /\ bytes \in Seq(Bytes(file)) /\ Len(bytes) = o + n - o
        /\ \A k \in 1 .. o + n - o : bytes[k] = file[o + k]
    BY <1>1, <1>4, Piece
  <2> QED
    BY <1>1, <1>2, <1>3, <1>4, <2>1
<1>6. /\ SubSeq(buffer, 1, n - 1) = body
      /\ SubSeq(buffer, n + 1, Len(buffer)) = SubSeq(file, o + n + 1, read)
      /\ SubSeq(bytes, 1, n - 1) = body
  <2>1. o + n - 1 - o = n - 1 /\ o + n - o = n
    BY <1>1, <1>4
  <2>2. SubSeq(buffer, 1, o + n - 1 - o) = body
    BY <1>1, <1>4, Pieces
  <2>3. SubSeq(buffer, o + n - o + 1, read - o) = SubSeq(file, o + n + 1, read)
    BY <1>1, <1>4, Pieces
  <2>4. SubSeq(bytes, 1, o + n - 1 - o) = body
    BY <1>1, <1>4, Pieces
  <2> QED
    BY <1>2, <2>1, <2>2, <2>3, <2>4
<1>7. Newlines(body) = {}
  <2>1. /\ body \in Seq(Bytes(file)) /\ Len(body) = o + n - 1 - o
        /\ \A k \in 1 .. o + n - 1 - o : body[k] = file[o + k]
    BY <1>1, <1>4, Piece
  <2>2. DOMAIN body = 1 .. n - 1 /\ \A k \in 1 .. n - 1 : body[k] = buffer[k]
    BY <1>1, <1>2, <1>4, <2>1, LenProperties
  <2> QED
    BY <1>3, <2>2 DEF Newlines
<1>8. StripTrailingCr(body) \in Parts(file) /\ SubSeq(file, o + n + 1, read) \in Parts(file)
  <2>1. o \in Nat /\ read \in Nat /\ o + n - 1 <= Len(file) /\ read <= Len(file)
    BY <1>1, <1>4
  <2>2. StripTrailingCr(body) \in Parts(file)
    BY <1>1, <1>4, <2>1, PartsOfFiles
  <2>3. SubSeq(file, o + n + 1, read) \in Parts(file)
    BY <1>1, <1>4, <2>1, PartsOfFiles
  <2> QED
    BY <2>2, <2>3
<1> DEFINE l == [lineNumber |-> lineNumber + 1, raw |-> StripTrailingCr(body),
                 byteOffsetAfter |-> o + n, oversized |-> FALSE]
<1>9. IsLine(file, l, o)
  <2>1. l.raw = StripTrailingCr(body) /\ l.byteOffsetAfter = o + n /\ l.oversized = FALSE
    OBVIOUS
  <2> HIDE DEF l, bytes, body
  <2>2. o < l.byteOffsetAfter
    BY <1>1, <1>4, <2>1
  <2> QED
    BY <1>5, <1>6, <1>7, <2>1, <2>2 DEF IsLine, bytes, body
<1>10. Yield(StripTrailingCr(body), n, FALSE) /\ file' = file
  BY <1>6 DEF YieldLine, n
<1>11. /\ AreLines(file', lines')
       /\ lineNumber' = Len(lines') /\ lineNumber' \in 0 .. Len(file)
       /\ byteOffset' = Start(lines', Len(lines') + 1)
       /\ byteOffset' = o + n
  <2>1. n \in Nat \ {0} /\ FALSE \in BOOLEAN
    BY <1>4
  <2> HIDE DEF body
  <2> QED
    BY <1>4, <1>8, <1>9, <1>10, <2>1, YieldStep
<1>12. buffer' = SubSeq(file, o + n + 1, read) /\ pc' = "scan" /\ read' = read
       /\ resumes' = resumes
  BY <1>6 DEF YieldLine, n
<1>13. \A k \in DOMAIN lines' : lines'[k] \in Line(file)
  BY <1>10, <1>11 DEF AreLines
<1>14. TypeOK'
  BY <1>1, <1>4, <1>8, <1>10, <1>11, <1>12, <1>13 DEF ParseInv, TypeOK
<1>15. BufferInv'
  BY <1>10, <1>11, <1>12 DEF BufferInv
<1> QED
  BY <1>4, <1>11, <1>12, <1>14, <1>15 DEF ParseInv

LEMMA YieldOversizedStep == ParseInv /\ YieldOversized => ParseInv'
<1> SUFFICES ASSUME ParseInv, YieldOversized PROVE ParseInv'
  OBVIOUS
<1> DEFINE o == byteOffset
           n == Len(buffer)
           raw == SubSeq(buffer, 1, MaxLineBytes)
           l == [lineNumber |-> lineNumber + 1, raw |-> raw,
                 byteOffsetAfter |-> o + n, oversized |-> TRUE]
<1>1. /\ file \in Files /\ file \in Seq(Bytes(file)) /\ Len(file) \in Nat
      /\ read \in 0 .. Len(file) /\ o \in 0 .. Len(file) /\ o <= read
      /\ buffer = SubSeq(file, o + 1, read)
      /\ MaxLineBytes \in Nat \ {0} /\ resumes \in 0 .. MaxResumes
  BY FilesAreSequences, FilesAssumption DEF ParseInv, TypeOK, BufferInv, YieldOversized
<1>2. buffer \in Seq(Bytes(file)) /\ n = read - o /\ n > MaxLineBytes
  BY <1>1, Piece DEF YieldOversized
<1>3. n \in Nat \ {0} /\ o + n = read
  BY <1>1, <1>2
<1>4. raw \in Parts(file)
  <2>1. PICK c \in Nat : c = o + MaxLineBytes /\ o <= c /\ c <= read /\ c <= Len(file)
    BY <1>1, <1>2
  <2>2. o \in Nat /\ read \in Nat /\ read <= Len(file) /\ c - o = MaxLineBytes
    BY <1>1, <2>1
  <2>3. SubSeq(buffer, 1, c - o) = SubSeq(file, o + 1, c)
    BY <1>1, <2>1, <2>2, Pieces
  <2>4. SubSeq(file, o + 1, c) \in Parts(file)
    BY <1>1, <2>1, <2>2, PartsOfFiles
  <2> QED
    BY <2>2, <2>3, <2>4
<1>5. Newlines(buffer) = {} /\ buffer[Len(buffer)] # NL
  <2>1. DOMAIN buffer = 1 .. n /\ n \in DOMAIN buffer
    BY <1>2, <1>3, LenProperties
  <2> QED
    BY <2>1 DEF YieldOversized, Newlines
<1>6. IsLine(file, l, o)
  <2>1. l.raw = raw /\ l.byteOffsetAfter = read /\ l.oversized = TRUE
    BY <1>3
  <2>2. o < read
    BY <1>1, <1>3
  <2> HIDE DEF l
  <2> QED
    BY <1>1, <1>5, <2>1, <2>2 DEF IsLine
<1>7. Yield(raw, n, TRUE) /\ file' = file /\ o + n <= Len(file) /\ TRUE \in BOOLEAN
  <2>1. Yield(raw, n, TRUE) /\ file' = file
    BY DEF YieldOversized
  <2> HIDE DEF n, raw
  <2>2. o + n <= Len(file)
    BY <1>1, <1>3
  <2> QED
    BY <2>1, <2>2
<1> HIDE DEF n, raw
<1>8. /\ AreLines(file', lines')
      /\ lineNumber' = Len(lines') /\ lineNumber' \in 0 .. Len(file)
      /\ byteOffset' = Start(lines', Len(lines') + 1)
      /\ byteOffset' = o + n
  BY <1>3, <1>4, <1>6, <1>7, YieldStep
<1>9. /\ buffer' = <<>> /\ pc' = "await" /\ read' = read /\ resumes' = resumes
      /\ byteOffset' = read'
  BY <1>3, <1>8 DEF YieldOversized
<1>10. /\ SubSeq(file, read + 1, read) = <<>>
       /\ <<>> \in Parts(file) /\ Newlines(<<>>) = {} /\ Len(<<>>) = 0
  <2>1. read \in Nat /\ read <= read /\ read <= Len(file)
    BY <1>1
  <2>2. SubSeq(file, read + 1, read) \in Parts(file)
    BY <1>1, <2>1, PartsOfFiles
  <2>3. SubSeq(file, read + 1, read) = <<>>
    BY <2>1, SubSeqEmpty
  <2> QED
    BY <2>2, <2>3, NothingInIt
<1>11. \A k \in DOMAIN lines' : lines'[k] \in Line(file)
  BY <1>7, <1>8 DEF AreLines
<1>12. TypeOK'
  BY <1>1, <1>7, <1>8, <1>9, <1>10, <1>11 DEF TypeOK
<1>13. BufferInv'
  BY <1>1, <1>7, <1>9, <1>10 DEF BufferInv
<1> QED
  BY <1>1, <1>8, <1>9, <1>12, <1>13 DEF ParseInv

LEMMA AwaitMoreStep == ParseInv /\ AwaitMore => ParseInv'
BY DEF ParseInv, AwaitMore, TypeOK, BufferInv

LEMMA EndOfStreamStep == ParseInv /\ EndOfStream => ParseInv'
<1> SUFFICES ASSUME ParseInv, EndOfStream PROVE ParseInv'
  OBVIOUS
<1> DEFINE o == byteOffset
           n == Len(buffer)
<1>1. /\ file \in Files /\ file \in Seq(Bytes(file)) /\ Len(file) \in Nat
      /\ read = Len(file) /\ o \in 0 .. Len(file) /\ o <= read
      /\ buffer = SubSeq(file, o + 1, read)
      /\ Newlines(buffer) = {} /\ n <= MaxLineBytes
      /\ MaxLineBytes \in Nat
  BY FilesAreSequences, FilesAssumption DEF ParseInv, TypeOK, BufferInv, EndOfStream
<1>2. buffer \in Seq(Bytes(file)) /\ n = read - o
  BY <1>1, Piece
<1>3. /\ file' = file /\ read' = read /\ buffer' = buffer /\ resumes' = resumes
      /\ pc' = "done"
  BY DEF EndOfStream
<1>4. CASE buffer = <<>>
  <2>1. o = Len(file)
    <3>1. n = 0
      BY <1>4, NothingInIt
    <3> HIDE DEF n
    <3>2. read - o = 0 /\ read \in Nat /\ o \in Nat
      BY <1>1, <1>2, <3>1
    <3> QED
      BY <1>1, <3>2
  <2> QED
    BY <1>1, <1>3, <1>4, <2>1 DEF EndOfStream, YieldRest, ParseInv, TypeOK, BufferInv
<1>5. CASE buffer # <<>>
  <2> DEFINE raw == StripTrailingCr(buffer)
             l == [lineNumber |-> lineNumber + 1, raw |-> raw,
                   byteOffsetAfter |-> o + n, oversized |-> FALSE]
  <2>1. n \in Nat \ {0} /\ o + n = read /\ o < read
    BY <1>1, <1>2, <1>5, EmptySeq
  <2>2. raw \in Parts(file)
    BY <1>1, PartsOfFiles
  <2>3. buffer[Len(buffer)] # NL
    <3>1. DOMAIN buffer = 1 .. n /\ n \in DOMAIN buffer
      BY <1>2, <2>1, LenProperties
    <3> QED
      BY <1>1, <3>1 DEF Newlines
  <2>4. IsLine(file, l, o)
    <3>1. l.raw = raw /\ l.byteOffsetAfter = read /\ l.oversized = FALSE
      BY <2>1
    <3> HIDE DEF l
    <3> QED
      BY <1>1, <2>1, <2>3, <3>1 DEF IsLine
  <2>5. Yield(raw, n, FALSE)
    <3>1. (n > MaxLineBytes) = FALSE
      BY <1>1, <2>1
    <3> QED
      BY <1>5, <3>1 DEF EndOfStream, YieldRest
  <2>6. o + n <= Len(file) /\ FALSE \in BOOLEAN
    BY <1>1, <2>1
  <2> HIDE DEF raw, n
  <2>7. /\ AreLines(file', lines')
        /\ lineNumber' = Len(lines') /\ lineNumber' \in 0 .. Len(file)
        /\ byteOffset' = Start(lines', Len(lines') + 1)
        /\ byteOffset' = o + n
    BY <1>3, <2>1, <2>2, <2>4, <2>5, <2>6, YieldStep
  <2>8. \A k \in DOMAIN lines' : lines'[k] \in Line(file)
    BY <1>3, <2>7 DEF AreLines
  <2>9. TypeOK'
    BY <1>1, <1>3, <2>1, <2>7, <2>8 DEF ParseInv, TypeOK
  <2>10. BufferInv'
    BY <1>1, <1>3, <2>1, <2>7 DEF BufferInv
  <2> QED
    BY <1>1, <1>3, <2>1, <2>7, <2>9, <2>10 DEF ParseInv
<1> QED
  BY <1>4, <1>5

LEMMA FewerLines ==
  ASSUME NEW f \in Files, NEW ls, AreLines(f, ls), NEW k \in 0 .. Len(ls)
  PROVE  /\ AreLines(f, SubSeq(ls, 1, k)) /\ Len(SubSeq(ls, 1, k)) = k
         /\ \A j \in 1 .. k : j \in DOMAIN ls /\ SubSeq(ls, 1, k)[j] = ls[j]
         /\ Start(SubSeq(ls, 1, k), k + 1) = IF k = 0 THEN 0 ELSE ls[k].byteOffsetAfter
         /\ k # 0 => ls[k].lineNumber = k
<1> DEFINE few == SubSeq(ls, 1, k)
<1>1. ls \in Seq(Line(f)) /\ Len(ls) \in Nat /\ DOMAIN ls = 1 .. Len(ls) /\ k \in Nat
  BY DEF AreLines
<1>2. few \in Seq(Line(f)) /\ Len(few) = k /\ \A j \in 1 .. k : few[j] = ls[j]
  <2>1. k - 0 = k /\ 0 <= k /\ k <= Len(ls) /\ 0 \in Nat
    BY <1>1
  <2>2. /\ SubSeq(ls, 0 + 1, k) \in Seq(Line(f))
        /\ Len(SubSeq(ls, 0 + 1, k)) = k - 0
        /\ \A j \in 1 .. k - 0 : SubSeq(ls, 0 + 1, k)[j] = ls[0 + j]
    BY <1>1, <2>1, Piece
  <2> QED
    BY <1>1, <2>2
<1>3. DOMAIN few = 1 .. k
  BY <1>2, LenProperties
<1> HIDE DEF few
<1>4. \A j \in 1 .. k + 1 : Start(few, j) = Start(ls, j)
  BY <1>1, <1>2 DEF Start
<1>5. AreLines(f, few)
  BY <1>1, <1>2, <1>3, <1>4 DEF AreLines
<1> QED
  BY <1>1, <1>2, <1>5 DEF Start, AreLines, few

LEMMA ResumeStep ==
  ASSUME ParseInv, NEW k \in 0 .. Len(lines), ResumeAt(k),
         read' = byteOffset', buffer' = <<>>, pc' = "await", file' = file,
         resumes' \in 0 .. MaxResumes
  PROVE  ParseInv'
<1>1. file \in Files /\ file \in Seq(Bytes(file)) /\ Len(file) \in Nat /\ AreLines(file, lines)
  BY FilesAreSequences DEF ParseInv, TypeOK
<1>2. /\ lines' = SubSeq(lines, 1, k)
      /\ AreLines(file, lines') /\ Len(lines') = k
      /\ Start(lines', k + 1) = byteOffset' /\ lineNumber' = k
  BY <1>1, FewerLines DEF ResumeAt
<1>3. /\ k \in Nat /\ byteOffset' \in 0 .. Len(file) /\ k \in 0 .. Len(file)
  <2>1. /\ Start(lines', Len(lines') + 1) \in 0 .. Len(file)
        /\ Len(lines') <= Start(lines', Len(lines') + 1) /\ Len(lines') \in Nat
    BY <1>1, <1>2, NumbersStayBelow
  <2>2. byteOffset' \in 0 .. Len(file) /\ k <= byteOffset' /\ k \in Nat
    BY <1>2, <2>1
  <2> QED
    BY <1>1, <2>2
<1>4. SubSeq(file, byteOffset' + 1, byteOffset') = <<>> /\ <<>> \in Parts(file)
  <2>1. PICK o \in Nat : o = byteOffset' /\ o <= Len(file)
    BY <1>1, <1>3
  <2>2. SubSeq(file, o + 1, o) \in Parts(file)
    BY <1>1, <2>1, PartsOfFiles
  <2>3. SubSeq(file, o + 1, o) = <<>>
    <3>1. o + 1 \in Int /\ o \in Int /\ o < o + 1
      OBVIOUS
    <3> QED
      BY <3>1, SubSeqEmpty
  <2> QED
    BY <2>1, <2>2, <2>3
<1>5. TypeOK'
  BY <1>1, <1>2, <1>3, <1>4 DEF TypeOK, AreLines
<1>6. BufferInv'
  <2>1. Newlines(buffer') = {} /\ Len(buffer') <= MaxLineBytes
    BY NothingInIt, FilesAssumption
  <2>2. buffer' = SubSeq(file', byteOffset' + 1, read')
    BY <1>4
  <2> QED
    BY <2>1, <2>2 DEF BufferInv
<1> QED
  BY <1>1, <1>2, <1>3, <1>5, <1>6 DEF ParseInv

LEMMA ParseStep == ParseInv /\ [Next]_vars => ParseInv'
<1> SUFFICES ASSUME ParseInv, [Next]_vars PROVE ParseInv'
  OBVIOUS
<1>1. CASE Resume
  <2>1. PICK k \in 0 .. Len(lines) : ResumeAt(k)
    BY <1>1 DEF Resume
  <2>2. /\ read' = byteOffset' /\ buffer' = <<>> /\ pc' = "await" /\ file' = file
        /\ resumes' \in 0 .. MaxResumes
    BY <1>1, FilesAssumption DEF Resume, ParseInv, TypeOK
  <2> QED
    BY <2>1, <2>2, ResumeStep
<1>2. CASE UNCHANGED vars
  BY <1>2 DEF vars, ParseInv, TypeOK, BufferInv
<1> QED
  BY <1>1, <1>2, ReadChunkStep, YieldLineStep, YieldOversizedStep, AwaitMoreStep,
     EndOfStreamStep DEF Next

LEMMA ParseIsInductive == Spec => []ParseInv
BY ParseInit, ParseStep, PTL DEF Spec

LEMMA LinesAreWhole == ParseInv => NoByteLost
<1> SUFFICES ASSUME ParseInv PROVE NoByteLost
  OBVIOUS
<1>1. \A k : Before(k) = Start(lines, k)
  BY DEF Before, Start
<1>2. \A k \in DOMAIN lines : IsLine(file, lines[k], Before(k))
  BY <1>1 DEF ParseInv, AreLines
<1>3. pc = "done" => Before(Len(lines) + 1) = Len(file)
  BY <1>1 DEF ParseInv, BufferInv
<1> QED
  BY <1>2, <1>3 DEF NoByteLost, IsLine

------------------------------------------------------------------------------
\* Files whose lines are short.

NewlinesUpTo(f, n) == Cardinality(Newlines(SubSeq(f, 1, n)))

\* Between two chunks as many lines have been yielded as newlines were passed.
ShortInv ==
  /\ LinesAreTheFiles
  /\ Short(file) /\ pc # "done" => NewlinesUpTo(file, byteOffset) = lineNumber

LEMMA NewlinesOfPrefix ==
  ASSUME NEW f \in Files, NEW n \in Nat, n <= Len(f)
  PROVE  /\ Newlines(SubSeq(f, 1, n)) = {m \in 1 .. n : f[m] = NL}
         /\ IsFiniteSet({m \in 1 .. n : f[m] = NL})
<1>1. f \in Seq(Bytes(f)) /\ Len(f) \in Nat
  BY FilesAreSequences
<1>2. /\ SubSeq(f, 0 + 1, n) \in Seq(Bytes(f))
      /\ Len(SubSeq(f, 0 + 1, n)) = n - 0
      /\ \A k \in 1 .. n - 0 : SubSeq(f, 0 + 1, n)[k] = f[0 + k]
  BY <1>1, Piece
<1>3. DOMAIN SubSeq(f, 1, n) = 1 .. n /\ \A k \in 1 .. n : SubSeq(f, 1, n)[k] = f[k]
  BY <1>2, LenProperties
<1>4. IsFiniteSet(1 .. n)
  BY FS_Interval
<1>5. IsFiniteSet({m \in 1 .. n : f[m] = NL})
  BY <1>4, FS_Subset
<1> QED
  BY <1>3, <1>5 DEF Newlines

LEMMA NoNewlineAtFirst == ASSUME NEW f \in Files PROVE NewlinesUpTo(f, 0) = 0
<1>1. SubSeq(f, 1, 0) = <<>>
  BY SubSeqEmpty
<1> QED
  BY <1>1, NothingInIt, FS_EmptySet DEF NewlinesUpTo

LEMMA NextNewline ==
  ASSUME NEW f \in Files, NEW a \in Nat, NEW b \in Nat, a < b, b <= Len(f),
         f[b] = NL, \A m \in a + 1 .. b - 1 : f[m] # NL
  PROVE  NewlinesUpTo(f, b) = NewlinesUpTo(f, a) + 1
<1> DEFINE old == {m \in 1 .. a : f[m] = NL}
           all == {m \in 1 .. b : f[m] = NL}
<1>1. /\ IsFiniteSet(old) /\ Newlines(SubSeq(f, 1, a)) = old
      /\ Newlines(SubSeq(f, 1, b)) = all
  <2>1. Len(f) \in Nat /\ a <= Len(f)
    BY FilesAreSequences
  <2> QED
    BY <2>1, NewlinesOfPrefix
<1>2. all = old \cup {b} /\ b \notin old
  <2>1. \A m \in 1 .. b : m \in 1 .. a \/ m \in a + 1 .. b - 1 \/ m = b
    OBVIOUS
  <2> QED
    BY <2>1
<1> HIDE DEF old, all
<1> QED
  BY <1>1, <1>2, FS_AddElement DEF NewlinesUpTo

\* While bytes of the file are left, every line ended with a newline.
LEMMA LinesSoFar ==
  ASSUME ParseInv, ShortInv, Short(file), byteOffset < Len(file), NEW k \in DOMAIN lines
  PROVE  /\ file[lines[k].byteOffsetAfter] = NL
         /\ NewlinesUpTo(file, lines[k].byteOffsetAfter) = k
         /\ ~lines[k].oversized
<1>1. lines \in Seq(Line(file)) /\ Len(lines) \in Nat /\ DOMAIN lines = 1 .. Len(lines)
  BY DEF ParseInv, AreLines
<1>2. CASE lines[k].byteOffsetAfter = Len(file) /\ k = Len(lines)
  <2>1. Start(lines, Len(lines) + 1) = lines[k].byteOffsetAfter
    BY <1>1, <1>2 DEF Start
  <2>2. byteOffset \in Nat /\ byteOffset = Len(file)
    BY <1>2, <2>1 DEF ParseInv, TypeOK
  <2> QED
    BY <2>2
<1> QED
  BY <1>2 DEF ShortInv, LinesAreTheFiles, NewlinesUpTo

LEMMA ShortInit == Init => ShortInv
BY NoNewlineAtFirst DEF Init, ShortInv, LinesAreTheFiles

LEMMA ShortYieldLine == ParseInv /\ ShortInv /\ YieldLine => ShortInv'
<1> SUFFICES ASSUME ParseInv, ShortInv, YieldLine, Short(file) PROVE ShortInv'
  BY DEF ShortInv, LinesAreTheFiles, YieldLine
<1> DEFINE o == byteOffset
           n == FirstNewline(buffer)
           len == Len(lines)
<1>1. /\ file \in Files /\ file \in Seq(Bytes(file)) /\ Len(file) \in Nat
      /\ read \in 0 .. Len(file) /\ o \in 0 .. Len(file) /\ o <= read
      /\ buffer = SubSeq(file, o + 1, read)
      /\ lines \in Seq(Line(file)) /\ len \in Nat /\ DOMAIN lines = 1 .. len
      /\ lineNumber = len
  BY FilesAreSequences DEF ParseInv, TypeOK, BufferInv, YieldLine, AreLines
<1>2. /\ buffer \in Seq(Bytes(file)) /\ Len(buffer) = read - o
      /\ \A k \in 1 .. read - o : buffer[k] = file[o + k]
  BY <1>1, Piece
<1>3. /\ n \in 1 .. Len(buffer) /\ buffer[n] = NL
      /\ \A m \in 1 .. n - 1 : buffer[m] # NL
  BY <1>2, NewlineFound DEF YieldLine
<1>4. PICK l : /\ lines' = Append(lines, l) /\ l.byteOffsetAfter = o + n
               /\ l.oversized = FALSE /\ l.lineNumber = len + 1
  BY <1>1 DEF YieldLine, Yield
<1>5. byteOffset' = o + n /\ lineNumber' = len + 1 /\ file' = file
  BY <1>1 DEF YieldLine, Yield
<1> HIDE DEF n
<1>6. PICK e \in Nat : e = o + n /\ o < e /\ e <= read /\ e <= Len(file)
  BY <1>1, <1>2, <1>3
<1>7. file[e] = NL /\ \A m \in o + 1 .. e - 1 : file[m] # NL
  <2>1. file[e] = NL
    BY <1>1, <1>2, <1>3, <1>6
  <2>2. ASSUME NEW m \in o + 1 .. e - 1 PROVE file[m] # NL
    <3>1. m - o \in 1 .. n - 1 /\ m - o \in 1 .. read - o /\ o + (m - o) = m
      BY <1>1, <1>2, <1>3, <1>6
    <3> QED
      BY <1>2, <1>3, <3>1
  <2> QED
    BY <2>1, <2>2
<1>8. NewlinesUpTo(file, e) = len + 1
  <2>1. NewlinesUpTo(file, o) = len
    BY <1>1 DEF ShortInv, YieldLine
  <2>2. PICK a \in Nat : a = o
    BY <1>1
  <2> HIDE DEF o
  <2>3. a < e /\ \A m \in a + 1 .. e - 1 : file[m] # NL
    BY <1>6, <1>7, <2>2
  <2>4. NewlinesUpTo(file, e) = NewlinesUpTo(file, a) + 1
    BY <1>1, <1>6, <1>7, <2>3, NextNewline
  <2> QED
    BY <2>1, <2>2, <2>4
<1>9. /\ DOMAIN lines' = 1 .. len + 1 /\ lines'[len + 1] = l /\ Len(lines') = len + 1
      /\ \A k \in 1 .. len : lines'[k] = lines[k]
  BY <1>1, <1>4
<1>10. ASSUME NEW k \in DOMAIN lines'
       PROVE  /\ lines'[k].lineNumber = k
              /\ file[lines'[k].byteOffsetAfter] = NL
              /\ NewlinesUpTo(file, lines'[k].byteOffsetAfter) = k
              /\ ~lines'[k].oversized
  <2>1. CASE k = len + 1
    BY <1>4, <1>6, <1>7, <1>8, <1>9, <2>1
  <2>2. CASE k \in DOMAIN lines
    <3>1. o < Len(file)
      BY <1>1, <1>6
    <3>2. lines[k].lineNumber = k
      BY <2>2 DEF ParseInv, AreLines
    <3> QED
      BY <1>1, <1>9, <2>2, <3>1, <3>2, LinesSoFar
  <2> QED
    BY <1>1, <1>9, <2>1, <2>2
<1> QED
  BY <1>5, <1>6, <1>8, <1>10 DEF ShortInv, LinesAreTheFiles, NewlinesUpTo

\* No line of such a file is cut.
LEMMA ShortIsNotCut ==
  ASSUME ParseInv, Short(file), pc = "scan", Newlines(buffer) = {}
  PROVE  Len(buffer) <= MaxLineBytes
<1>1. /\ file \in Seq(Bytes(file)) /\ Len(file) \in Nat /\ DOMAIN file = 1 .. Len(file)
      /\ read \in 0 .. Len(file) /\ byteOffset \in 0 .. Len(file) /\ byteOffset <= read
      /\ buffer = SubSeq(file, byteOffset + 1, read)
      /\ MaxLineBytes \in Nat
  BY FilesAreSequences, FilesAssumption DEF ParseInv, TypeOK, BufferInv
<1>2. Len(buffer) = read - byteOffset
  BY <1>1, Piece
<1>3. CASE read = byteOffset
  BY <1>1, <1>2, <1>3
<1>4. CASE read # byteOffset
  <2>1. byteOffset + 1 \in DOMAIN file /\ read \in DOMAIN file /\ byteOffset + 1 <= read
    BY <1>1, <1>4
  <2>2. read - (byteOffset + 1) < MaxLineBytes
    BY <1>1, <2>1 DEF Short
  <2> QED
    BY <1>1, <1>2, <2>2
<1> QED
  BY <1>3, <1>4

LEMMA ShortEndOfStream == ParseInv /\ ShortInv /\ EndOfStream => ShortInv'
<1> SUFFICES ASSUME ParseInv, ShortInv, EndOfStream, Short(file) PROVE ShortInv'
  BY DEF ShortInv, LinesAreTheFiles, EndOfStream
<1> DEFINE o == byteOffset
           n == Len(buffer)
           len == Len(lines)
<1>1. /\ file \in Files /\ file \in Seq(Bytes(file)) /\ Len(file) \in Nat
      /\ read = Len(file) /\ o \in 0 .. Len(file) /\ o <= read
      /\ buffer = SubSeq(file, o + 1, read) /\ n <= MaxLineBytes
      /\ lines \in Seq(Line(file)) /\ len \in Nat /\ DOMAIN lines = 1 .. len
      /\ lineNumber = len /\ MaxLineBytes \in Nat
  BY FilesAreSequences, FilesAssumption
     DEF ParseInv, TypeOK, BufferInv, EndOfStream, AreLines
<1>2. buffer \in Seq(Bytes(file)) /\ n = read - o
  BY <1>1, Piece
<1>3. file' = file /\ pc' = "done"
  BY DEF EndOfStream
<1>4. CASE buffer = <<>>
  BY <1>3, <1>4 DEF ShortInv, LinesAreTheFiles, EndOfStream, YieldRest
<1>5. CASE buffer # <<>>
  <2>1. o < Len(file) /\ o + n = Len(file)
    <3>1. n # 0
      BY <1>2, <1>5, EmptySeq
    <3> HIDE DEF n
    <3> QED
      BY <1>1, <1>2, <3>1
  <2>2. (n > MaxLineBytes) = FALSE
    BY <1>1, <1>2
  <2>3. Yield(StripTrailingCr(buffer), n, FALSE)
    BY <1>5, <2>2 DEF EndOfStream, YieldRest
  <2>4. PICK l : /\ lines' = Append(lines, l) /\ l.byteOffsetAfter = o + n
                 /\ l.oversized = FALSE /\ l.lineNumber = len + 1
    BY <1>1, <2>3, SMTT(30) DEF Yield
  <2> HIDE DEF n
  <2>5. /\ DOMAIN lines' = 1 .. len + 1 /\ lines'[len + 1] = l /\ Len(lines') = len + 1
        /\ \A k \in 1 .. len : lines'[k] = lines[k]
    BY <1>1, <2>4
  <2>6. ASSUME NEW k \in DOMAIN lines'
        PROVE  /\ lines'[k].lineNumber = k
               /\ \/ /\ file[lines'[k].byteOffsetAfter] = NL
                     /\ NewlinesUpTo(file, lines'[k].byteOffsetAfter) = k
                  \/ lines'[k].byteOffsetAfter = Len(file) /\ k = Len(lines')
               /\ ~lines'[k].oversized
    <3>1. CASE k = len + 1
      BY <2>1, <2>4, <2>5, <3>1
    <3>2. CASE k \in DOMAIN lines
      <4>1. lines[k].lineNumber = k
        BY <3>2 DEF ParseInv, AreLines
      <4> QED
        BY <1>1, <2>1, <2>5, <3>2, <4>1, LinesSoFar
    <3> QED
      BY <1>1, <2>5, <3>1, <3>2
  <2> QED
    BY <1>3, <2>6 DEF ShortInv, LinesAreTheFiles, NewlinesUpTo
<1> QED
  BY <1>4, <1>5

LEMMA ShortResume ==
  ASSUME ParseInv, ShortInv, NEW k \in 0 .. Len(lines), ResumeAt(k), file' = file,
         byteOffset' > 0 => byteOffset' < Len(file)
  PROVE  ShortInv'
<1> SUFFICES ASSUME Short(file) PROVE ShortInv'
  BY DEF ShortInv, LinesAreTheFiles
<1>1. /\ file \in Files /\ Len(file) \in Nat /\ AreLines(file, lines)
      /\ Len(lines) \in Nat /\ DOMAIN lines = 1 .. Len(lines) /\ k \in Nat
  BY FilesAreSequences DEF ParseInv, TypeOK, AreLines
<1>2. /\ lines' = SubSeq(lines, 1, k) /\ AreLines(file, lines') /\ Len(lines') = k
      /\ lineNumber' = k
      /\ byteOffset' = IF k = 0 THEN 0 ELSE lines[k].byteOffsetAfter
      /\ \A j \in 1 .. k : j \in DOMAIN lines /\ lines'[j] = lines[j]
  <2> DEFINE few == SubSeq(lines, 1, k)
  <2>1. /\ AreLines(file, few) /\ Len(few) = k
        /\ \A j \in 1 .. k : j \in DOMAIN lines /\ few[j] = lines[j]
        /\ k # 0 => lines[k].lineNumber = k
    BY <1>1, FewerLines
  <2>2. /\ lines' = few
        /\ byteOffset' = IF k = 0 THEN 0 ELSE lines[k].byteOffsetAfter
        /\ lineNumber' = IF k = 0 THEN 0 ELSE lines[k].lineNumber
    BY DEF ResumeAt
  <2>3. lineNumber' = k
    BY <2>1, <2>2
  <2> HIDE DEF few
  <2>4. /\ AreLines(file, lines') /\ Len(lines') = k
        /\ \A j \in 1 .. k : j \in DOMAIN lines /\ lines'[j] = lines[j]
    BY <2>1, <2>2
  <2> QED
    BY <2>2, <2>3, <2>4 DEF few
<1>3. DOMAIN lines' = 1 .. k
  BY <1>2 DEF AreLines
<1>4. ASSUME NEW j \in 1 .. k
      PROVE  /\ lines[j].lineNumber = j
             /\ file[lines[j].byteOffsetAfter] = NL
             /\ NewlinesUpTo(file, lines[j].byteOffsetAfter) = j
             /\ ~lines[j].oversized
  <2>1. ~ (lines[j].byteOffsetAfter = Len(file) /\ j = Len(lines))
    <3> SUFFICES ASSUME lines[j].byteOffsetAfter = Len(file), j = Len(lines) PROVE FALSE
      OBVIOUS
    <3>1. j = k /\ byteOffset' = Len(file)
      BY <1>1, <1>2
    <3>2. lines[j] \in Line(file)
      BY <1>1, <1>2 DEF AreLines
    <3>3. Len(file) > 0
      BY <1>1, <3>2 DEF Line
    <3> QED
      BY <1>1, <3>1, <3>3
  <2>2. j \in DOMAIN lines
    BY <1>2
  <2> QED
    BY <2>1, <2>2 DEF ShortInv, LinesAreTheFiles, NewlinesUpTo
<1>5. LinesAreTheFiles'
  BY <1>2, <1>3, <1>4 DEF LinesAreTheFiles, NewlinesUpTo
<1>6. NewlinesUpTo(file, byteOffset') = k
  <2>1. CASE k = 0
    BY <1>1, <1>2, <2>1, NoNewlineAtFirst
  <2>2. CASE k # 0
    <3>1. k \in 1 .. k
      BY <1>1, <2>2
    <3> QED
      BY <1>2, <1>4, <2>2, <3>1
  <2> QED
    BY <2>1, <2>2
<1> QED
  BY <1>2, <1>5, <1>6 DEF ShortInv

LEMMA ShortStep == ParseInv /\ ShortInv /\ [Next]_vars => ShortInv'
<1> SUFFICES ASSUME ParseInv, ShortInv, [Next]_vars PROVE ShortInv'
  OBVIOUS
<1>1. CASE ReadChunk \/ AwaitMore \/ UNCHANGED vars
  <2>1. /\ file' = file /\ lines' = lines /\ byteOffset' = byteOffset
        /\ lineNumber' = lineNumber /\ (pc' # "done" => pc # "done")
    BY <1>1 DEF ReadChunk, AwaitMore, vars
  <2> QED
    BY <2>1 DEF ShortInv, LinesAreTheFiles
<1>2. CASE YieldOversized
  <2>1. MaxLineBytes \in Nat /\ ~Short(file)
    <3>1. Len(buffer) \in Nat
      <4>1. buffer \in Seq(Bytes(file))
        <5>1. /\ file \in Seq(Bytes(file)) /\ read \in 0 .. Len(file) /\ Len(file) \in Nat
              /\ byteOffset \in 0 .. Len(file) /\ byteOffset <= read
              /\ buffer = SubSeq(file, byteOffset + 1, read)
          BY <1>2, FilesAreSequences DEF ParseInv, TypeOK, BufferInv, YieldOversized
        <5> QED
          BY <5>1, Piece
      <4> QED
        BY <4>1
    <3>2. MaxLineBytes \in Nat
      BY FilesAssumption
    <3> QED
      BY <1>2, <3>1, <3>2, ShortIsNotCut DEF YieldOversized
  <2> QED
    BY <1>2, <2>1 DEF ShortInv, LinesAreTheFiles, YieldOversized
<1>3. CASE Resume
  <2>1. PICK k \in 0 .. Len(lines) : ResumeAt(k)
    BY <1>3 DEF Resume
  <2>2. file' = file /\ (byteOffset' > 0 => byteOffset' < Len(file))
    BY <1>3 DEF Resume
  <2> QED
    BY <2>1, <2>2, ShortResume
<1> QED
  BY <1>1, <1>2, <1>3, ShortYieldLine, ShortEndOfStream DEF Next

------------------------------------------------------------------------------
\* What the parser promises, for its every file, chunking and restart.

\* The lines that parseNdjsonLines (ndjsonLines.ts) yields partition the file:
\* no byte is lost or parsed twice, and each line is cut where it must be.
THEOREM EveryByteIsInOneLine == Spec => []NoByteLost
BY ParseIsInductive, LinesAreWhole, PTL

\* A file of short lines parses into its lines, under their own numbers, and
\* nothing else: a restart does not shift lineNumber.
THEOREM ShortLinesAreKept == Spec => []LinesAreTheFiles
<1>1. ShortInv => LinesAreTheFiles
  BY DEF ShortInv
<1> QED
  BY ParseInit, ParseStep, ShortInit, ShortStep, <1>1, PTL DEF Spec

\* The parser's state keeps its types; byteOffset and lineNumber stay inside the
\* file.
THEOREM ParserTyped == Spec => []TypeOK
<1>1. ParseInv => TypeOK
  BY DEF ParseInv
<1> QED
  BY ParseIsInductive, <1>1, PTL

------------------------------------------------------------------------------
\* The text of a line holds no newline.

TextsAreClean == \A k \in DOMAIN lines : Newlines(lines[k].raw) = {}

LEMMA CleanPiece ==
  ASSUME NEW S, NEW buf \in Seq(S), NEW b \in Nat, b <= Len(buf),
         \A m \in 1 .. b : buf[m] # NL
  PROVE  /\ Newlines(SubSeq(buf, 1, b)) = {}
         /\ Newlines(StripTrailingCr(SubSeq(buf, 1, b))) = {}
<1> DEFINE all == SubSeq(buf, 1, b)
<1>1. /\ all \in Seq(S) /\ Len(all) = b
      /\ \A k \in 1 .. b : all[k] = buf[k]
  <2>1. 0 \in Nat /\ 0 <= b
    OBVIOUS
  <2>2. /\ SubSeq(buf, 0 + 1, b) \in Seq(S) /\ Len(SubSeq(buf, 0 + 1, b)) = b - 0
        /\ \A k \in 1 .. b - 0 : SubSeq(buf, 0 + 1, b)[k] = buf[0 + k]
    BY <2>1, Piece
  <2> QED
    BY <2>2
<1>2. DOMAIN all = 1 .. b
  <2> HIDE DEF all
  <2> QED
    BY <1>1, LenProperties
<1>3. Newlines(all) = {}
  BY <1>1, <1>2 DEF Newlines
<1>4. CASE b = 0
  <2>1. StripTrailingCr(all) = all
    <3> HIDE DEF all
    <3> QED
      BY <1>1, <1>4, EmptySeq DEF StripTrailingCr
  <2> QED
    BY <1>3, <2>1
<1>5. CASE b # 0
  <2> DEFINE rest == SubSeq(all, 1, b - 1)
  <2> HIDE DEF all
  <2>1. b - 1 \in Nat /\ b - 1 <= Len(all) /\ 0 \in Nat /\ 0 <= b - 1
    BY <1>1, <1>5
  <2>2. /\ SubSeq(all, 0 + 1, b - 1) \in Seq(S) /\ Len(SubSeq(all, 0 + 1, b - 1)) = b - 1 - 0
        /\ \A k \in 1 .. b - 1 - 0 : SubSeq(all, 0 + 1, b - 1)[k] = all[0 + k]
    BY <1>1, <2>1, Piece
  <2>3. rest \in Seq(S) /\ Len(rest) = b - 1 /\ \A k \in 1 .. b - 1 : rest[k] = all[k]
    BY <2>2
  <2> HIDE DEF rest
  <2>4. DOMAIN rest = 1 .. b - 1
    BY <2>3, LenProperties
  <2>5. Newlines(rest) = {}
    BY <1>2, <1>3, <2>3, <2>4 DEF Newlines
  <2>6. StripTrailingCr(all) \in {all, rest}
    BY <1>1 DEF StripTrailingCr, rest
  <2> QED
    BY <1>3, <2>5, <2>6 DEF all
<1> QED
  BY <1>4, <1>5

LEMMA CleanYield ==
  ASSUME ParseInv, TextsAreClean, NEW raw, NEW n, NEW o, Yield(raw, n, o), Newlines(raw) = {}
  PROVE  TextsAreClean'
<1>1. PICK l : lines' = Append(lines, l) /\ l.raw = raw
  BY DEF Yield
<1> DEFINE T == Line(file) \cup {l}
<1>2. lines \in Seq(Line(file)) /\ Line(file) \subseteq T /\ l \in T
  BY DEF ParseInv, AreLines
<1> HIDE DEF T
<1>3. lines \in Seq(T)
  BY <1>2, SeqMonotonic
<1>4. /\ lines' \in Seq(T) /\ Len(lines') = Len(lines) + 1
      /\ \A k \in 1 .. Len(lines) : lines'[k] = lines[k]
      /\ lines'[Len(lines) + 1] = l
  BY <1>1, <1>2, <1>3, AppendProperties
<1>5. /\ Len(lines) \in Nat /\ DOMAIN lines = 1 .. Len(lines)
      /\ DOMAIN lines' = 1 .. Len(lines')
  BY <1>3, <1>4, LenProperties
<1>6. \A k \in DOMAIN lines' : k \in DOMAIN lines \/ k = Len(lines) + 1
  BY <1>4, <1>5
<1>7. \A k \in DOMAIN lines' : Newlines(lines'[k].raw) = {}
  BY <1>1, <1>4, <1>5, <1>6 DEF TextsAreClean
<1> QED
  BY <1>7 DEF TextsAreClean

LEMMA CleanStep == ParseInv /\ TextsAreClean /\ [Next]_vars => TextsAreClean'
<1> SUFFICES ASSUME ParseInv, TextsAreClean, [Next]_vars PROVE TextsAreClean'
  OBVIOUS
<1>1. /\ file \in Seq(Bytes(file)) /\ Len(file) \in Nat
      /\ read \in 0 .. Len(file) /\ byteOffset \in 0 .. Len(file) /\ byteOffset <= read
      /\ MaxLineBytes \in Nat
  BY FilesAreSequences, FilesAssumption DEF ParseInv, TypeOK
<1>2. ASSUME pc # "done"
      PROVE  /\ buffer \in Seq(Bytes(file)) /\ Len(buffer) \in Nat
             /\ DOMAIN buffer = 1 .. Len(buffer)
  <2>1. buffer = SubSeq(file, byteOffset + 1, read)
    BY <1>2 DEF ParseInv, BufferInv
  <2>2. buffer \in Seq(Bytes(file))
    BY <1>1, <2>1, Piece
  <2> QED
    BY <2>2, LenProperties
<1>3. CASE UNCHANGED lines
  BY <1>3 DEF TextsAreClean
<1>4. CASE YieldLine
  <2> DEFINE n == FirstNewline(buffer)
  <2>1. Newlines(buffer) # {} /\ pc # "done"
    BY <1>4 DEF YieldLine
  <2>2. n \in 1 .. Len(buffer) /\ \A m \in 1 .. n - 1 : buffer[m] # NL
    BY <1>2, <2>1, NewlineFound
  <2>3. Yield(StripTrailingCr(SubSeq(buffer, 1, n - 1)), n, FALSE)
    BY <1>4 DEF YieldLine
  <2> HIDE DEF n
  <2>4. n - 1 \in Nat /\ n - 1 <= Len(buffer)
    BY <1>2, <2>1, <2>2
  <2>5. Newlines(StripTrailingCr(SubSeq(buffer, 1, n - 1))) = {}
    BY <1>2, <2>1, <2>2, <2>4, CleanPiece
  <2> QED
    BY <2>3, <2>5, CleanYield
<1>5. CASE YieldOversized
  <2>1. /\ Newlines(buffer) = {} /\ pc # "done" /\ Len(buffer) > MaxLineBytes
        /\ Yield(SubSeq(buffer, 1, MaxLineBytes), Len(buffer), TRUE)
    BY <1>5 DEF YieldOversized
  <2>2. /\ MaxLineBytes <= Len(buffer) /\ \A m \in 1 .. MaxLineBytes : buffer[m] # NL
    BY <1>1, <1>2, <2>1 DEF Newlines
  <2>3. Newlines(SubSeq(buffer, 1, MaxLineBytes)) = {}
    BY <1>1, <1>2, <2>1, <2>2, CleanPiece
  <2> QED
    BY <2>1, <2>3, CleanYield
<1>6. CASE EndOfStream /\ buffer # <<>>
  <2>1. /\ Newlines(buffer) = {} /\ pc # "done"
        /\ Yield(StripTrailingCr(buffer), Len(buffer), Len(buffer) > MaxLineBytes)
    BY <1>6 DEF EndOfStream, YieldRest, ParseInv, BufferInv
  <2>2. \A m \in 1 .. Len(buffer) : buffer[m] # NL
    BY <1>2, <2>1 DEF Newlines
  <2>3. SubSeq(buffer, 1, Len(buffer)) = buffer
    BY <1>2, <2>1, SubSeqFull
  <2>4. buffer \in Seq(Bytes(file)) /\ Len(buffer) \in Nat /\ Len(buffer) <= Len(buffer)
    BY <1>2, <2>1
  <2>5. Newlines(StripTrailingCr(SubSeq(buffer, 1, Len(buffer)))) = {}
    BY <2>2, <2>4, CleanPiece
  <2>6. Newlines(StripTrailingCr(buffer)) = {}
    BY <2>3, <2>5
  <2> QED
    BY <2>1, <2>6, CleanYield
<1>7. CASE Resume
  <2>1. PICK k \in 0 .. Len(lines) : lines' = SubSeq(lines, 1, k)
    BY <1>7 DEF Resume, ResumeAt
  <2>2. file \in Files /\ AreLines(file, lines)
    BY DEF ParseInv, TypeOK
  <2>3. /\ AreLines(file, lines') /\ Len(lines') = k
        /\ \A j \in 1 .. k : j \in DOMAIN lines /\ lines'[j] = lines[j]
    BY <2>1, <2>2, FewerLines
  <2>4. DOMAIN lines' = 1 .. k
    BY <2>3, LenProperties DEF AreLines
  <2> QED
    BY <2>3, <2>4 DEF TextsAreClean
<1> QED
  BY <1>3, <1>4, <1>5, <1>6, <1>7
     DEF Next, ReadChunk, AwaitMore, EndOfStream, YieldRest, vars

LEMMA CleanInit == Init => TextsAreClean
BY NothingInIt DEF Init, TextsAreClean
==============================================================================
