----------------------------- MODULE NdjsonLines -----------------------------
(* parseNdjsonLines: an uploaded file arrives in chunks of any size and leaves *)
(* as lines, each with its number and the byte offset after it.  A worker that *)
(* dies resumes from the line its last committed batch ended with, with a      *)
(* ranged read of the rest of the file, chunked anew.                          *)
(*                                                                             *)
(* Bytes are NL, CR and any others; a line's text is its bytes.                *)
EXTENDS Naturals, Sequences, FiniteSets

CONSTANTS Files,        \* the files that may be parsed
          MaxLineBytes, \* MAX_LINE_BYTES
          MaxResumes    \* bound: restarts of the parser

NL == "nl"
CR == "cr"

ASSUME FilesAssumption == /\ MaxLineBytes \in Nat \ {0}
                          /\ MaxResumes \in Nat
                          /\ \A f \in Files : f \in Seq({f[n] : n \in DOMAIN f})

VARIABLES file,        \* the bytes that the object store holds
          pc,          \* "await" a chunk, "scan" the buffer, or "done"
          read,        \* how many bytes of the file the stream has delivered
          buffer,
          byteOffset,
          lineNumber,
          lines,       \* what has been yielded, from the start of the file
          resumes

vars == <<file, pc, read, buffer, byteOffset, lineNumber, lines, resumes>>

Parts(f) == {SubSeq(f, a, b) : a \in 1 .. Len(f) + 1, b \in 0 .. Len(f)}
Line(f) == [lineNumber : 1 .. Len(f), raw : Parts(f), byteOffsetAfter : 1 .. Len(f),
            oversized : BOOLEAN]

TypeOK == /\ file \in Files
          /\ pc \in {"await", "scan", "done"}
          /\ read \in 0 .. Len(file)
          /\ buffer \in Parts(file)
          /\ byteOffset \in 0 .. Len(file)
          /\ lineNumber \in 0 .. Len(file)
          /\ \A k \in DOMAIN lines : lines[k] \in Line(file)
          /\ resumes \in 0 .. MaxResumes

Init == /\ file \in Files
        /\ pc = "await"
        /\ read = 0 /\ buffer = <<>>
        /\ byteOffset = 0 /\ lineNumber = 0
        /\ lines = <<>>
        /\ resumes = 0

------------------------------------------------------------------------------
\* Helpers.

Newlines(buf) == {n \in DOMAIN buf : buf[n] = NL}
FirstNewline(buf) == CHOOSE n \in Newlines(buf) : \A m \in Newlines(buf) : n <= m

StripTrailingCr(buf) ==
  IF buf # <<>> /\ buf[Len(buf)] = CR THEN SubSeq(buf, 1, Len(buf) - 1) ELSE buf

\* A line of n bytes, its newline included.
\* Mutant: the newline is not counted.
YieldUncounted(raw, n, oversized) ==
  /\ lineNumber' = lineNumber + 1
  /\ byteOffset' = byteOffset + (IF n > 1 THEN n - 1 ELSE n)
  /\ lines' = Append(lines, [lineNumber |-> lineNumber', raw |-> raw,
                             byteOffsetAfter |-> byteOffset', oversized |-> oversized])
Yield(raw, n, oversized) ==
  /\ lineNumber' = lineNumber + 1
  /\ byteOffset' = byteOffset + n
  /\ lines' = Append(lines, [lineNumber |-> lineNumber', raw |-> raw,
                             byteOffsetAfter |-> byteOffset', oversized |-> oversized])

------------------------------------------------------------------------------
\* The generator.

ReadChunk == /\ pc = "await"
             /\ \E n \in read + 1 .. Len(file) :
                  /\ buffer' = buffer \o SubSeq(file, read + 1, n)
                  /\ read' = n
             /\ pc' = "scan"
             /\ UNCHANGED <<file, byteOffset, lineNumber, lines, resumes>>

YieldLine == /\ pc = "scan"
             /\ Newlines(buffer) # {}
             /\ LET n == FirstNewline(buffer)
                IN /\ Yield(StripTrailingCr(SubSeq(buffer, 1, n - 1)), n, FALSE)
                   /\ buffer' = SubSeq(buffer, n + 1, Len(buffer))
             /\ UNCHANGED <<file, pc, read, resumes>>

\* No newline in more than MaxLineBytes: what is there is yielded, cut, and the
\* rest of the line will be taken for another line.
YieldOversized == /\ pc = "scan"
                  /\ Newlines(buffer) = {}
                  /\ Len(buffer) > MaxLineBytes
                  /\ Yield(SubSeq(buffer, 1, MaxLineBytes), Len(buffer), TRUE)
                  /\ buffer' = <<>>
                  /\ pc' = "await"
                  /\ UNCHANGED <<file, read, resumes>>

AwaitMore == /\ pc = "scan"
             /\ Newlines(buffer) = {}
             /\ Len(buffer) <= MaxLineBytes
             /\ pc' = "await"
             /\ UNCHANGED <<file, read, buffer, byteOffset, lineNumber, lines, resumes>>

\* The stream ends; what is left is a line without a newline.
\* Mutant: it is forgotten.
ForgetRest == UNCHANGED <<byteOffset, lineNumber, lines>>
YieldRest == IF buffer = <<>>
             THEN UNCHANGED <<byteOffset, lineNumber, lines>>
             ELSE Yield(StripTrailingCr(buffer), Len(buffer), Len(buffer) > MaxLineBytes)

EndOfStream == /\ pc = "await"
               /\ read = Len(file)
               /\ YieldRest
               /\ pc' = "done"
               /\ UNCHANGED <<file, read, buffer, resumes>>

\* The worker died after a batch that ended with line k was committed, or
\* before any was: the next invocation starts behind that line.
\* (The store refuses a ranged read that starts at the end of the file.)
\* Mutant: it starts there with the numbers of the lines it had yielded.
ResumeAtRead(k) ==
  /\ lines' = SubSeq(lines, 1, k)
  /\ byteOffset' = IF k = 0 THEN 0 ELSE lines[k].byteOffsetAfter
  /\ lineNumber' = lineNumber
ResumeAt(k) ==
  /\ lines' = SubSeq(lines, 1, k)
  /\ byteOffset' = IF k = 0 THEN 0 ELSE lines[k].byteOffsetAfter
  /\ lineNumber' = IF k = 0 THEN 0 ELSE lines[k].lineNumber

Resume == /\ resumes < MaxResumes
          /\ resumes' = resumes + 1
          /\ \E k \in 0 .. Len(lines) : ResumeAt(k)
          /\ byteOffset' > 0 => byteOffset' < Len(file)
          /\ read' = byteOffset'
          /\ buffer' = <<>>
          /\ pc' = "await"
          /\ UNCHANGED file

Next == ReadChunk \/ YieldLine \/ YieldOversized \/ AwaitMore \/ EndOfStream \/ Resume

Spec == Init /\ [][Next]_vars

------------------------------------------------------------------------------
\* Properties.

Before(k) == IF k = 1 THEN 0 ELSE lines[k - 1].byteOffsetAfter

\* The lines partition the file: each begins where the one before it ended and
\* holds exactly the bytes in between, but for its line ending and for what is
\* cut from an oversized one.  Whatever the chunks and the restarts, no byte is
\* lost or parsed twice, and the parse ends at the end of the file.
NoByteLost ==
  /\ \A k \in DOMAIN lines :
       LET bytes == SubSeq(file, Before(k) + 1, lines[k].byteOffsetAfter)
           body == IF bytes[Len(bytes)] = NL THEN SubSeq(bytes, 1, Len(bytes) - 1) ELSE bytes
       IN /\ Before(k) < lines[k].byteOffsetAfter
          /\ lines[k].raw = IF lines[k].oversized THEN SubSeq(bytes, 1, MaxLineBytes)
                            ELSE StripTrailingCr(body)
          /\ Newlines(body) = {}
  /\ pc = "done" => Before(Len(lines) + 1) = Len(file)

\* The lines of a file in which none is longer than MaxLineBytes, its carriage
\* return counted: the k-th ends with the k-th newline, or with the file.
Short(f) == \A a, b \in DOMAIN f : a <= b /\ Newlines(SubSeq(f, a, b)) = {}
                                     => b - a < MaxLineBytes

\* Such a file parses into its lines, in order, whatever the chunks and the
\* restarts.
LinesAreTheFiles ==
  Short(file) =>
    \A k \in DOMAIN lines :
      LET end == lines[k].byteOffsetAfter
      IN /\ lines[k].lineNumber = k
         /\ \/ file[end] = NL /\ Cardinality(Newlines(SubSeq(file, 1, end))) = k
            \/ end = Len(file) /\ k = Len(lines)
         /\ ~lines[k].oversized
==============================================================================
