---------------------------- MODULE StreamDigest ----------------------------
(***************************************************************************)
(* A file's digest folds CRLF to LF when the file is text, so two          *)
(* checkouts of one source agree.  A small file is hashed from the bytes   *)
(* held (_file_digest); a large one as its chunks stream past              *)
(* (_FoldingDigest, _ArtifactDigest, _GitTextStats), and both must agree   *)
(* at every size.  A hash is the sequence of bytes hashed.                 *)
(***************************************************************************)
EXTENDS Naturals, Sequences, SequencesExt

CONSTANTS
  MaxLen,   \* bound on a file's length
  MaxChunk, \* bound on a chunk's length
  Ratio     \* printable bytes git wants for each control byte (128)

Bytes == {"cr", "lf", "nul", "control", "letter"}
Chunks == UNION {[1..n -> Bytes] : n \in 1..MaxChunk}

VARIABLES
  file,    \* the bytes read so far
  digest,  \* a _FoldingDigest: raw, folded, nul, cr
  stats    \* a _GitTextStats

streamVars == <<file, digest, stats>>

(* bytes.replace(b"\r\n", b"\n") *)
Folded(s) ==
  LET F[i \in 0..Len(s)] ==
        IF i = 0 THEN <<>>
        ELSE IF s[i] = "cr" /\ i < Len(s) /\ s[i + 1] = "lf" THEN F[i - 1]
        ELSE Append(F[i - 1], s[i])
  IN  F[Len(s)]

Holds(s, b) == \E i \in DOMAIN s : s[i] = b

\* How many bytes of s are among B.
Times(s, B) ==
  LET T[i \in 0..Len(s)] == IF i = 0 THEN 0 ELSE T[i - 1] + (IF s[i] \in B THEN 1 ELSE 0)
  IN  T[Len(s)]

-----------------------------------------------------------------------------
(* From the bytes held. *)

FileDigest(s, text) == IF text /\ ~Holds(s, "nul") THEN Folded(s) ELSE s

CrLfs(s) == Len(s) - Len(Folded(s))

(* Fault in GitText: a CR before its LF is taken for a lone one. *)
NoCrText(s) == ~Holds(s, "nul") /\ ~Holds(s, "cr") /\ Times(s, {"letter"}) \div Ratio >= Times(s, {"nul", "control"})

GitText(s) == /\ ~Holds(s, "nul")
              /\ Times(s, {"cr"}) = CrLfs(s)
              /\ Times(s, {"letter"}) \div Ratio >= Times(s, {"nul", "control"})

IsTextArtifact(s, source) == ~Holds(s, "nul") /\ (source \/ GitText(s))

HeldArtifact(s, source) == FileDigest(s, IsTextArtifact(s, source))

-----------------------------------------------------------------------------
(* As chunks stream past. *)

NewDigest == [raw |-> <<>>, folded |-> <<>>, nul |-> FALSE, cr |-> FALSE]

(* Fault in Updated: a CR at the end of a chunk is not held for the next. *)
ChunkByChunk(d, chunk) ==
  IF d.nul \/ Holds(chunk, "nul") THEN [d EXCEPT !.raw = @ \o chunk, !.nul = TRUE]
  ELSE [d EXCEPT !.raw = @ \o chunk, !.folded = @ \o Folded(chunk)]

Updated(d, chunk) ==
  LET raw == [d EXCEPT !.raw = @ \o chunk]
      c == (IF d.cr THEN <<"cr">> ELSE <<>>) \o chunk
      cut == Last(c) = "cr"
  IN  IF d.nul \/ Holds(chunk, "nul") THEN [raw EXCEPT !.nul = TRUE]
      ELSE [raw EXCEPT !.folded = @ \o Folded(IF cut THEN Front(c) ELSE c), !.cr = cut]

FoldingHex(d) == IF d.nul THEN d.raw ELSE d.folded \o (IF d.cr THEN <<"cr">> ELSE <<>>)

NewStats == [printable |-> 0, control |-> 0, cr |-> 0, crlf |-> 0, nul |-> FALSE, lastCr |-> FALSE]

(* Fault in StatsUpdated: a LF at the start of a chunk is not joined to the CR    *)
(* at the end of the one before.                                            *)
StatsAlone(s, chunk) ==
  [printable |-> s.printable + Times(chunk, {"letter"}),
   control |-> s.control + Times(chunk, {"nul", "control"}),
   cr |-> s.cr + Times(chunk, {"cr"}),
   crlf |-> s.crlf + CrLfs(chunk),
   nul |-> s.nul \/ Holds(chunk, "nul"),
   lastCr |-> FALSE]

StatsUpdated(s, chunk) ==
  [printable |-> s.printable + Times(chunk, {"letter"}),
   control |-> s.control + Times(chunk, {"nul", "control"}),
   cr |-> s.cr + Times(chunk, {"cr"}),
   crlf |-> s.crlf + CrLfs(chunk) + (IF s.lastCr /\ chunk[1] = "lf" THEN 1 ELSE 0),
   nul |-> s.nul \/ Holds(chunk, "nul"),
   lastCr |-> Last(chunk) = "cr"]

StatsText(s) == ~s.nul /\ s.cr = s.crlf /\ s.printable \div Ratio >= s.control

StreamedArtifact(d, s, source) == IF d.nul \/ ~(source \/ StatsText(s)) THEN d.raw ELSE FoldingHex(d)

-----------------------------------------------------------------------------
StreamInit == file = <<>> /\ digest = NewDigest /\ stats = NewStats

(* One turn of _stream's loop. *)
NextChunk == \E chunk \in Chunks :
  /\ Len(file) + Len(chunk) <= MaxLen
  /\ file' = file \o chunk
  /\ digest' = Updated(digest, chunk)
  /\ stats' = StatsUpdated(stats, chunk)

StreamSpec == StreamInit /\ [][NextChunk]_streamVars

-----------------------------------------------------------------------------
(* A file too large to hold gets the digest it would get held, wherever the *)
(* chunks are cut: between a CR and its LF, at a NUL byte, at the end.      *)
StreamedIsHeld == FoldingHex(digest) = FileDigest(file, TRUE)

(* An artifact is folded when git takes it for text, decided as it streams  *)
(* exactly as it is decided from the bytes held.                            *)
ArtifactIsHeld == \A source \in BOOLEAN : StreamedArtifact(digest, stats, source) = HeldArtifact(file, source)

(* The two checkouts git makes of one text: LF endings, and CRLF endings.    *)
Crlf(s) ==
  LET C[i \in 0..Len(s)] ==
        IF i = 0 THEN <<>>
        ELSE IF s[i] = "lf" THEN Append(Append(C[i - 1], "cr"), "lf")
        ELSE Append(C[i - 1], s[i])
  IN  C[Len(s)]

(* They give one digest.  Git converts only what it takes for text.         *)
CheckoutsAgree ==
  ~Holds(file, "cr") => /\ GitText(Crlf(file)) = GitText(file)
                        /\ ~Holds(file, "nul") => FileDigest(Crlf(file), TRUE) = FileDigest(file, TRUE)
                        /\ GitText(file) => \A source \in BOOLEAN :
                             HeldArtifact(Crlf(file), source) = HeldArtifact(file, source)

(* A file digested as it streams gets the digest it would get held, text or *)
(* not, and both checkouts give one.  (An empty file has nothing to fold.)  *)
DigestsAgree == file # <<>> => StreamedIsHeld /\ ArtifactIsHeld /\ CheckoutsAgree
=============================================================================
