----------------------------- MODULE BookIndex ------------------------------
(***************************************************************************)
(* The index of one book of blocks (BookIndex in src/artcb/chain/          *)
(* book_index.py) and the append that feeds it (_public_tip_fields,        *)
(* _append_line_to_book in chain/manager.py).                              *)
(*                                                                         *)
(* The index lives in memory, shared by all threads without a lock, and in *)
(* two files, .off and .off.meta, that _persist rewrites one after the     *)
(* other.  One thread appends; readers call ensure(), which rebuilds the   *)
(* index line by line when the book has another size than it says.  Once   *)
(* two threads change the index at once (two that append would, too) it    *)
(* may say anything of the book, and nothing is stated.                    *)
(*                                                                         *)
(* The book is a sequence of pieces: a block's consensus index, or what a  *)
(* crash left of a line, to which the next line is joined.  An offset is   *)
(* the position of a piece, the size of the file its number of pieces.     *)
(* Graph identifiers, rewards and timestamps of the index are left out.    *)
(***************************************************************************)
EXTENDS Integers, FiniteSets, SequencesExt, Functions

CONSTANTS
    Appender,        \* the thread that appends
    Reader,          \* the threads that only read
    Torn,            \* a piece that is no whole line
    NoMeta,          \* no readable meta file, or none in memory yet
    MaxPieces        \* bound on the length of the book

ASSUME BookAssumption == Appender \notin Reader /\ Torn \notin Nat /\ MaxPieces \in Nat

BookThread == Reader \cup {Appender}

VARIABLES
    file,        \* blocks.jsonl
    offsets,     \* _offsets
    byIndex,     \* _by_consensus: consensus index to line number
    meta,        \* _meta: [size, count, byIndex]
    offFile,     \* blocks.jsonl.off
    metaFile,    \* blocks.jsonl.off.meta
    step,        \* step[t]: where thread t is, what it is there for, the index
                 \* it appends, the piece it is at and the line number it took
    calm         \* what has happened (history): nothing, "whole"; a line was
                 \* torn; or two threads were changing the index, "crossed"

bookVars == <<file, offsets, byIndex, meta, offFile, metaFile, step, calm>>
index    == <<offsets, byIndex, meta>>

AtRest == [at |-> "rest", for |-> "none", next |-> 0, pos |-> 0, line |-> 0]

BookInit ==
    /\ file = << >>
    /\ offsets = << >> /\ byIndex = << >> /\ meta = NoMeta
    /\ offFile = << >> /\ metaFile = NoMeta
    /\ step = [t \in BookThread |-> AtRest]
    /\ calm = "whole"

-----------------------------------------------------------------------------
\* The end of the line that starts at a piece: what a crash left of a line and
\* the line joined to it are one, which cannot be parsed.
LineEnd(pos) ==
    CHOOSE k \in pos .. Len(file) :
        /\ file[k] # Torn \/ k = Len(file)
        /\ \A m \in pos .. k - 1 : file[m] = Torn

Go(t, at) == step' = [step EXCEPT ![t].at = at]

\* ensure() is done: a reader leaves, the appender goes on to read the tip.
Ensured(t) ==
    step' = [step EXCEPT ![t] =
        IF @.for = "append" THEN [AtRest EXCEPT !.at = "tip", !.for = "append"]
        ELSE AtRest]

Booting == step[Appender].for = "boot"

\* Changing the index, from the first step to the last.
Changing(t) == step[t].at \in
    {"note", "load", "reset", "scan", "number", "enter", "off", "meta"}

\* Thread t begins to change the index.
Meets(t) ==
    calm' = IF \E u \in BookThread \ {t} : Changing(u) THEN "crossed" ELSE calm

\* A reader, or the appender, enters ensure().
EnterEnsure(t) ==
    /\ step[t] = AtRest /\ ~Booting
    /\ step' = [step EXCEPT ![t] =
           [AtRest EXCEPT !.at = "ensure", !.for = IF t = Appender THEN "append" ELSE "read"]]
    /\ UNCHANGED <<file, index, offFile, metaFile, calm>>

MemoryFits ==
    offsets # << >> /\ meta # NoMeta /\ meta.size = Len(file) /\ meta.count = Len(offsets)

\* Seeded fault: the size the files were written for is not compared.
FilesFitAnySize ==
    /\ file # << >> /\ metaFile # NoMeta
    /\ metaFile.count = Len(offFile) /\ metaFile.byIndex # << >>

FilesFit ==
    /\ file # << >> /\ metaFile # NoMeta /\ metaFile.size = Len(file)
    /\ metaFile.count = Len(offFile) /\ metaFile.byIndex # << >>

Ensure(t) ==
    /\ step[t].at = "ensure"
    /\ \/ MemoryFits /\ Ensured(t) /\ UNCHANGED calm
       \/ ~MemoryFits /\ Go(t, IF FilesFit THEN "load" ELSE "reset") /\ Meets(t)
    /\ UNCHANGED <<file, index, offFile, metaFile>>

\* The index is what the files say.
Load(t) ==
    /\ step[t].at = "load"
    /\ offsets' = offFile /\ byIndex' = metaFile.byIndex /\ meta' = metaFile
    /\ Ensured(t)
    /\ UNCHANGED <<file, offFile, metaFile, calm>>

\* rebuild empties the index.
Reset(t) ==
    /\ step[t].at = "reset"
    /\ offsets' = << >> /\ byIndex' = << >>
    /\ step' = [step EXCEPT ![t].at = "scan", ![t].pos = 1]
    /\ UNCHANGED <<file, meta, offFile, metaFile, calm>>

\* The offset of the next line is appended, ...
ScanLine(t) ==
    /\ step[t].at = "scan" /\ step[t].pos <= Len(file)
    /\ offsets' = Append(offsets, step[t].pos)
    /\ IF file[step[t].pos] = Torn
       THEN step' = [step EXCEPT ![t].pos = LineEnd(@) + 1]
       ELSE Go(t, "number")
    /\ UNCHANGED <<file, byIndex, meta, offFile, metaFile, calm>>

ScanEnd(t) ==
    /\ step[t].at = "scan" /\ step[t].pos > Len(file)
    /\ Go(t, "off")
    /\ UNCHANGED <<file, index, offFile, metaFile, calm>>

\* Seeded fault: the number of the line after the one just appended.
NextLineNumber(offs) == Len(offs) + 1

LineNumber(offs) == Len(offs)

\* ... its number is what the list is long by then, whoever appended to it, ...
TakeNumber(t) ==
    /\ step[t].at = "number"
    /\ step' = [step EXCEPT ![t].at = "enter", ![t].line = LineNumber(offsets)]
    /\ UNCHANGED <<file, index, offFile, metaFile, calm>>

\* ... and the first line of an index is entered.  rebuild reads on; the line
\* of an append is the only one.
EnterNumber(t) ==
    /\ step[t].at = "enter"
    /\ LET c == file[step[t].pos] IN
       byIndex' = IF c \in DOMAIN byIndex THEN byIndex
                  ELSE [d \in DOMAIN byIndex \cup {c} |->
                            IF d = c THEN step[t].line ELSE byIndex[d]]
    /\ IF step[t].for = "note" THEN Go(t, "off")
       ELSE step' = [step EXCEPT ![t].at = "scan", ![t].pos = step[t].pos + 1]
    /\ UNCHANGED <<file, offsets, meta, offFile, metaFile, calm>>

\* _persist, of the one file and of the other.
WriteOff(t) ==
    /\ step[t].at = "off"
    /\ offFile' = offsets
    /\ Go(t, "meta")
    /\ UNCHANGED <<file, index, metaFile, calm>>

NewMeta == [size |-> Len(file), count |-> Len(offsets), byIndex |-> byIndex]

WriteMeta(t) ==
    /\ step[t].at = "meta"
    /\ meta' = NewMeta /\ metaFile' = NewMeta
    /\ Ensured(t)
    /\ UNCHANGED <<file, offsets, byIndex, offFile, calm>>

-----------------------------------------------------------------------------
\* _public_tip_fields: an unreadable last line is taken to have its line
\* number for an index.
NextIndex ==
    IF offsets = << >> THEN 0
    ELSE IF file[Last(offsets)] = Torn THEN Len(offsets) ELSE file[Last(offsets)] + 1

ReadTip ==
    /\ step[Appender].at = "tip"
    /\ step' = [step EXCEPT ![Appender].at = "write", ![Appender].for = "note",
                            ![Appender].next = NextIndex]
    /\ UNCHANGED <<file, index, offFile, metaFile, calm>>

WriteLine ==
    /\ step[Appender].at = "write" /\ Len(file) < MaxPieces
    /\ file' = Append(file, step[Appender].next)
    /\ step' = [step EXCEPT ![Appender].at = "note", ![Appender].pos = Len(file')]
    /\ Meets(Appender)
    /\ UNCHANGED <<index, offFile, metaFile>>

\* note_appended: the offset is the size of the file less the line's; its
\* number and the entry follow.
NoteAppended ==
    /\ step[Appender].at = "note"
    /\ offsets' = Append(offsets, step[Appender].pos)
    /\ Go(Appender, "number")
    /\ UNCHANGED <<file, byIndex, meta, offFile, metaFile, calm>>

-----------------------------------------------------------------------------
\* The process dies, in the middle of a write or not, and starts again: the
\* constructor calls ensure() before any thread runs.
Die ==
    /\ \/ UNCHANGED <<file, offFile, metaFile>>
       \/ /\ step[Appender].at = "write" /\ Len(file) < MaxPieces
          /\ file' = Append(file, Torn)
          /\ UNCHANGED <<offFile, metaFile>>
       \/ /\ \E t \in BookThread : step[t].at = "off"
          /\ \E n \in 0 .. Len(offsets) : offFile' = SubSeq(offsets, 1, n)
          /\ UNCHANGED <<file, metaFile>>
       \/ /\ \E t \in BookThread : step[t].at = "meta"
          /\ metaFile' = NoMeta
          /\ UNCHANGED <<file, offFile>>
    /\ calm' = IF file' # file /\ calm = "whole" THEN "torn" ELSE calm
    /\ offsets' = << >> /\ byIndex' = << >> /\ meta' = NoMeta
    /\ step' = [t \in BookThread |->
           IF t = Appender THEN [AtRest EXCEPT !.at = "ensure", !.for = "boot"]
           ELSE AtRest]

BookNext ==
    \/ \E t \in BookThread :
          \/ EnterEnsure(t) \/ Ensure(t) \/ Load(t) \/ Reset(t)
          \/ ScanLine(t) \/ ScanEnd(t) \/ TakeNumber(t) \/ EnterNumber(t)
          \/ WriteOff(t) \/ WriteMeta(t)
    \/ ReadTip \/ WriteLine \/ NoteAppended \/ Die

BookSpec == BookInit /\ [][BookNext]_bookVars

-----------------------------------------------------------------------------
Place == [at: {"rest", "ensure", "load", "reset", "scan", "number", "enter", "off", "meta",
               "tip", "write", "note"},
          for: {"none", "boot", "read", "append", "note"},
          next: Nat, pos: Nat, line: Nat]

BookTypeOK ==
    /\ file \in Seq(Nat \cup {Torn}) /\ Len(file) <= MaxPieces
    /\ offsets \in Seq(1 .. Len(file)) /\ offFile \in Seq(1 .. Len(file))
    /\ DOMAIN byIndex \subseteq Nat \cup {Torn}
    /\ \A m \in {meta, metaFile} : m # NoMeta =>
           m.size \in 0 .. Len(file) /\ m.count \in Nat
    /\ step \in [BookThread -> Place]
    /\ calm \in {"whole", "torn", "crossed"}

\* A lookup by consensus index gives a block of that index, whatever lines are
\* torn and joined, wherever the process dies between or in the writes of the
\* line, .off and .off.meta, and although an append reads the tip of an index
\* that a reader is rebuilding, and so may write an index twice, until two
\* threads change the index at once (get_by_consensus_index: "holes/duplicates
\* safe lookups").
LookupRight ==
    calm # "crossed" => \A c \in DOMAIN byIndex :
        byIndex[c] \in DOMAIN offsets /\ file[offsets[byIndex[c]]] = c

\* Between calls, as long as no line was torn either, the index is the one a
\* scan of the file would build: every line of the file, and of each index its
\* first line (ensure, _persist).
IndexExact ==
    calm = "whole" /\ (\A t \in BookThread : step[t] = AtRest) =>
        /\ offsets = [k \in 1 .. Len(file) |-> k]
        /\ DOMAIN byIndex = Range(file)
        /\ \A k \in DOMAIN file : byIndex[file[k]] <= k /\ file[byIndex[file[k]]] = file[k]
=============================================================================
