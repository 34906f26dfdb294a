------------------------------- MODULE Packed -------------------------------
(***************************************************************************)
(* A container packed into one file: offf-core/src/packed.rs.              *)
(*                                                                         *)
(* A file is a sequence of cells with a tag, of which a number, a hash and *)
(* the index take one each; a path is [name, sep, dots]: a name with one   *)
(* of the two separators in it, that may contain "..".  A backslash is a   *)
(* part of the name where the system allows that.  A directory to be       *)
(* packed gives each path its content, or Folder for an empty directory.   *)
(***************************************************************************)
EXTENDS Integers, Sequences, SequencesExt, Functions, TLC

CONSTANT None

HEADER_LEN == 2
FOOTER_LEN == 5

Num(n) == <<"number", n>>

HEADER_MAGIC == Num(101)
VERSION == Num(1)
FOOTER_MAGIC == Num(102)

\* Any cell can be read as a number; what is none is a large one.
Value(cell) == IF cell[1] = "number" THEN cell[2] ELSE 1000

Sha(x) == <<"hash", x>>

\* Backslashes become slashes.
Portable(path) == [path EXCEPT !.sep = "/"]

\* An empty directory.
Folder == <<<<"folder">>>>

\* collect_files_recursive has no use for a directory without files.
FilesIn(files, paths) == SelectSeq(paths, LAMBDA x : files[x] # Folder)

\* The files in the order of their paths, one after the other, an index of
\* them, and a footer that tells where the index is.
pack_directory(files, paths) ==
    LET order == FilesIn(files, paths)
        bytes == FlattenSeq([n \in DOMAIN order |-> files[order[n]]])
        start(n) == HEADER_LEN + Len(FlattenSeq([m \in 1 .. n - 1 |-> files[order[m]]]))
        index == [n \in DOMAIN order |->
                     [path |-> Portable(order[n]), offset |-> start(n),
                      length |-> Len(files[order[n]]), sha256 |-> Sha(files[order[n]])]]
            cells == <<<<"index", index>>>>
    IN  <<HEADER_MAGIC, VERSION>> \o bytes \o cells \o
        <<FOOTER_MAGIC, Num(HEADER_LEN + Len(bytes)), Num(1), Sha(cells), Num(0)>>

\* What read_exact gives, or nothing if the file ends before.
Cells(file, offset, length) ==
    IF offset + length > Len(file) THEN None ELSE SubSeq(file, offset + 1, offset + length)

\* The index, if header, footer, range and checksum are right.
read_index(file) ==
    LET footer == SubSeq(file, Len(file) - FOOTER_LEN + 1, Len(file))
        offset == Value(footer[2])
        length == Value(footer[3])
    IN  IF /\ Len(file) >= HEADER_LEN + FOOTER_LEN
           /\ SubSeq(file, 1, HEADER_LEN) = <<HEADER_MAGIC, VERSION>>
           /\ footer[1] = FOOTER_MAGIC
           /\ offset + length <= Len(file) - FOOTER_LEN
           /\ footer[4] = Sha(Cells(file, offset, length))
        THEN file[offset + 1][2] ELSE None

\* The entries are written one by one, until one cannot be.
unpack_to_directory(file) ==
    LET index == read_index(file)
        bytes(e) == Cells(file, e.offset, e.length)
        sound(n) == ~index[n].path.dots /\ bytes(index[n]) # None /\ Sha(bytes(index[n])) = index[n].sha256
        Write(dir, n) ==
            IF dir.ok /\ sound(n)
            THEN [dir EXCEPT !.files = (index[n].path :> bytes(index[n])) @@ @]
            ELSE [dir EXCEPT !.ok = FALSE]
    IN  IF index = None THEN [ok |-> FALSE, files |-> <<>>]
        ELSE FoldLeft(Write, [ok |-> TRUE, files |-> <<>>], [n \in DOMAIN index |-> n])
=============================================================================
