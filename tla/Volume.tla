------------------------------- MODULE Volume -------------------------------
(***************************************************************************)
(* What is on a disk: detect_and_parse of offf-core/src/partition.rs.      *)
(*                                                                         *)
(* A disk is a sequence of sectors, the one with LBA n at n + 1.  A sector *)
(* is [kind, entries, alt, table]: a volume boot record ("vbr"), a boot    *)
(* record with its signature ("mbr", and so is a link of an EBR chain), a  *)
(* GPT header whose checksum is right ("gpt") or not ("badgpt"), an array  *)
(* of GPT entries ("array"), anything else ("data"), or unreadable ("bad").*)
(* An entry is [type, lba, count]; type 0 is an empty one.                 *)
(***************************************************************************)
EXTENDS Integers, Sequences, SequencesExt

CONSTANT MAX_EBR_CHAIN

Readable(disk, lba) == lba + 1 \in DOMAIN disk /\ disk[lba + 1].kind # "bad"

Extended == {5, 15}

Protective == 238

Part(lba, count) == <<lba, lba + count - 1>>

Error == [type |-> "error", parts |-> <<>>]

\* The entries of a boot record that count: of the extended ones the last.
Used(entries) == SelectSeq(entries, LAMBDA e : e.type # 0 /\ e.count # 0)

Primary(entries) == SelectSeq(Used(entries), LAMBDA e : e.type \notin Extended)

ExtendedOf(entries) == SelectSeq(Used(entries), LAMBDA e : e.type \in Extended)

\* Mutant: the next link is relative to the link it is read from.
NextLink_relative(ext, at, e) == at + e.lba

\* A link names the next one relative to the extended partition.
NextLink(ext, at, e) == ext + e.lba

\* The chain of EBRs, at most MAX_EBR_CHAIN; their signature is not checked,
\* and one that cannot be read ends the chain.
Logical(disk, ext) ==
    LET step(st, n) ==
            IF st.at = -1 \/ ~Readable(disk, st.at) THEN [st EXCEPT !.at = -1]
            ELSE LET e0 == disk[st.at + 1].entries[1]
                     e1 == disk[st.at + 1].entries[2]
                 IN  [at    |-> IF e1.count = 0 \/ e1.type = 0 THEN -1 ELSE NextLink(ext, st.at, e1),
                      parts |-> IF e0.count > 0 /\ e0.type # 0
                                THEN Append(st.parts, Part(st.at + e0.lba, e0.count)) ELSE st.parts]
    IN  FoldLeft(step, [at |-> ext, parts |-> <<>>], [n \in 1 .. MAX_EBR_CHAIN |-> n]).parts

Parts(entries) == [n \in DOMAIN entries |-> Part(entries[n].lba, entries[n].count)]

parse_mbr(disk) ==
    LET ext == ExtendedOf(disk[1].entries) IN
    [type  |-> "mbr",
     parts |-> Parts(Primary(disk[1].entries))
               \o (IF ext = <<>> THEN <<>> ELSE Logical(disk, Last(ext).lba))]

\* The checksum of the header is checked, that of the entries is not.
parse_gpt(disk, header) ==
    IF header.kind # "gpt" \/ ~Readable(disk, header.table) THEN Error
    ELSE [type |-> "gpt", parts |-> Parts(Used(disk[header.table + 1].entries))]

\* The alternate header is found through the primary one, however damaged.
Gpt(disk) ==
    LET primary == parse_gpt(disk, disk[2])
        alt     == disk[2].alt
    IN  IF primary # Error THEN primary
        ELSE IF alt > 1 /\ Readable(disk, alt) THEN parse_gpt(disk, disk[alt + 1])
        ELSE Error

detect_and_parse(disk) ==
    LET s0     == disk[1]
        mbr    == s0.kind = "mbr"
        is_gpt == mbr /\ \E n \in 1 .. 4 : s0.entries[n].type = Protective
    IN  IF s0.kind = "bad" THEN Error
        ELSE IF s0.kind = "vbr" THEN [type |-> "volume_image", parts |-> <<Part(0, Len(disk))>>]
        ELSE IF is_gpt /\ ~Readable(disk, 1) THEN Error
        ELSE IF is_gpt /\ Gpt(disk) # Error THEN Gpt(disk)
        ELSE IF mbr THEN parse_mbr(disk)
        ELSE [type |-> "unknown", parts |-> <<>>]
=============================================================================
