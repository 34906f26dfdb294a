------------------------------- MODULE Tables -------------------------------
(***************************************************************************)
(* The Parquet tables: offf-core/src/parquet_io.rs.                        *)
(*                                                                         *)
(* A table gives each of its columns a class: "must" hold a value, or may  *)
(* be null ("null"); "late" came with a later version and may be missing   *)
(* from a file, as may "json", which holds a document, and "flag" and      *)
(* "list", which then read as false and as empty; "time" holds an empty    *)
(* string for no time.  A file is its columns and its rows.                *)
(***************************************************************************)
EXTENDS Integers, Sequences, SequencesExt, FiniteSetsExt

CONSTANTS None, Blank, Garbled, No, EmptyList, NoRows

Columns(must, null, late) ==
    [c \in must \cup null \cup late |-> IF c \in must THEN "must" ELSE IF c \in late THEN "late" ELSE "null"]

PhysicalToChunk ==
    Columns({"sequence", "source_offset", "source_length", "chunk_id", "stored_length", "compression",
             "plaintext_sha256", "stored_sha256"}, {}, {})

LeavesTable == Columns({"sequence", "plaintext_sha256", "chunk_id"}, {}, {})

Times == {"created_at", "modified_at", "accessed_at", "changed_at"}

\* The reader of a table says which columns a file may miss.
FileIndexLate ==
    [c \in {"is_directory", "is_deleted", "is_sparse", "is_compressed", "is_encrypted", "ads_streams"} |->
        IF c = "ads_streams" THEN "list" ELSE "flag"]

FileIndex ==
    FileIndexLate @@ [c \in Times |-> "time"]
    @@ Columns({"file_id", "filesystem_id", "partition_id", "path", "filename", "extension", "size_bytes",
                "physical_extents", "chunk_refs", "parser", "parser_version", "parser_status", "parser_error"},
               {}, {})

\* Mutant: a column of a later version is asked for in every file.
ObjectIndexLate_strict ==
    {"content_hash_status", "collection_relative_path", "original_created_at",
     "original_modified_at", "original_accessed_at"}

ObjectIndexLate ==
    {"content_hash_status", "root_id", "collection_relative_path", "original_created_at",
     "original_modified_at", "original_accessed_at"}

ObjectIndex ==
    ("content_ref" :> "json")
    @@ Columns({"object_id", "object_type", "source_layer", "parser_status", "schema_version"},
               {"name", "logical_path", "media_type", "size_bytes", "sha256", "storage_ref",
                "root_source_ref", "root_id", "created_by_job_id", "provenance_ref"},
               ObjectIndexLate)

ObjectEdgesLate == {"parent_root_id", "child_root_id"}

ObjectEdges ==
    Columns({"edge_id", "parent_object_id", "child_object_id", "relation_type", "schema_version"},
            {"method", "logical_path", "sequence", "created_by_job_id", "provenance_ref"},
            ObjectEdgesLate)

DerivationsLate == {"parent_root_id", "child_root_id"}

Derivations ==
    Columns({"derivation_id", "parent_object_id", "child_object_id", "job_id", "method", "tool_id",
             "tool_name", "tool_version", "storage_mode", "created_at", "schema_version"},
            {"parameters_hash", "input_sha256", "output_sha256", "provenance_ref"},
            DerivationsLate)

Tables == {PhysicalToChunk, LeavesTable, FileIndex, ObjectIndex, ObjectEdges, Derivations}

\* read_leaves asks for two of the columns only, and gives no other.
LeavesRead == Columns({"sequence", "plaintext_sha256"}, {}, {})

\* The columns that the reader of a table asks for.
Reader(table) == IF table = LeavesTable THEN LeavesRead ELSE table

\* What the columns added later held when there were none of them.
Since(class) ==
    CASE class \in {"late", "json"} -> None
      [] class = "flag" -> No
      [] class = "list" -> EmptyList

Optional == {"late", "json", "flag", "list"}

\* write_batch.  No time becomes an empty string.
Write(columns, rows) ==
    [columns |-> DOMAIN columns,
     rows    |-> [n \in DOMAIN rows |->
                     [c \in DOMAIN columns |->
                         IF columns[c] = "time" /\ rows[n][c] = None THEN Blank ELSE rows[n][c]]]]

\* A time, or a document, that cannot be parsed reads as none.
Value(class, cell) ==
    CASE class = "time" /\ cell \in {Blank, Garbled} -> None
      [] class = "json" /\ cell = Garbled            -> None
      [] OTHER                                       -> cell

ReadRows(columns, file, rows) ==
    [n \in DOMAIN rows |->
        [c \in DOMAIN columns |->
            IF c \in file.columns THEN Value(columns[c], rows[n][c]) ELSE Since(columns[c])]]

\* The columns are looked for in each batch: a file without rows has none.
Read(columns, file) ==
    IF file.rows # <<>> /\ \E c \in DOMAIN columns \ file.columns : columns[c] \notin Optional
    THEN NoRows
    ELSE ReadRows(columns, file, file.rows)

\* read_physical_to_chunk and read_leaves sort by the sequence number.
ReadSorted(columns, file) ==
    LET rows == Read(columns, file) IN
    IF rows = NoRows THEN NoRows ELSE SortSeq(rows, LAMBDA r, q : r.sequence < q.sequence)

\* write_*_batched: batches without rows are passed over.
WriteBatches(columns, batches) == Write(columns, FlattenSeq(batches))

\* for_each_*_batch: f is called with each batch; size 0 leaves it to the file.
Batches(columns, file, size) ==
    IF size = 0 THEN <<Read(columns, file)>>
    ELSE [n \in 1 .. (Len(file.rows) + size - 1) \div size |->
             Read(columns, [file EXCEPT !.rows = SubSeq(@, (n - 1) * size + 1,
                                Min({n * size, Len(file.rows)}))])]
=============================================================================
