---------------------------- MODULE ObjectChecks ----------------------------
(***************************************************************************)
(* The two checks of offf-verify on the objects of a container, and the    *)
(* verified read of an object (offf-core/src/storage.rs).                  *)
(*                                                                         *)
(* A row of the index is [id, type, sha, ref, storage_ref], where ref, the *)
(* content_ref, is <<"file", n>>, <<"store", sha>> or None, and            *)
(* storage_ref a hash or None; an edge is [parent, child, type], and a     *)
(* derivation [parent, child, input, output].  The tables are sequences,   *)
(* or Missing or Garbled; `files` has the content of the files of the file *)
(* systems, `store` that of the stored objects.  The hash of a content is  *)
(* itself.                                                                 *)
(***************************************************************************)
EXTENDS Integers, Sequences, SequencesExt, FiniteSetsExt, Absences

L == INSTANCE Lineage

Unread == <<>>

At(map, key) == IF key \in DOMAIN map THEN <<map[key]>> ELSE Unread

\* read_file_verified and read_storage_ref_bytes.  Only without a content_ref
\* is the storage_ref followed.
ContentOf(o, r) ==
    IF r.ref = None THEN At(o.store, r.storage_ref)
    ELSE IF r.ref[1] = "file" THEN At(o.files, r.ref[2]) ELSE At(o.store, r.ref[2])

\* The first row with the id; a row without a hash is read as it is.
read_object_verified(o, id) ==
    LET n       == SelectInSeq(o.index, LAMBDA r : r.id = id)
        content == ContentOf(o, o.index[n])
    IN  IF n = 0 THEN Unread
        ELSE IF o.index[n].sha # None /\ content # <<o.index[n].sha>> THEN Unread
        ELSE content

\* Neither check stops at a table that is not there, or that it cannot read.
Rows(table) == IF table \in {Missing, Garbled} THEN <<>> ELSE table

Ids(o) == {r.id : r \in Range(Rows(o.index))}

FileRowOk(o, r) ==
    /\ r.storage_ref = None
    /\ r.ref # None
    /\ r.ref[1] = "file"
    /\ ContentOf(o, r) # Unread
    /\ \E e \in Range(Rows(o.edges)) : e.child = r.id /\ e.type = "contains"

\* --profile objects, with the validation of content hashes.
verify_objects_profile(o) ==
    /\ Missing \notin {o.index, o.edges, o.derivations}
    /\ \A r \in Range(Rows(o.index)) :
          /\ r.type = "filesystem_file" => FileRowOk(o, r)
          /\ r.sha # None => read_object_verified(o, r.id) # Unread
    /\ \A e \in Range(Rows(o.edges)) : {e.parent, e.child} \subseteq Ids(o)
    /\ \A d \in Range(Rows(o.derivations)) : {d.parent, d.child} \subseteq Ids(o)

\* The hash that the index has for an object, if any.
ShaOf(o, id) == {r.sha : r \in {q \in Range(Rows(o.index)) : q.id = id /\ q.sha # None}}

HashOk(o, id, sha) == sha # None => ShaOf(o, id) \subseteq {sha}

\* A derived object with a hash is in the store.
StoreOk(o, r) == r.type = "derived" /\ r.sha # None => At(o.store, r.sha) = <<r.sha>>

\* Mutant: derivations that cannot be read are taken for none.
LoadsOk_two(o) == Garbled \notin {o.index, o.edges}

LoadsOk(o) == Garbled \notin {o.index, o.edges, o.derivations}

\* verify-object-lineage, in full.
verify_object_lineage(o) ==
    LET Pairs(table) == [n \in DOMAIN Rows(table) |-> <<Rows(table)[n].parent, Rows(table)[n].child>>]
        edges == Pairs(o.edges)
    IN  /\ LoadsOk(o)
        /\ L!is_valid(Ids(o), edges, Pairs(o.derivations), SetToSeq(L!Keys(edges)))
        /\ \A d \in Range(Rows(o.derivations)) :
              HashOk(o, d.parent, d.input) /\ HashOk(o, d.child, d.output)
        /\ \A r \in Range(Rows(o.index)) : StoreOk(o, r)
=============================================================================
