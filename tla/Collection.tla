----------------------------- MODULE Collection -----------------------------
(***************************************************************************)
(* offf-collect: a collector stores the files it is given as evidence      *)
(* objects, lists them in an index and publishes the whole.  Its temporary *)
(* directory is that of every collector whose output has the same stem,    *)
(* and what an earlier one left there is removed first.                    *)
(*                                                                         *)
(* A file is [path, content]; an object is stored under its hash.          *)
(***************************************************************************)
EXTENDS Publication

CONSTANT FileTrees      \* what there is to collect: sequences of files

VARIABLES
    files,      \* the files each collector is given
    target,     \* its output
    listed,     \* the rows of its index (kept in memory)
    shared,     \* the temporary directory of all collectors
    met         \* history: collectors that ran while another one did

collectVars == <<files, target, listed, shared, met>>

EmptyCollection ==
    [objects |-> <<>>, provenance |-> Missing, index |-> Missing, edges |-> Missing,
     acquisition |-> Missing, manifest |-> Missing]

InitCollection ==
    /\ files = [p \in Collectors |-> <<>>]
    /\ target = [p \in Collectors |-> None]
    /\ listed = [p \in Collectors |-> <<>>]
    /\ shared = Absent
    /\ met = {}

Running == {p \in Collectors : run[p] \notin Ended \cup {"idle"}}

BeginCollection(p) ==
    /\ \E o \in Outputs : Begin(p, o, "clear") /\ target' = [target EXCEPT ![p] = o]
    /\ \E tree \in FileTrees : files' = [files EXCEPT ![p] = tree]
    /\ met' = IF Running = {} THEN met ELSE met \cup Running \cup {p}
    /\ UNCHANGED <<listed, shared, out, damage>>

\* Mutant: what is there is kept.
Clear_kept(p) ==
    /\ Step(p, "clear", "mkdir")
    /\ UNCHANGED <<collectVars, out, damage>>

Clear(p) ==
    /\ Step(p, "clear", "mkdir")
    /\ shared' = Absent
    /\ UNCHANGED <<files, target, listed, met, out, damage>>

\* create_dir_all makes what is not there.
Base == IF shared = Absent THEN EmptyCollection ELSE shared

MakeShared(p) ==
    /\ Step(p, "mkdir", "open")
    /\ shared' = Base
    /\ UNCHANGED <<files, target, listed, met, out, damage>>

RootRow(p) == [object_id |-> <<"root", p>>, storage_ref |-> None]

FileRow(file) == [object_id |-> Sha(file.content), storage_ref |-> Sha(file.content)]

\* What an index holds of a whole tree, and the edges and the manifest with it.
IndexOf(p, tree) == [n \in 1 .. Len(tree) + 1 |-> IF n = 1 THEN RootRow(p) ELSE FileRow(tree[n - 1])]

EdgesOf(p, tree) == [n \in DOMAIN tree |-> <<RootRow(p).object_id, FileRow(tree[n]).object_id>>]

CollectionManifest(p, tree) == [root_id |-> RootRow(p).object_id, object_count |-> Len(tree)]

\* No file is taken for the root of a collection, and what a table or a
\* document holds for one that is missing or cannot be parsed.
ASSUME CollectionAssumption ==
    \A tree \in FileTrees :
        /\ tree \in Seq(Range(tree))
        /\ \A n \in DOMAIN tree : tree[n].content # "root"
        /\ \A p \in Collectors, mark \in {Missing, Garbled} :
              IndexOf(p, tree) # mark /\ EdgesOf(p, tree) # mark /\ CollectionManifest(p, tree) # mark

\* The log of provenance is created, with a first event.
OpenLog(p) ==
    /\ Step(p, "open", "store")
    /\ shared' = [Base EXCEPT !.provenance = (IF @ = Missing THEN <<>> ELSE @) \o <<<<p, "started">>>>]
    /\ listed' = [listed EXCEPT ![p] = <<RootRow(p)>>]
    /\ UNCHANGED <<files, target, met, out, damage>>

read_evidence_object(dir, ref) ==
    IF ref \in DOMAIN dir.objects /\ Sha(dir.objects[ref]) = ref THEN <<dir.objects[ref]>> ELSE Unread

\* write_evidence_object, and a row for the file: one that was stored already
\* must read back.  (The write to a temporary name and the rename are one step.)
Store(p) ==
    LET n    == Len(listed[p])
        file == files[p][n]
        hash == Sha(file.content)
    IN  /\ Step(p, "store", "log")
        /\ n <= Len(files[p])
        /\ hash \in DOMAIN Base.objects => read_evidence_object(Base, hash) # Unread
        /\ shared' = [Base EXCEPT !.objects = WithFile(@, hash, file.content)]
        /\ listed' = [listed EXCEPT ![p] = Append(@, FileRow(file))]
        /\ UNCHANGED <<files, target, met, out, damage>>

\* An append needs the log to be there.
Log(p, from, event, to) ==
    /\ Step(p, from, to)
    /\ Base.provenance # Missing
    /\ shared' = [shared EXCEPT !.provenance = Append(@, <<p, event>>)]
    /\ UNCHANGED <<files, target, listed, met, out, damage>>

LogFile(p) == Log(p, "log", "collected", "store")

\* The index, in a directory that is made for it.
WriteIndex(p) ==
    /\ Step(p, "store", "edges")
    /\ Len(listed[p]) > Len(files[p])
    /\ shared' = [Base EXCEPT !.index = listed[p]]
    /\ UNCHANGED <<files, target, listed, met, out, damage>>

\* The edges are written next to the index, the documents beside it: neither
\* makes its directory.
WriteEdges(p) ==
    /\ Step(p, "edges", "acquisition")
    /\ Base.index # Missing
    /\ shared' = [shared EXCEPT !.edges = EdgesOf(p, files[p])]
    /\ UNCHANGED <<files, target, listed, met, out, damage>>

WriteAcquisition(p) ==
    /\ Step(p, "acquisition", "manifest")
    /\ shared # Absent
    /\ shared' = [shared EXCEPT !.acquisition = "acquired"]
    /\ UNCHANGED <<files, target, listed, met, out, damage>>

WriteManifest(p) ==
    /\ Step(p, "manifest", "complete")
    /\ shared # Absent
    /\ shared' = [shared EXCEPT !.manifest = CollectionManifest(p, files[p])]
    /\ UNCHANGED <<files, target, listed, met, out, damage>>

Complete(p) == Log(p, "complete", "completed", "publish")

\* Any step may fail (one without what it needs has to); the directory is
\* removed, whoever is working in it.
FailCollection(p) ==
    /\ \E from \in {"open", "store", "log", "edges", "acquisition", "manifest", "complete"} : Step(p, from, "failed")
    /\ shared' = Absent
    /\ UNCHANGED <<files, target, listed, met, out, damage>>

\* A failed rename leaves the directory.
PublishCollection(p) ==
    /\ Rename(p, target[p], shared)
    /\ shared' = IF out[target[p]] = Absent THEN Absent ELSE shared
    /\ UNCHANGED <<files, target, listed, met, damage>>

CrashCollection(p) ==
    /\ p \in Running
    /\ Step(p, run[p], "crashed")
    /\ UNCHANGED <<collectVars, out, damage>>

Collect(p) ==
    \/ BeginCollection(p) \/ Clear(p) \/ MakeShared(p) \/ OpenLog(p) \/ Store(p) \/ LogFile(p)
    \/ WriteIndex(p) \/ WriteEdges(p) \/ WriteAcquisition(p) \/ WriteManifest(p) \/ Complete(p)
    \/ PublishCollection(p) \/ FailCollection(p) \/ CrashCollection(p)

-----------------------------------------------------------------------------
(* verify_file_collection, and reading an object by its id.                *)

RootListed(dir) == \E n \in DOMAIN dir.index : dir.index[n].object_id = dir.manifest.root_id

verify_file_collection(dir) ==
    /\ Parses(dir.manifest)
    /\ Parses(dir.index)
    /\ Parses(dir.edges)
    /\ RootListed(dir)
    /\ \A n \in DOMAIN dir.index :
          \/ dir.index[n].object_id[1] = "root"
          \/ read_evidence_object(dir, dir.index[n].storage_ref) # Unread

\* read_evidence_file_verified: the first row with the id.
ReadFile(dir, id) ==
    LET n == SelectInSeq(dir.index, LAMBDA r : r.object_id = id)
    IN  IF n = 0 THEN Unread
        ELSE IF dir.index[n].storage_ref = None THEN Unread
        ELSE read_evidence_object(dir, dir.index[n].storage_ref)

-----------------------------------------------------------------------------

IsCollection(dir) == dir # Absent /\ "objects" \in DOMAIN dir

DamagedTables(dir) == {[dir EXCEPT ![f] = bad] : f \in {"index", "edges", "manifest"}, bad \in {Missing, Garbled}}

DamagedObjects(dir) ==
    UNION {{[dir EXCEPT !.objects[h] = x] : x \in Blocks \cup {Garbled}}
           \cup {[dir EXCEPT !.objects = [g \in DOMAIN @ \ {h} |-> @[g]]]} : h \in DOMAIN dir.objects}

DamagedCollections(dir) ==
    DamagedTables(dir) \cup DamagedObjects(dir)
    \cup (IF Parses(dir.index) THEN {[dir EXCEPT !.index = RemoveAt(@, n)] : n \in DOMAIN dir.index} ELSE {})

DamageCollection ==
    \E o \in Outputs :
        /\ IsCollection(out[o])
        /\ \E dir \in DamagedCollections(out[o]) : Damages(o, dir)
        /\ UNCHANGED collectVars

-----------------------------------------------------------------------------
(* Properties of what is collected.                                        *)

\* A collector that no other one ran with has published its own files and
\* nothing else: no object, row or event of a collection that crashed in the
\* same temporary directory before it.
OwnFilesPublished ==
    \A p \in Collectors :
        run[p] = "done" /\ p \notin met /\ damage = 0 =>
            LET dir == out[target[p]] IN
            /\ Range(dir.index) = {RootRow(p)} \cup {FileRow(f) : f \in Range(files[p])}
            /\ DOMAIN dir.objects = {Sha(f.content) : f \in Range(files[p])}
            /\ \A n \in DOMAIN dir.provenance : dir.provenance[n][1] = p
            /\ verify_file_collection(dir)

\* Whoever wrote to the temporary directory, and whatever was damaged since:
\* each file that the index of an accepted collection lists can be read, and
\* has the hash it is listed with, also when two rows have the same id.
AcceptedReadable ==
    \A o \in Outputs :
        IsCollection(out[o]) /\ verify_file_collection(out[o]) =>
            \A n \in DOMAIN out[o].index :
                LET row == out[o].index[n] IN
                row.storage_ref # None =>
                    ReadFile(out[o], row.object_id) # Unread
                    /\ Sha(ReadFile(out[o], row.object_id)[1]) = row.object_id

\* An accepted collection that was not damaged is the whole of one collector's
\* files, even when two worked in the same directory: an index of one under
\* the manifest of the other is refused.
AcceptedIsOne ==
    \A o \in Outputs :
        IsCollection(out[o]) /\ damage = 0 /\ verify_file_collection(out[o]) =>
            \E p \in Collectors :
                /\ Range(out[o].index) = {RootRow(p)} \cup {FileRow(f) : f \in Range(files[p])}
                /\ out[o].manifest.object_count = Len(files[p])

\* An output of offf-collect that is accepted is the collection of one run,
\* and can be read, although collectors share a temporary directory.
CollectionWhole == OwnFilesPublished /\ AcceptedReadable /\ AcceptedIsOne
=============================================================================
