# A TLA+ verification project for the Open Forensic File Format reference implementation

The repository (Rust, `src/crates/`) holds a core library, `offf-core`, and
command line tools and a service built on it: containers of forensic evidence
are created, indexed, verified, exported, grouped into cases, and processed by
worker jobs whose results and provenance are written back. This directory
models the parts of it where order, overlap, failure or an awkward input decide
whether the promises of the format hold ("append-only", "never overwritten",
"unique event ids", "bounded retries", "what verifies can be read back"), checks
them with TLC and proves the central ones with TLAPS.

Run the checks from this directory:

    tlc -workers 2 -config JobRunner_exclusive.cfg MCJobRunner
    tlapm JobRunnerProofs.tla

`PROJECT.json` lists the components, the runs and what they check, the mutants
that show each property can fail, the source lines of every definition, the
findings, the hazards and the theorems.

## 1. Inventory

### What all components share

There is no lock, no daemon and no transaction in the code base. Every tool is
a process that reads whole files, computes, and writes whole files or appends a
line; the access service (tonic and axum) runs one task per request without a
mutex. Components meet only in the file system or the S3 bucket. So the hard
behaviours are always the same: two processes between each other's reads and
writes; a process killed between two system calls; a file that is rewritten in
place and found torn; one step of several failing while earlier ones stay; on
S3, lost replies and requests that are repeated. What is left, the parsing and
the checking of evidence, is sequential, and is hard for its inputs: damaged,
cut off, circular, or written by an earlier version.

Three ways of writing occur and are modelled as what they are:

| way | where | in the models |
|---|---|---|
| `fs::write` or `File::create` (open with truncation, then write) | runtime state, log creation, provenance rewrite, Parquet, shard manifests and results | two steps; a reader or a crash may come between them, and a second writer's text may mix with the first's |
| temporary file (or directory) and `rename` | case JSON documents, evidence objects, containers, staged shards | the file: one step. The directory: all its steps, and the rename as one |
| `O_APPEND` | `ProvenanceWriter`, the job logs once they exist | one step per `write` call |

### Components

| component | source (`src/crates/`) | state it keeps | operations | hard | what makes it correct | here |
|---|---|---|---|---|---|---|
| job runner | `offf-jobs/src/main.rs` `run` | `jobs/runtime/<job>.state.json`, assignment audit, health log | run with retries, force, replay hit | overlap, crash between save, audit and worker; torn state; u32 limit | retry budget, justified success, complete audit, every invocation ends | `JobRunner` |
| job creation | `offf-jobs` `create-*`, `queue` | job manifests | write manifest | manifest changed under a live runner | a success names a command that ran, and what it read | edits in `JobRunner` |
| sharded jobs | `offf-core/src/shard.rs`, `worker_context.rs`, `scope.rs`, `offf-jobs` | plan, shard manifests, results | plan, work, commit, finalize, coverage, verify | a plan over an older plan, stale results, directories that are replaced | every input in one shard; what is accepted is complete | `ShardedJob` |
| provenance writer | `offf-core/src/provenance.rs` | `provenance/chain_of_custody.jsonl` | open, append | overlapping tools, crash inside `writeln!` | append-only, acknowledged kept, ids | `ChainOfCustody` |
| stream append, local | `offf-core/src/storage.rs` 164-171 | the same streams | read, truncate, rewrite | overlap with the writer above | the same | `ChainOfCustody` |
| stream append, S3 | `storage.rs` 172-236 | one object | get, conditional put, retry | lost, repeated and late requests, 8 rounds | append-only log, no phantom retries | `S3Append` |
| case registry | `offf-core/src/case.rs` | case manifest, root registry, case provenance, global indexes, report | create, attach, detach, build, verify | order of the writes, crash between them, write-back of an older copy under overlap | count and registry agree, provenance never claims too much, a write loses at most what others changed since it read | `CaseRegistry` |
| access service, provenance | `offf-access-service/src/main.rs` `append_provenance` | the chain of custody | append | count, then append | ids, nothing lost | `ChainOfCustody` |
| access service, results | same file, `storage.rs` 95-153, 426-444 | `analysis/jobs/<job>/*`, `derived/objects/*`, denied-write log | write analysis rows, object, edge and derivation deltas, materialized objects | exists-then-write; writes cut short; tool registry read twice under edits; the denial log is best effort | a file is written only by those let in before it existed, rights held, objects whole | `AccessWrites` |
| access service, reads | same file | none | chunk, range, object, lineage reads | cycles, paths that meet | byte-exact ranges, all ancestors | `Lineage`, `ObjectChecks`, `Image` |
| object index | `offf-index/src/main.rs`, `extensions.rs` | file and object indexes | partitions, filesystem, full, merge, rebuild, replay | merge order, deltas being written, files rewritten in place one after the other | indexed rows stay, the first job wins, orphans heal | `ObjectIndex` |
| convert | `offf-convert/src/main.rs`, `chunk.rs` | a container | build under a temporary name, rename | crash, overlap, equal chunks | a container that is visible is whole and verifies | `Conversion` |
| collect | `offf-collect/src/main.rs` | a container | the same, in a temporary directory with a fixed name | collectors that share the directory, what a crashed one left | what is accepted is the collection of one run | `Collection` |
| verify | `offf-verify/src/main.rs` | none (a report) | containers in full, in part, with a key; collections; objects; lineage; parallel jobs | what damage passes | what is accepted can be read back | `Container`, `Collection`, `ObjectChecks`, `ShardedJob` |
| export | `offf-export/src/main.rs`, `packed.rs` | an image, a packed file | export, pack, unpack | a copy that stops, damaged files | bytes in order, or an error | `Container`, `Packed` |
| hash, Merkle trees | `offf-core/src/hash.rs` | none | roots, proofs, the stored tree | levels of odd length | a tree and a proof bind the leaves and their places | `MerkleTree` |
| partitions, NTFS | `offf-core/src/partition.rs`, `ntfs.rs` | a chunk cache | tables, chains, runs, records, paths | circular and contradictory structures, hash-map order | what is there is found, once, with the right bytes | `Volume`, `Ntfs`, `Image` |
| object graph | `offf-core/src/lineage.rs` | none | cycles, validity, statistics | cycles, hash-map order | a valid graph is one of derivations | `Lineage` |
| Parquet tables | `offf-core/src/parquet_io.rs` | none | write, read, in batches | columns of later versions, nulls | round trips, also through a merge | `Tables` |
| extensions | `offf-core/src/extensions.rs` | extension streams | replay of object events | removals, events without payload | an object is there as its last event says | `ObjectIndex` |
| scopes, sets | `offf-core/src/scope.rs` | none | resolve | order of inputs | | as a set of objects in `ShardedJob` |
| migrate | `offf-migrate/src/main.rs` | a container | rewrite or copy | | | not modelled (section 7) |
| types, Python and Go SDKs, workers, scripts | | | | | | not modelled (section 7) |

How they interact: `offf-jobs` starts workers, workers write results through
the access service or the SDK, `offf-index` merges what they wrote, plan-shards
cuts the index into shards, `offf-verify` reads all of it; convert, collect,
index and the service all append to the same chain of custody; a case groups
containers and builds indexes over theirs. `PROJECT.json` lists the hazards of
all of it, with their lines.

## 2. Modules

| module | models | proofs |
|---|---|---|
| `JobLifecycle` | abstract: what scheduling a job promises | |
| `JobRunner` | `offf-jobs run` by overlapping, crashing processes | `JobRunnerProofs` |
| `AppendOnlyLog` | abstract: a stream that only grows | |
| `S3Append` | `append_jsonl_line` on S3 | `S3AppendProofs` |
| `CaseRegistry` | a case directory and its five writing operations | `CaseRegistryProofs` |
| `ChainOfCustody` | the provenance stream, tools and service | `ChainOfCustodyProofs` |
| `ArtefactStore` | abstract: files that are written once | |
| `AccessWrites` | the writing endpoints of the access service | `AccessWritesProofs` |
| `ObjectIndex` | `offf-index`, next to jobs that write deltas | `ObjectIndexProofs` (with those about `Lineage`) |
| `ShardedJob` | plan, workers, commit, verification and coverage of a sharded job | `ShardedJobProofs` |
| `Container` | a block image container: chunks, verification, export | |
| `Publication` | temporary directory and rename, for both tools below | |
| `Conversion`, `Collection` | `offf-convert`, `offf-collect`, and the damage done to what they publish | |
| `Containers` | the composition of these | `ContainersProofs` |
| `MerkleTree`, `Image`, `Volume`, `Ntfs`, `Lineage`, `Tables`, `ObjectChecks`, `Packed` | the pure algorithms of `offf-core` | the first two in `ContainersProofs`, `Lineage` in `ObjectIndexProofs` |
| `Questions` | one question at a time, of some kind | |
| `ChunkQuestions` | the questions to `MerkleTree` and `Image`: trees, proofs, and ranges of an image read from the chunks that are left | `ContainersProofs` |
| `GraphQuestions` | the questions to `Lineage`: cycles, validity, depth and lineages | `ObjectIndexProofs` |
| `Algorithms` | the questions to the others; asks one question at a time to any of them | |
| `Absences` | what a file or a cell has instead of a value | |
| `MC*` | constants and small sets for TLC | |

`Containers` EXTENDS `Conversion` and `Collection`, both of which extend
`Publication`, `Container` and `MerkleTree`; `Algorithms` EXTENDS
`ChunkQuestions` (and that `MerkleTree` and `Image`) and `GraphQuestions` (and
that `Lineage`), which share the question of `Questions`. The theorems are about
their specifications `ChunkSpec` and `GraphSpec`, which say only how questions
of their own kinds are asked (`OnlyAsked`), whatever the others are;
`Algorithms` implies both, since each of its actions asks a kind of its own. It
takes the other algorithms as instances (`Disk!`, `Mft!`, `Parquet!`, `Checks!`,
`Packs!`). A mutated operator stands in front of the definition it mutates,
marked "Mutant"; no other definition uses it (`PROJECT.json` says which property
it breaks).

### JobRunner

One process per worker id; `proc[w].pc` is the position in `cmd_run`.

| action | code (`offf-jobs/src/main.rs`) |
|---|---|
| `Invoke` | manifest read, replay id computed, command line parsed |
| `LoadFails`, `ReplayHit`, `Refuse`, `FirstAttempt` | `load_state_if_exists` and the three ways on from it |
| `Truncate`, `WriteState` | `save_runtime_state` = `fs::write`, in two steps |
| `CheckExists`, `CreateLog`, `FillLog`, `AppendLog` | `append_jsonl`: the existence test and its two branches |
| `SpawnWorker`, `SpawnFails`, `WorkerSucceeds`, `WorkerFails` | `run_worker_task` and `terminal_status_for_failure` |
| `EditManifest`, `Crash` | somebody rewrites the job manifest, also under live processes (`edited` notes that for each of them); the process dies |

The manifest is identified with its replay id (a SHA-256 of its content). A
worker is external: it succeeds, fails, or cannot be started. Two texts written
at offset 0 by two processes leave either the second text or a mixture that does
not parse (`Torn`), depending on lengths the model does not have. A line that is
partly covered by another is `Garbled`.

### S3Append

`Get`, `Put` and `Retry` are the loop; `ServeStores`, `ServeRefuses`, `Resend`
and `GiveUp` are the bucket and the SDK, modelled from how `storage.rs` uses them
and marked external in the map. The code classifies errors by searching their
text ("NoSuchKey", "412", ...). Whether the SDK's text holds these words is the
SDK's business, so `GetFails` and the `err` branch of `Retry` are always
possible: the model has both builds. The ETag is identified with the content,
as it is for objects stored by one put.

### CaseRegistry

The state is the case directory: two JSON documents, the report, the provenance
file and the five index files. Each operation is the sequence of its reads and
writes; `op[p]` holds what it read (the copies that are written back whole are
the point of the model). `attach_root` writes manifest, registry, event, in that
order; `detach_root` registry, event; `build_case_global_indexes` five files and
then the manifest; `verify_case` the report, the manifest if it does not name
the report, and an event. `Stop` and `WriteLogPartly` cut an operation short at
any step. What the indexes contain and how the verdict is computed from the
roots is abstracted to which roots are covered and a choice of the verdict
(never "valid" with an inactive root). `create_case` has no precondition, as in
the code: it makes a case anew over one that exists. Processes overlap freely.
`Watched` keeps the history of that: `clashes` counts the operations begun
while another was running, and creations over a case; `met` has the processes
whose operation overlaps another, and `touched[p]` the roots whose status
others changed since `p` read the registry it is about to write back.
`read_case_object_verified` changes nothing and is left out. Two writers of one
document share the name of its temporary file; that is left out too, as it only
adds failures to what overlap already does.

### ChainOfCustody

The file is a sequence of event texts, newlines and fragments, so that a write
cut short between the text and the newline of `writeln!` (two `write` calls) is
visible: the next event then shares its line. `ProvenanceWriter` counts lines
when it is opened (`Open`, `CountEvents`) and appends (`WriteText`,
`WriteNewline`); the service counts and rewrites the file for each event
(`Request`, `LoadLog`, `TruncateLog`, `WriteLog`). `Stop`, `WriteTextPartly` and
`WriteLogPartly` cut an appender short. With `MayMisread` the service's first
read may fail, which the code takes for an empty log (`unwrap_or_default`).

### AccessWrites

`req[r].pc` is the position of a request in its handler; the REST and the gRPC
handlers take the same steps.

| action | code (`offf-access-service/src/main.rs`) |
|---|---|
| `Receive`, `Authenticate` | the request; `actor_from_headers` or `actor_from_metadata`, `can_write_analysis` |
| `enforce_tool_registry`, `enforce_capability`, `EditRegistry` | the two checks, each of which reads the registry file anew; an edit of that file |
| `Deny`, `Refuse`, `Reject` | the error paths, with and without `log_denied_write_best_effort` |
| `Absent`, `Create`, `Fill` | `exists`, then `fs::write` in its two steps |
| `Present`, `Compare` | `write_derived_object` on an object that exists |
| `LogDenied` | `log_denied_write_best_effort`, `append_jsonl_line`: the line is stored, or not, and nobody hears of it |
| `Stop`, `StopWriting` | the service is killed, or a read or a write fails, in the second case between truncation and the end of the text |

What a token, a row or a path contains is abstracted to whether the check
passes, and status, role and layer of a tool to one Boolean. The object hash is
identified with the content, and a content with what reading it back gives;
contents are not empty (an empty delta is the state `Empty`). The path of an
analysis result is the client's and may be that of a delta, as in the code.
Requests overlap freely, on one file too. `denied` holds the requests whose
denial a log shows. Whether it does is not in the hands of the service: the
append may fail or be skipped, and the answer of the request is the same, so
`denied` may lack any of them (section 4). `held` is a history variable: what the
registry granted the tool at some moment of its request.

### ObjectIndex

One run of `offf-index` at a time (`run`, `pc`, and the memory of its process:
`item`, `kind`, `map`), while jobs create and extend their deltas.

| action | code (`offf-index/src/main.rs`) |
|---|---|
| `Start` | the command line, and the return when all index files exist |
| `WriteTable`, `CreateFileIndex`, `FillFileIndex`, `ScanFails` | `cmd_partitions`, `cmd_filesystem`, the loop of `cmd_full` |
| `ReadDelta`, `Unreadable`, `MergeExisting` | `merge_object_index_from_jobs`, job by job and file by file, and the rows of the index that exists |
| `Collect`, `CollectFails`, `CompareJsonl`, `CreateJsonl`, `FillJsonl` | `objects --from-filesystem` and `assert_safe_rewrite` |
| `ReplayEvent`, `ReplayFails`, `ReplayEnds` | `rebuild_object_index_from_events` (`extensions.rs`) |
| `CreateIndex`, `FillIndex`, `Record` | the Parquet files, each truncated and then written, and the event |
| `CreateDelta`, `WriteDelta` | a job, of which a reader may see any part |

A row is its id and where it came from (a job, the file indexes, the log); edge
and derivation of an object share its id, so that an orphan is an id of one file
that another lacks. What a partition or an MFT holds is the constant `Holds`;
the parsers are in `Volume` and `Ntfs`. `begun`, `kept`, `replayed` and `basis`
are history variables, named with what they remember.

### ShardedJob

| action | code (`offf-core/src/`) |
|---|---|
| `PlanShards`, `WritePlan`, `CreateManifest`, `WriteManifest`, `StopPlanner` | plan-shards: the scope is resolved, the plan is truncated and written, then a manifest for each shard |
| `Open` | `AnalysisWorkerContext::open`, or a worker that reads its manifest |
| `WriteRows`, `CreateResult`, `WriteResult` | a worker that writes beside the manifest; `write_shard_result_manifest` |
| `StageRows`, `StageResult`, `FillStaged`, `RemoveFinal`, `Rename`, `RenameFails` | `commit`: staging directory, its result in two steps, removal of the final one file by file, rename |
| `Reindex`, `StopWorker` | the object index changes; a worker dies |

A worker may write any number of rows (`Rows`: nothing in the code relates the
rows of a result to its inputs), and one that writes beside the manifest itself
may report a status other than "completed". The staged result, like the final
one, is truncated and then written (`StageResult`, `FillStaged`).
`Accepted(resolved)` is the verification where the scope of the job could or
could not be resolved: in the second case it warns, or does not compare at all.

An object is its place in the order of ids, the hash of a scope is the scope,
and ids of inputs are given by place, as in the code. finalize-job, the
verification and the coverage report write nothing that is read again, so they
are operators on a state (`Accepted`, `Validated`, `Coverage`, `Status`).
`planned`, `laid`, `reported` and `cut` (the shards where the last writer of a
result was stopped at it) are history variables.

### Containers

A converter (`run[p]`, `image`, `rows`, `tmp`) writes chunk after chunk and then
the seven files of a container; each step may fail, which removes the directory,
or be the last before a crash. A collector works in the directory `shared`,
which has the same name for all of them: a second collector clears it under the
first, and the model lets every step of the one come between two of the other,
including the steps that recreate a directory (`Base`) and those that need it to
be there. `Rename` is where the two tools meet: it fails on an output that is
there by then. After a tool that ran alone has ended, `DamageImage` and
`DamageCollection` lose, garble or replace files, by those of another image as
well as by noise.

An image is a sequence of blocks, one per chunk; the hash of something is the
tuple with it, so a collision is impossible and everything else is not: two
images with one Merkle root are among the instances. `verify` is the control of
`offf-verify` for a local block image with its options (key, `--subset`,
`--proof-chunk`), one predicate because it only reads; `export` is offf-export
with what it leaves behind when it fails.

### The algorithms

State: one question, or none. `Ask...` draws an input of one algorithm, and the
properties compare the answer with what it is meant to be: a reference
definition (`PathsMatch`, `FilesRebuilt`, `CyclesFound`), a round trip
(`RunsRoundTrip`, `TablesReadBack`, `PackedReadsBack`), or the claim itself
(`TreeBinds`: a stored tree is accepted exactly if it is the one written).
Those about trees and ranges are in `ChunkQuestions`, those about the object
graph in `GraphQuestions`.

| module | code (`offf-core/src/`) | abstraction |
|---|---|---|
| `MerkleTree` | `hash.rs`: roots, proofs, `merkle_tree.bin` | a hash is a tuple |
| `Image` | `partition.rs` `read_bytes_at`, `chunk_refs_for_range`; `ntfs.rs` `ChunkCache`; `storage.rs` `reconstruct_from_extents` | bytes are told apart by their place |
| `Volume` | `partition.rs`: MBR, EBR chains, GPT and its backup | a sector is what its bytes decode to |
| `Ntfs` | `ntfs.rs`: run lists, reading the MFT with its errors and its cap, attribute lists, names, paths, extents in whole clusters | a record is its directory flag and its attributes, data resident or in runs; digits of a run have a smaller base, the cap is `MaxMft` |
| `Lineage` | `lineage.rs`; the service's `read_object_lineage` | none; the orders a hash map may give are inputs |
| `Tables` | `parquet_io.rs`: columns, nulls, batches, readers that want fewer columns than were written | a cell is a value, null or unreadable |
| `ObjectChecks` | `offf-verify`: objects profile (also storage references and the type of an edge), lineage; `storage.rs` `read_object_verified` | tables are sequences, missing or garbled |
| `Packed` | `packed.rs`: the files of a folder (empty directories are passed over), names with a backslash, the format | a number, a hash and the index take one cell each |

Recursion is written with recursive functions and folds; loops of the code that
end by themselves (the depth-first search, the path fixpoint, the EBR chain) are
given the number of steps they take at most.

## 3. Runs

Bounds are constants of the cfg files; counters are bounded only by guards on
the environment (invocations, operations, events, plans, damage), never on what
the code does. The type invariants are not among the runs' properties: they are
proved for all values of the constants (section 5).

| run | instance | shows |
|---|---|---|
| `job_exclusive` | 2 worker ids, 2 manifests, limits 0 and 2, 3 invocations that do not overlap, crash anywhere, edits between invocations | the retry budget holds across crashes and different limits; event ids in the audit do not repeat; the runner refines `JobLifecycle` |
| `job_concurrent` | 2 overlapping workers, 2 invocations, 2 manifests, one of which becomes the other at any moment, `--force`, limits 1 and the u32 maximum (3 here, it wraps to 0), logs exist | a recorded success is a real one, and of the manifest it names unless that was edited under its own process; every started command has its audit line; every invocation ends |
| `s3_lossy` | 2 calls, 3 rounds, each request sent up to 2 times, replies lost, late service | the object is an append-only log, acknowledged lines stay, copies and failed rounds are paid for, every call ends |
| `case_crash` | 2 processes, 2 roots, 4 operations, each cut short anywhere, one clash of two of them | how far the documents drift apart without a clash and that they never drift further; attach repairs; what a write-back loses when operations overlap |
| `writes` | 2 requests to any endpoint, one tool, a result, a delta, 2 objects, overlapping freely, cut short anywhere, registry edits at any time | rights, whole objects; the service refines `ArtefactStore` |
| `custody_stops` | 2 tools and the service in turn, 6 events, cut short anywhere, misreads | ids are right as long as the file shows no damage |
| `custody_tools` | 2 overlapping tools, 5 events, killed anywhere | the tools alone never lose or change anything, and never skip an id |
| `index` | 2 jobs, a file system, 2 index files, 2 ids, 2 event logs (one leaves one id and not the other, one has an event without payload), 3 runs of any command, killed anywhere, deltas written under them | what a merge guarantees whatever came before; when a rebuild is refused; what a replay gives |
| `shards` | 4 objects, 2 indexes, 3 layouts, 2 plans, 2 shards, 3 opens and 4 starts of plan or workers in all, everything stopped anywhere | every input once; what is accepted is complete; the coverage tells stale results; results survive |
| `shards_finished` | the same, one plan, nothing stops | violation: a job whose workers all finished does not validate |
| `containers` | 5 images of up to 4 blocks, 3 file trees, 2 outputs, 2 tools of either kind that fail or crash anywhere, then up to 3 damaged files | what is published is whole; what is accepted, in full or in part or with a key, can be read and exported |
| `algorithms` | trees of up to 7 leaves with any node, the root or the count changed, proofs shown with any leaf at any place; an image of 5 bytes in chunks of 1 to 4, of which any are missing and one is damaged, every two ranges of it, a cache of 2 chunks; disks of 7 and 12 sectors with 2 damaged, up to 3 runs, 4 MFT entries in every order, a file with its data resident, in runs or in several, in an image that ends inside a cluster, an MFT with a bad cluster, a wrong size or no runs, more entries than its cap, graphs of 3 objects and 3 edges, every table, packed files of 2 members with a changed cell and a cut | each algorithm does what it is relied on for: a tree and a proof bind the leaves, what is read directly or as extents or through the cache is the image or an error, and so on |

Why the bounds are enough. Jobs: three invocations give a crash, a resume and a
resume after the resume, and limits 0 and 2 give budgets below, at and above the
saved attempt. S3: two calls and three rounds give a lost round, a lost reply, a
repeated and a late request to each call; a third call adds no new kind of
interference, since a call meets the others only as "the object changed". Cases:
four operations allow create, an interrupted attach, a second attach and a
verify, or a detach under an attach; the properties relate two documents and two
roots, and a write-back loses what one other operation did, so one clash shows
it. Job edits: one edit suffices to make what is read again differ from what the
replay id was computed of. Chain of
custody: six events are enough for two appenders to work before and after a cut,
and for ids to repeat behind damage. Writes: two requests meet on a file in
every pair of steps, and are then both let in or not, one tool has every
combination of rights at every step, and a third request can only find a file in
a state the second could find. Index: three runs are a rebuild that is killed, a
replay or a merge over what it left, and the merge that has to heal; two jobs
give an order, and an id that both find. Shards: a plan, another with more
shards or another scope over it, a worker of each, and one that runs again after
a stop. Containers: a block alone, an odd number of blocks, equal blocks, and a
pair of images with one Merkle root; two tools meet in every pair of steps;
three damaged files can make a manifest, a tree and a chunk agree. Algorithms:
seven leaves have every shape of an odd level over an even one and the reverse;
chunks are smaller than, as large as and larger than a range, and a range has
more of them than the cache, which the read before it filled; cycles, chains and
paths that meet need three nodes. The theorems take the bounds away where they
matter most.

`CHECK_DEADLOCK FALSE` where the systems are bounded sets of invocations, calls,
events or tools, and come to rest when these are used up.

### Fairness

`job_concurrent` assumes WF of `cmd_run(w)`: a started process is scheduled and
the worker command it waits for comes back (`Command::status()` has no timeout in
the code, so a worker that hangs hangs its runner; this is the assumption, not a
guarantee). `Crash` also ends an invocation but is not assumed. `s3_lossy`
assumes WF of a call's own `Get`, `Put` and `GiveUp`: the SDK has timeouts and
returns with some outcome for every request. Nothing is assumed of the server,
nor that replies arrive. All other runs check safety only and use `Spec`: the
other tools are sequences of steps that end, or ends by a bound.

## 4. Findings

One has a run, `shards_finished`: `AnalysisWorkerContext::commit` removes the
directory of the shard, and with it `shard_manifest.json`, before it renames the
staged one over it, and the result names its artifacts by their place in the
staging directory. A job whose workers all went through the context therefore
fails `offf-verify --analysis-job`, although the comment in the code says that
the result is written so that `validate_parallel_job` can find it. `Validated`
differs from `FinishedValidates` only in this.

Seen while modelling, without a run of its own. Where a property is named, it
says the most that can be said; the rest are behaviours of the models, some with
other constants than the cfg files give (a tool and a service in one instance).

* Case, overlapping. Attach and detach lose each other's updates, with every call
  returning `Ok` (`case.rs:288` writes back what `case.rs:192` read): a root is
  dropped, or a detached one active again. `RootsAdvance` says that a write loses
  nothing else. `create_case` over a case empties its registry.
* Access service, overlapping. The existence test and the write of an artefact
  are two calls, so two requests for one file both pass, and the second
  overwrites what was acknowledged (`main.rs:1764`, `main.rs:1947`;
  `docs/conformance-profiles.md:126` says that overwriting is refused).
  `ArtefactStore` promises only that nobody is let in to a file that exists, and
  that a file stays as it is once those let in before are done.
* Denials. The threat model says that all denied attempts are logged
  (`docs/threat-model.md:103`; `docs/chain-of-custody.md:102` and
  `docs/conformance-profiles.md:176` and `:182` say the same). The log is best
  effort: `log_denied_write_best_effort` (`main.rs:2379-2447`) passes over an
  append that fails (`storage.rs:164-171`), and a refused overwrite of a delta is
  not handed to it at all. No property is about the log. The lines it does write
  lack the fields that `extensions.rs` asks of denied access events.
* Job runner. The worker reads the manifest again when it is started
  (`main.rs:600`), so where it was edited under the process, a success is recorded
  under the replay id of another content than what ran. `SucceededIsJustified`
  excuses that, for the process under which it happened only.
* Chain of custody. With a service next to the tools, the service's local append
  rewrites the file it read and a tool's event is lost (`storage.rs:171`). With
  overlapping tools, two writers count the same lines and hand out the same
  `event_id` (`provenance.rs:43`). The specification wants an append-only stream
  with unique ids.
* S3: the retry loop cannot tell its own stored put from another's, so a line
  may be in the stream twice (`storage.rs:219`); `RepeatsPaidByRounds` says how
  often at most.
* `append_jsonl` of the job runner creates a log with `fs::write` after an
  existence test: two first runners in a fresh directory lose an assignment line
  (`job_concurrent` starts with logs that exist).
* An attempt number used up by a crash or a spawn error makes a job unrunnable
  with a message that calls its state terminal, though it is still "running".
* An artefact cut short by a crash counts as existing and can never be completed;
  an upload that meets another upload of the same object half-way reports a hash
  mismatch that is none.
* An event whose writer died before the newline merges with the next one into a
  line that does not parse; a failed read gives an event the id 0.
* An attach cut short between manifest and registry makes build and verify refuse
  the case until the next attach; the Parquet indexes of a case are rewritten in
  place under a manifest that names them.
* Shards: the documentation of `validate_parallel_job` (`shard.rs`, about line
  318) says that it finds inputs assigned to no shard; the issue kinds for that
  and for a coverage mismatch are never produced. The scope hash does not tell
  two layouts of one scope apart, so results of an earlier layout pass (hence
  `OneLayout`). Where the scope cannot be resolved `offf-verify` only warns, and
  where the job manifest does not parse it compares no scope
  (`main.rs:389-410`), so it accepts a job of a scope that is no more. The result
  is truncated and then written both in the staging directory and, after the
  rename, in the final one; a stop there leaves a result that ends finalize-job
  with an error. Nothing relates the number of rows of a result to its inputs.
* Containers: a container on S3 cannot pass the full verification, since the
  leaves are only read locally; one whose manifest has no hashes passes with
  warnings, which only a key prevents (`KeyPinsImage`). The verification of a
  collection ignores the root hash, the object count, provenance and removed
  rows. References of collected objects are bare hashes, which
  `read_object_verified` cannot resolve while `read_evidence_file_verified` can.
  Two collectors whose outputs have the same stem can publish a mixture, whose
  chain of provenance is broken. A conversion that fails on its arguments, or at
  the rename, leaves its temporary directory. An export that stops at an
  unreadable chunk leaves the part it wrote; only one with a wrong hash is removed.
* Each of the two object checks takes some tables that it cannot read for empty
  ones; only together do they vouch for an object (`ObjectsVouched`, a part of
  `WrittenReadsBack`).
* Readers: the depth of a lineage is documented as the length of the longest path
  from a root (`lineage.rs:154`) and is that of a breadth-first search, the
  distance from the nearest root (`DepthIsShortest`). The lineage of an object
  leaves out edges from nodes it saw before, though no ancestor. An attribute
  list adds names and streams of the extension records but not their runs, and
  the status of the file becomes "ok". The extents of a file are its clusters,
  whole: its last one is not cut to the size (`ntfs.rs:914-921`,
  `storage.rs:742-757`), the holes of a sparse file are left out, and a file
  kept within its record has none (`ntfs.rs:438-441`); the documents say that
  the bytes of the file are read from them and verified
  (`docs/object-content-ref.md:29`, `docs/filesystem-to-object-graph.md:61`).
  `FilesRebuilt` says what is read. One cluster of the MFT that cannot be read
  leaves the volume without an index. The checksum of GPT entries is not
  checked, and an unreadable sector 1 ends the detection without a look at the
  backup. If chunks of a map overlapped, the count that detects a hole in a
  range could be fooled.
* Packed files: a backslash in a name becomes a slash (`packed.rs:56`), so `a\b`
  comes back as `a/b`, and two names may become one; empty directories are
  dropped (`packed.rs:191-204`). `docs/packed-container.md:79-80` and `:102` say
  that paths are not modified and that all directories are kept. A file with ".."
  in its name can be packed and stops unpacking.

## 5. Proofs

Every theorem is checked by `tlapm` for all values of the constants, from the
assumptions named in the modules (`RetryAssumption`, `WorkersAssumption`,
`ModeAssumption`, `FileAssumption`, `S3Assumption`, `CaseAssumption`,
`CustodyAssumption`, `AccessAssumption`, `IndexAssumption`, `ShardAssumption`,
`NoFileAssumption`, `ToolsAssumption`, `ConversionAssumption`,
`ImageFilesAssumption`, `CollectionAssumption`, `CacheAssumption`,
`QuestionAssumption`, `KindsAssumption`, `GraphAssumption`): these say that
limits are numbers, a cache has room for a chunk, modes are Booleans, objects
(of an index, and of a graph) and worker ids are finitely many, converters are
not collectors, and a missing or torn file is not a document. TLC evaluates them
in every run that uses them. The type invariants are proved with the rest
(`TypeCorrect`, and `Types` in `ContainersProofs`).

* **JobRunner.** `TypeCorrect`, with the log types strengthened by `LogSeen` (a
  process that is about to append has seen a log that exists). `BudgetKept`: the
  budget is not inductive, since a resume reads the saved attempt; `BudgetInv`
  adds that the commands started so far are at most the saved attempt, that no
  state file means none was started, that one process is live, and what that
  process has still to save at each step. A torn file stops all later
  invocations, which is why the clause speaks of files that parse only.
  `SuccessJustified` holds with overlap, crashes, force and edits at any moment:
  `JustInv` carries the success from the worker's exit to the write of the file,
  and that what the worker read is what the process computed its replay id of,
  unless the manifest was edited while that very process ran.
  `LifecycleImplemented` is the refinement of `JobLifecycle`, step by step from
  the same invariants. `RunsAudited` (where `jobs/runtime` exists) counts the
  processes that have announced an attempt and not yet started its command:
  `CoverInv` says that these and the commands started so far are no more than
  the readable audit lines, with overlap, crashes and force. `AuditIdsIdentify`
  (without overlap and force) needs `AuditInv` next to `BudgetInv`: every
  attempt in the audit is at most the saved one, and smaller than the one that a
  process is still to announce.
* **S3Append.** `AckedLinesStay`, `NoRoundWithoutProgress`, `LogImplemented`. The
  invariant adds that a call that read the object and failed `n` rounds read at
  least `n` lines, so that a failed condition means the object has grown beyond
  what the call had seen: content never returns to an earlier value.
  `CopiesCostRounds` needs more (`Inv2`): a request that the server could still
  store is one of the round its call is in, or ended with (`Live`), and a call
  has as many copies as rounds unless the object has moved on in its present
  round (`CopiesPaid`), so that a late or repeated request of an earlier round
  can no longer add one.
* **CaseRegistry.** `CountDrifts`, `EventsAreJustified`, `EventIdsAreUnique`,
  `RootsOnlyAdvance`, `AttachRepairs`, for any number of processes. One part of
  `IInv` holds however operations overlap: what the copy that an operation writes
  back is worth (`Copied`: it is the registry but for its own root and those that
  others have touched), and that a manifest just written is still there if nobody
  was met (`Announced`). The other part holds until the first clash: one operation
  runs at a time (`Alone`), manifest and registry differ as `CountDrift` says
  (`Drift`), and the provenance file is good (`Good`, `Fresh`): the id of an event
  is the number of lines before it, and every claim is justified, also in a file
  cut anywhere. The first three theorems say so; after a clash none of them
  holds. `RootsOnlyAdvance` needs only the first part, and `AttachRepairs` only
  that nobody was met during the attach.
* **ChainOfCustody.** `TypeCorrect` for tools and service; `ToolsKeepAcked`,
  `ToolIdsNeverAhead`, `ToolsOnlyAppend` for any number of tools when the service
  does not write. `ToolInv` adds that an event whose newline is to come is in the
  file and that a counter never exceeds the texts in it. `DamageIsSeen`, for tools
  and requests that do not overlap, cut short anywhere: `AloneInv` says that the
  counter of a tool is the number of lines where they parse, and that the text a
  request is about to write back is as sound (`Sound`) as the file it read;
  soundness passes to every prefix of a file and to a file with a piece more.
* **AccessWrites.** `WritersHeldRights`: the invariant says of a live request that
  what it was granted so far covers the registry of the moment, so that each
  check can use the read it makes. `UploadsConverge` rests on `Filled`: an object
  that is empty or cut has somebody filling it, or an upload of it was stopped
  while it wrote. `StoreImplemented` is the refinement of `ArtefactStore`, with
  any overlap: a file with something in it was written by a request that is done
  with it (`StoreInv`), so a request that finds no body of another when it writes
  may be alone, and one that was alone and was told Ok keeps its body; each of the
  writing actions is one step of the store or none.
* **ObjectIndex.** `MergesFirstJob`, `MergesKeep`, `MergesHeal`,
  `RefusalsHaveReason`, `ReplaysLastEvent`, for any number of jobs, file systems,
  index files, ids and runs. `IInv` says what a merge has gathered from the
  deltas it has read and written to the files it has passed (`Gathered`,
  `Written`), that the rows of before are in the index or the map (`KeptSoFar`),
  what a rebuild renders (`Rendered`), that a replay has applied a prefix of the
  log (`ReplayedSoFar`), and (`Closed`, `ClosedMap`) that an id without its
  object is one that a job's object delta names, which is why the next merge
  heals it, however the runs before it were killed.
* **ShardedJob.** `InputsOnce`, `AcceptedComplete`, `ResultsSurvive`, for any
  objects, layouts and numbers of shards. Inductive are: every manifest, result
  and worker has the inputs that one of the layouts of its scope gives to its
  shard (`Laid`); what commit has staged is whole before it removes anything
  (`Staged`), and a shard without a whole result had its last writer stopped;
  the plan and the manifests written so far are those of one call (`Fresh`).
  `InputsPartition` and `PositionsDiffer` are the facts about layouts: no object
  is left out, none is given twice, and ids by place tell objects apart.
  `CoverageAdds` is about the sums of the coverage report: the sum of the sizes of
  disjoint sets is the size of their union, so the counted results of one layout
  add up to its scope, with any number of rows. `AcceptedComplete` speaks of the
  scope of the index where the verification could resolve it, and of that of the
  plan where it could not.
* **Containers.** The inductive invariant is `Types /\ SettingOk /\ ConvInv /\
  CollectInv /\ OutInv /\ OwnInv`. `ConvInv`: a converter has in its temporary
  directory exactly what it has written so far, the first `n` chunks with their
  rows, and then the first `k` files, each as its image makes it. `CollectInv`: a
  collector has listed the first `n` of its files; of the shared directory, which
  any other may clear, it says only that index and manifest are each that of some
  collector that has begun. `OutInv`: an output holds nothing, a container or a
  collection, with a map and rows that are those of some image or file tree
  however damaged; before any damage a reported container is exactly that of its
  image, and it is reported by one converter. `OwnInv`: a collector that met no
  other runs alone and has in the directory the first `n` of its files, and after
  it published, all of them in its output. From it follow `PublishedWhole`,
  `VouchedFor` (the tree, the rows and the manifest that are accepted together
  agree on the hash of each chunk, and the map is that of some image) and
  `CollectionIsWhole`, for any images, file trees, tools and outputs.
* **Trees**, in the same module, for any number of leaves: `TreeRoundTrip`,
  `ProofsVerify`, `RootBinds` (level by level, down from the root) and
  `StoredTreeBinds` (the number of nodes tells the number of leaves, and count
  and root bind all nodes). From these `TreesBound` proves `TreesBind` of every
  question; the invariant (`TreesAsked`) is that a question about a stored tree
  has at most one change and one about a proof has places within the tree.
* **Ranges**, for images of any size in any pieces, of which any are missing or
  damaged. `RangesReadExactly`: the bytes that `read_bytes_at` counts are those
  that the chunks have of the range, as chunks of one image do not overlap, so it
  reads too few exactly if a byte is in no chunk. `ExtentsReadExactly`: extent by
  extent. `CacheReadsExactly`: the state of a cache is sound (`CacheSound`) if it
  has entries of good chunks only, with their bytes, and no more than its limit;
  every visit of a chunk keeps that, whatever it evicts, and adds exactly the
  bytes of the chunk (`ReadSoFar`, `VisitReads`), in whatever order the chunks are
  visited. So any sequence of reads through one cache is a sequence of direct
  reads. `RefsReadExactly`: a chunk is referred to exactly if it has a byte of the
  range. From the four `RangesAnswered` proves `ReadsExact` of every question; the
  invariant (`RangesAsked`) is that its map is made of pieces of the image.
* **Object graph**, in `ObjectIndexProofs`, for any number of objects and edges.
  `CyclesAlwaysFound`: the depth-first search keeps `Searching`. Its path is one of
  edges between nodes that were visited, each once; a row that was looked at leads
  to a reported cycle, to a node that is done, or to the next of the path (`Ahead`);
  and the nodes that are done can be ranked such that an edge leads to a lower rank
  or to a reported cycle (`Ranked`). Along a cycle no rank can fall all the way, so
  one of its nodes is on a cycle that was reported, and of the same component
  (`CycleReported`); and where none is reported the ranks, counted from the other
  end, are the generations of a valid graph (`GenerationsExist`). Each step leaves
  less to look at (`Work`), so the steps of the model are enough.
  `LineageAlwaysTold`: the lineage of an object has, while it is searched, the
  ancestors seen or in the queue and no other (`Climbing`), and what is seen in the
  end has all parents of its nodes. For the depth, `Descending` says that the queue
  is in the order of depth and spans two depths at most, that what lies less deep
  than its first is seen, and that of that depth what is not seen is in the queue;
  so a node that is seen for the first time is as deep as it is far from the
  nearest root, and the depth is the number of the last layer that has grown, of
  which there are no more than objects (`LayersFew`). The two together are
  `GraphsAlwaysAnswered`.

The prover has no induction rule that could be used for recursive functions and
folds. Induction is done by hand instead: a set of numbers without some number
would have a least one (`NatInd`), a family of finite subsets without some
subset a minimal one (`SubsetInd`), both from the well-foundedness of `<` and of
strict inclusion. What a recursive function is follows from the existence of
some function with its equation, which is built up to each number
(`LevelOfExists`, `HalvingExists`, `FlattenExists`, `SummingExists`,
`ChainExists`, `LayerOfExists`). Each invariant was checked by TLC on the
instance of its run before it was proved.

Only model-checked: liveness (`InvocationEnds`, `CallEnds`), which the prover
cannot do; and `PartitionsFound`, `FilesIndexed` and `WrittenReadsBack` of
`Algorithms`, some of which are statements about particular disks and tables,
for which TLC's enumeration is the argument, and others about functions that
follow a circular structure for a bounded number of steps.

## 6. Plan

The plan of the project has been carried out: the core (jobs, logs, cases,
service), then index, shards, publication with verification, and the algorithms.
What could still be added, in the order of what it would say most:

1. proofs: run lists and the columns of the Parquet tables;
2. the streaming readers and the S3 form of reads, with the listing of objects
   while others write;
3. the checks of extension events, and the keyword and YARA tables, which have
   the shape of those in `Tables`;
4. byte layouts: boot sectors, fixups and attribute headers.

## 7. Not modelled

* `offf-migrate`: the crate takes optional hashes of a manifest for present ones
  and is not a member of the workspace, so there is no program to model.
* Types and errors (data declarations), the Python and Go clients (readers of
  the same formats), workers (programs outside the repository; their exit status
  is in `JobRunner`), scripts and test drivers (used as statements of intent).
* Of the modelled parts: encodings (Parquet, JSON, EWF, byte layouts), hashing as
  arithmetic (a hash is identified with what it hashes), authentication secrets,
  HTTP and gRPC framing, messages and reports, versions, schemas and legacy
  containers in `offf-verify`, object, keyword and YARA variants of the create
  commands, listing and streaming reads. `PROJECT.json` says it per component.

Outside assumptions: an `O_APPEND` write of one buffer is not interleaved with
another; `rename` replaces a file at once, and fails on a directory that is not
empty; S3 evaluates a condition and stores atomically, and is read-after-write
consistent.
