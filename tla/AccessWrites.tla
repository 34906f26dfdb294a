---------------------------- MODULE AccessWrites ----------------------------
(***************************************************************************)
(* The writing endpoints of the access service                             *)
(* (offf-access-service/src/main.rs), over REST and gRPC alike: analysis   *)
(* results, object, edge and derivation deltas, and materialized objects.  *)
(* A request passes authentication, role, tool registry and, for objects,  *)
(* capability; then the service asks whether the file exists and writes    *)
(* it.  Requests run side by side without a lock, and the tool registry    *)
(* file is read anew by each check.  Writes go to a local container, where *)
(* fs::write truncates and then writes; an S3 put is the case in which     *)
(* nothing comes between the two.                                          *)
(***************************************************************************)
CONSTANTS
    Requests,       \* write requests
    Tools,          \* tool ids
    Results,        \* analysis/jobs/<job>/<file>.jsonl, other than the next
    Deltas,         \* analysis/jobs/<job>/objects_delta.jsonl and its siblings
    Bodies,         \* contents, not empty; the paths of materialized objects are named
                    \* by their hash, which is identified with the content
    MayStop,        \* TRUE: the service is killed and writes fail
    RegistryEdits,  \* TRUE: the tool registry is edited under the service
    NoFile, Empty, Cut, Mixed, Out  \* see ArtefactStore

Paths == Results \cup Deltas

Files == Paths \cup Bodies

Contents == Bodies \cup {NoFile, Empty, Cut, Mixed}

\* What the registry says of a tool: approved with role and layer, and the
\* capability of the object endpoints.
Rights == [approved : BOOLEAN, capable : BOOLEAN]

ASSUME AccessAssumption ==
    /\ MayStop \in BOOLEAN /\ RegistryEdits \in BOOLEAN
    /\ Paths \cap Bodies = {} /\ Results \cap Deltas = {}
    /\ {NoFile, Empty, Cut, Mixed} \cap Bodies = {}
    /\ NoFile \notin {Empty, Cut, Mixed} /\ Empty \notin {Cut, Mixed} /\ Cut # Mixed
    /\ Out \notin [at : {"in", "told", "gone"}, path : Paths, body : Bodies]
    /\ Tools # {} /\ Bodies # {}

VARIABLES
    store,     \* the files of the container that these endpoints write
    registry,  \* config/tool-registry.json
    req,       \* the requests
    denied,    \* the requests with a line in the log of denied writes
    held       \* history: what the registry granted a request's tool so far

vars == <<store, registry, req, denied, held>>

Steps == {"idle", "auth", "registry", "capability", "exists", "compare", "create",
          "fill", "ok", "denied", "failed", "cut"}

\* write_analysis_results, the three delta endpoints, write_materialized_object.
Endpoints == {"results", "delta", "derived"}

Request == [pc : Steps, endpoint : Endpoints, tool : Tools, path : Files, body : Bodies]

-----------------------------------------------------------------------------
Goto(r, step) == req' = [req EXCEPT ![r] = [@ EXCEPT !.pc = step]]

Live(r) == req[r].pc \notin {"idle", "ok", "denied", "failed", "cut"}

\* The path of analysis results is the client's; the others are built by the
\* service, that of an object from the hash of the body it received.
PathsOf(endpoint, body) ==
    CASE endpoint = "results" -> Paths
      [] endpoint = "delta"   -> Deltas
      [] endpoint = "derived" -> {body}

TypeOK ==
    /\ store \in [Files -> Contents]
    /\ \A b \in Bodies : store[b] \in {NoFile, Empty, Cut, b}
    /\ registry \in [Tools -> Rights]
    /\ req \in [Requests -> Request]
    /\ \A r \in Requests : req[r].path \in PathsOf(req[r].endpoint, req[r].body)
    /\ denied \subseteq Requests
    /\ held \in [Requests -> Rights]

\* log_denied_write_best_effort: nothing is logged when the case cannot be
\* resolved or the append fails.  The append itself is that of ChainOfCustody.
LogDenied(r) == denied' \in {denied, denied \cup {r}}

Init ==
    /\ store = [f \in Files |-> NoFile]
    /\ registry \in [Tools -> Rights]
    /\ req = [r \in Requests |->
                 [pc |-> "idle", endpoint |-> "derived", tool |-> CHOOSE t \in Tools : TRUE,
                  path |-> CHOOSE b \in Bodies : TRUE, body |-> CHOOSE b \in Bodies : TRUE]]
    /\ denied = {}
    /\ held = [r \in Requests |-> [approved |-> FALSE, capable |-> FALSE]]

\* A request arrives.
Receive(r) ==
    /\ req[r].pc = "idle"
    /\ \E e \in Endpoints, t \in Tools, b \in Bodies : \E f \in PathsOf(e, b) :
          /\ req' = [req EXCEPT ![r] =
                        [pc |-> "auth", endpoint |-> e, tool |-> t, path |-> f, body |-> b]]
          /\ held' = [held EXCEPT ![r] = registry[t]]
    /\ UNCHANGED <<store, registry, denied>>

Either(a, b) == [approved |-> a.approved \/ b.approved, capable |-> a.capable \/ b.capable]

\* The operator edits the registry of tools.
EditRegistry ==
    /\ RegistryEdits
    /\ \E t \in Tools, rights \in Rights :
          /\ registry' = [registry EXCEPT ![t] = rights]
          /\ held' = [r \in Requests |->
                        IF Live(r) /\ req[r].tool = t THEN Either(held[r], rights) ELSE held[r]]
    /\ UNCHANGED <<store, req, denied>>

-----------------------------------------------------------------------------
(* The checks.                                                             *)

\* actor_from_headers, actor_from_metadata and can_write_analysis.
Authenticate(r) ==
    /\ req[r].pc = "auth"
    /\ Goto(r, "registry")
    /\ UNCHANGED <<store, registry, denied, held>>

\* A denial by authentication, role, registry or capability goes to the log,
\* and so does a registry that cannot be read.
Deny(r) ==
    /\ \/ req[r].pc = "auth"
       \/ req[r].pc = "registry" /\ (MayStop \/ ~registry[req[r].tool].approved)
       \/ req[r].pc = "capability" /\ (MayStop \/ ~registry[req[r].tool].capable)
    /\ LogDenied(r)
    /\ Goto(r, "denied")
    /\ UNCHANGED <<store, registry, held>>

\* Mutant: the capability is not asked for.
enforce_tool_registry_only(r) ==
    /\ req[r].pc = "registry"
    /\ registry[req[r].tool].approved
    /\ Goto(r, "exists")
    /\ UNCHANGED <<store, registry, denied, held>>

enforce_tool_registry(r) ==
    /\ req[r].pc = "registry"
    /\ registry[req[r].tool].approved
    /\ Goto(r, IF req[r].endpoint = "results" THEN "exists" ELSE "capability")
    /\ UNCHANGED <<store, registry, denied, held>>

enforce_capability(r) ==
    /\ req[r].pc = "capability"
    /\ registry[req[r].tool].capable
    /\ Goto(r, "exists")
    /\ UNCHANGED <<store, registry, denied, held>>

\* Mutant: an existing file is not a reason to refuse.
Absent_always(r) ==
    /\ req[r].pc = "exists"
    /\ Goto(r, "create")
    /\ UNCHANGED <<store, registry, denied, held>>

\* The file does not exist.
Absent(r) ==
    /\ req[r].pc = "exists"
    /\ store[req[r].path] = NoFile
    /\ Goto(r, "create")
    /\ UNCHANGED <<store, registry, denied, held>>

\* The handler of analysis results tries to log every refusal: an existing
\* file, an illegal path, too many rows.  The handlers of the deltas return "refusing
\* to overwrite existing artifact" through `?`.
Refuse(r) ==
    /\ req[r].pc = "exists"
    /\ \/ req[r].endpoint = "results" /\ LogDenied(r)
       \/ req[r].endpoint = "delta" /\ store[req[r].path] # NoFile /\ UNCHANGED denied
    /\ Goto(r, "denied")
    /\ UNCHANGED <<store, registry, held>>

\* A request that names no case, or whose rows or job id are not accepted.
Reject(r) ==
    /\ req[r].pc = "exists"
    /\ Goto(r, "failed")
    /\ UNCHANGED <<store, registry, denied, held>>

\* write_derived_object: what is there must have the hash of the new body.
Present(r) ==
    /\ req[r].pc = "exists"
    /\ req[r].endpoint = "derived"
    /\ store[req[r].path] # NoFile
    /\ Goto(r, "compare")
    /\ UNCHANGED <<store, registry, denied, held>>

Compare(r) ==
    /\ req[r].pc = "compare"
    /\ Goto(r, IF store[req[r].path] = req[r].body THEN "ok" ELSE "failed")
    /\ UNCHANGED <<store, registry, denied, held>>

-----------------------------------------------------------------------------
(* ContainerRef::write_bytes.                                              *)

Create(r) ==
    /\ req[r].pc = "create"
    /\ store' = [store EXCEPT ![req[r].path] = Empty]
    /\ Goto(r, "fill")
    /\ UNCHANGED <<registry, denied, held>>

\* Mutant: objects are stored encoded, and two encodings of one may differ.
Covered_encoded(r) == store[req[r].path] = Empty

\* What is in the file is covered by the body of this request: nothing, the
\* same bytes, or (materialized objects) a part of them.
Covered(r) ==
    store[req[r].path] \in {Empty, req[r].body} \cup (IF req[r].path \in Bodies THEN {Cut} ELSE {})

\* The body goes to the start of the file; what another writer made longer
\* than it stays behind it.
Fill(r) ==
    /\ req[r].pc = "fill"
    /\ \E c \in {req[r].body} \cup (IF Covered(r) THEN {} ELSE {Mixed}) :
          store' = [store EXCEPT ![req[r].path] = c]
    /\ Goto(r, "ok")
    /\ UNCHANGED <<registry, denied, held>>

\* The handler of analysis results takes a failure to write for a denial.
LogFailure(r) ==
    IF req[r].endpoint = "results" THEN LogDenied(r) ELSE UNCHANGED denied

\* The service is killed, or a read or write fails, before this request has
\* touched its file.
Stop(r) ==
    /\ MayStop
    /\ Live(r) /\ req[r].pc # "fill"
    /\ IF req[r].pc \in {"exists", "create"} THEN LogFailure(r) ELSE UNCHANGED denied
    /\ Goto(r, "failed")
    /\ UNCHANGED <<store, registry, held>>

\* Or while it writes, when nothing, a part or all of its body is in the file,
\* and what another request wrote there is left, or is not.
StopWriting(r) ==
    /\ MayStop
    /\ req[r].pc = "fill"
    /\ \/ UNCHANGED store
       \/ \E c \in {req[r].body, IF Covered(r) THEN Cut ELSE Mixed} :
             /\ c = req[r].body \/ store[req[r].path] # req[r].body
             /\ store' = [store EXCEPT ![req[r].path] = c]
    /\ LogFailure(r)
    /\ Goto(r, "cut")
    /\ UNCHANGED <<registry, held>>

-----------------------------------------------------------------------------
Serve(r) ==
    \/ Receive(r) \/ Authenticate(r) \/ Deny(r)
    \/ enforce_tool_registry(r) \/ enforce_capability(r)
    \/ Absent(r) \/ Refuse(r) \/ Reject(r) \/ Present(r) \/ Compare(r)
    \/ Create(r) \/ Fill(r) \/ Stop(r) \/ StopWriting(r)

Next == EditRegistry \/ \E r \in Requests : Serve(r)

Spec == Init /\ [][Next]_vars

-----------------------------------------------------------------------------
(* Properties.                                                             *)

Writing(f) == \E r \in Requests : req[r].pc \in {"create", "fill"} /\ req[r].path = f

\* Nothing is written for a tool that was at no moment of its request approved
\* or, on the object endpoints, at no moment capable, however the registry is
\* edited between the two reads of it.
RightsHeld ==
    \A r \in Requests : req[r].pc \in {"create", "fill", "ok"} =>
        /\ held[r].approved
        /\ req[r].endpoint # "results" => held[r].capable

\* Content addressing makes overlapping uploads of one object converge: once no
\* upload of it runs, a materialized object is whole, and it is there if an
\* upload was told so -- unless an upload of it was stopped while it wrote, be
\* it one that had found no file and went on after another was acknowledged.
DerivedConverge ==
    \A b \in Bodies : ~Writing(b) =>
        \/ store[b] = b
        \/ store[b] = NoFile /\ \A r \in Requests : req[r].path = b => req[r].pc # "ok"
        \/ \E r \in Requests : req[r].path = b /\ req[r].pc = "cut"

-----------------------------------------------------------------------------
\* Where a request to write a job file stands.
Standing(pc) ==
    CASE pc \in {"create", "fill"} -> "in"
      [] pc = "ok"  -> "told"
      [] pc = "cut" -> "gone"

AsWriter(r) ==
    IF req[r].path \in Paths /\ req[r].pc \in {"create", "fill", "ok", "cut"}
    THEN [at |-> Standing(req[r].pc), path |-> req[r].path, body |-> req[r].body]
    ELSE Out

Store == INSTANCE ArtefactStore WITH
    Writers <- Requests,
    store <- [p \in Paths |-> store[p]],
    writer <- [r \in Requests |-> AsWriter(r)]

\* Under any overlap of requests, failures and refusals, the service lets nobody
\* write a job file that exists, a file that nobody is let in to any more stays
\* as it is, and a request that was the only one let in to its file and was told
\* Ok has its body there, for good.  Of requests that asked before the file was
\* there, the last to write wins, although each was told Ok.
ImplementsStore == Store!Spec
=============================================================================
