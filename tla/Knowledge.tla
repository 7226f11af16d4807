------------------------------ MODULE Knowledge ------------------------------
(***************************************************************************)
(* rag-service: the knowledge base of one workspace. A source - a document,*)
(* a web page, a sheet, a question with its answer - has a row in          *)
(* PostgreSQL, the texts of documents and sheets rows of their own, and    *)
(* each text a vector in Pinecone. Requests write both sides statement by  *)
(* statement and call by call, with nothing that holds them together.      *)
(* File storage and the extraction of uploaded files are left out.         *)
(***************************************************************************)
EXTENDS KnowledgeText, SheetsGrant

CONSTANTS
    Jobs,         \* the requests under way, one at a time each
    Docs, Pages, Sheets, Questions,
    Sentences,    \* what texts are made of: [text, len, inside]
    Contents,     \* what a document may say
    ChunkSizes,   \* the chunk_size of a request
    PageWords,    \* how long a page may be, in words
    Matrices,     \* what a sync may read of a sheet: all its rows, or what the cap
                  \* of 1000 or a read that breaks off leaves of them
    Namespaces,
    Names,
    Batch,        \* vectors in one call of Pinecone
    None

Items == Docs \cup Pages \cup Sheets \cup Questions

Statuses == {"indexing", "indexed", "pending", "error"}

Size(size) == IF size <= 0 THEN 512 ELSE size

\* What the row of a source may hold: the content and chunk_size of a document,
\* the words of a page and the cells of a sheet when it was read last.
Source(i) ==
    CASE i \in Docs   -> [text : Contents, size : {Size(n) : n \in ChunkSizes}]
      [] i \in Pages  -> PageWords
      [] i \in Sheets -> Matrices
      [] OTHER        -> {i}

\* pid says if pinecone_id is set.
Row(i) == [ns : Namespaces, gen : Nat, status : Statuses, pid : BOOLEAN, src : Source(i)]

\* The texts that a source is embedded as.
PartsOf(i, src) ==
    CASE i \in Docs   -> chunkText(src.text, src.size)
      [] i \in Pages  -> chunkTextWithOverlap(src, 500, 50)
      [] i \in Sheets -> parseTableWithSmartAnalysis(src)
      [] OTHER        -> <<src>>

ASSUME KnowledgeAssumption ==
    /\ Users = Jobs
    /\ Batch \in Nat \ {0}
    /\ Names \cap {"new", "gone"} = {}
    /\ Docs \cap (Pages \cup Sheets \cup Questions) = {} /\ Pages \cap (Sheets \cup Questions) = {}
    /\ Sheets \cap Questions = {}
    /\ ChunkSizes \subseteq Int /\ PageWords \subseteq Nat
    /\ None \notin Items /\ None \notin Jobs /\ \A i \in Items : None \notin Row(i)

\* A sentence has its bytes, some of them within a letter; a document says
\* sentences, and a sheet has rows of cells.
ASSUME TextsAssumption ==
    /\ \A s \in Sentences : s.len \in Nat \ {0} /\ s.inside \subseteq 1..(s.len - 1)
    /\ Contents \subseteq Seq(Sentences)
    /\ Matrices \subseteq Seq(Seq(STRING))

VARIABLES
    upload,       \* what the owner has to say in each document, and its chunk_size
    namespaces,   \* the name of each, "new" or "gone": their Pinecone namespace
    rows,         \* the row of each source, or None
    made,         \* how many rows a source has had: every row has an id of its own
    texts,        \* knowledge_chunks and knowledge_table_rows
    vectors,      \* what Pinecone holds
    job,          \* what each request is doing
    gaps          \* history: what failed or overlapped, per source

knowledgeVars == <<upload, namespaces, rows, made, texts, vectors, job, gaps>>
vars == <<grantVars, knowledgeVars>>

NoJob == [op |-> None, item |-> None, ns |-> None, src |-> None, pc |-> "idle",
          name |-> "", gen |-> 0, ids |-> {}, next |-> 1, embedded |-> FALSE,
          status |-> "indexed"]

TypeOK ==
    /\ GrantTypeOK
    /\ namespaces \in [Namespaces -> Names \cup {"new", "gone"}]
    /\ \A m, n \in Namespaces : m # n /\ namespaces[m] = namespaces[n] => namespaces[m] \notin Names
    /\ DOMAIN rows = Items
    /\ \A i \in Items : \/ rows[i] = None
                        \/ rows[i] \in Row(i) /\ namespaces[rows[i].ns] \in Names
    /\ \A t \in texts : rows[t.item] # None /\ rows[t.item].gen = t.gen
    /\ \A v \in vectors : v.ns \in Names /\ v.item \in Items /\ v.gen <= made[v.item]
    /\ gaps \in [Items -> SUBSET {"unsent", "unready", "removed", "moved", "overlap",
                                  "kept", "late", "unstored"}]

Init ==
    /\ GrantInit
    /\ upload \in [Docs -> [text : Contents, size : ChunkSizes]]
    /\ namespaces = [n \in Namespaces |-> "new"]
    /\ rows = [i \in Items |-> None]
    /\ made = [i \in Items |-> 0]
    /\ texts = {}
    /\ vectors = {}
    /\ job = [j \in Jobs |-> NoJob]
    /\ gaps = [i \in Items |-> {}]

Stored(n) == namespaces[n] \in Names
Alive(j) == rows[job[j].item] # None /\ rows[job[j].item].gen = job[j].gen

Set(j, r) == job' = [job EXCEPT ![j] = r]
To(j, pc) == Set(j, [job[j] EXCEPT !.pc = pc])
Gap(i, g) == gaps' = [gaps EXCEPT ![i] = @ \cup g]

At(j, op, pc) == job[j].op = op /\ job[j].pc = pc

-----------------------------------------------------------------------------
(* The requests. *)

Begin(j, op, i, n, src) ==
    /\ job[j].pc = "idle" /\ namespaces[n] # "new"
    /\ Set(j, [NoJob EXCEPT !.op = op, !.item = i, !.ns = n, !.src = src, !.pc = "ns"])
    /\ Gap(i, IF op \in {"web", "sync"} /\ \E k \in Jobs : job[k].op = op /\ job[k].item = i
              THEN {"overlap"} ELSE {})
    /\ UNCHANGED <<grantVars, upload, namespaces, rows, made, texts, vectors>>

Fresh(i) == made[i] = 0 /\ \A k \in Jobs : job[k].item # i

\* Create, and Upload once it has a text that is not blank.
CreateDocument(j) ==
    \E d \in Docs, n \in Namespaces :
        /\ Fresh(d)
        /\ Begin(j, "create", d, n, [upload[d] EXCEPT !.size = Size(@)])

AddPage(j) ==
    \E p \in Pages, n \in Namespaces, words \in PageWords : Begin(j, "web", p, n, words)

CreateQA(j) == \E q \in Questions, n \in Namespaces : Fresh(q) /\ Begin(j, "qa", q, n, q)

SyncSheet(j) ==
    \E s \in Sheets, n \in Namespaces, m \in Matrices : Begin(j, "sync", s, n, m)

\* GetByID of the namespace.
GetNamespace(j) ==
    /\ job[j].pc = "ns"
    /\ IF Stored(job[j].ns)
       THEN Set(j, [job[j] EXCEPT !.name = namespaces[job[j].ns],
                                  !.pc = CASE job[j].op = "qa"   -> "embed"
                                           [] job[j].op = "sync" -> "fetch"
                                           [] OTHER              -> "row"])
       ELSE Set(j, NoJob)
    /\ UNCHANGED <<grantVars, upload, namespaces, rows, made, texts, vectors, gaps>>

\* A new row: its namespace must still be there. A failed INSERT ends the request.
InsertRow(j, status, then) ==
    LET i == job[j].item
    IN  IF Stored(job[j].ns)
        THEN /\ rows' = [rows EXCEPT ![i] = [ns |-> job[j].ns, gen |-> made[i] + 1, status |-> status,
                                             pid |-> FALSE, src |-> job[j].src]]
             /\ made' = [made EXCEPT ![i] = @ + 1]
             /\ Set(j, [job[j] EXCEPT !.pc = then, !.gen = made[i] + 1])
        ELSE Set(j, NoJob) /\ UNCHANGED <<rows, made>>

-----------------------------------------------------------------------------
(* Embedding and upsert, for every kind of source. *)

Parts(j) == PartsOf(job[j].item, job[j].src)

\* A page keeps its status pending when it could not be embedded.
PageEmbedded(r, ok) == [r EXCEPT !.pc = IF ok THEN "vectors" ELSE "status"]

\* A document and a question are stored all the same; a sheet and a reindexed
\* document stay as they were.
AfterEmbedding(r, ok) ==
    CASE r.op = "create" -> [r EXCEPT !.pc = "texts"]
      [] r.op = "qa"     -> [r EXCEPT !.pc = "row"]
      [] r.op = "web"    -> PageEmbedded(r, ok)
      [] OTHER           -> IF ok THEN [r EXCEPT !.pc = "vectors"] ELSE NoJob

\* External: the provider embeds all texts or fails.
EmbedBatch(j) ==
    /\ job[j].pc = "embed"
    /\ \E ok \in IF MayFail THEN BOOLEAN ELSE {TRUE} :
         Set(j, AfterEmbedding([job[j] EXCEPT !.embedded = ok,
                                              !.status = IF ok THEN "indexed" ELSE "pending"], ok))
    /\ UNCHANGED <<grantVars, upload, namespaces, rows, made, texts, vectors, gaps>>

\* An upsert for a source that is gone, or whose Delete has passed its vectors.
Late(j) ==
    \/ ~Alive(j)
    \/ \E k \in Jobs : job[k].pc = "drop" /\ job[k].item = job[j].item
    \/ \E k \in Jobs : At(k, "deletedoc", "vectors") /\ job[k].item = job[j].item
    \/ \E k \in Jobs : At(k, "deletens", "drop") /\ job[k].name = job[j].name

FirstOf(S, n) == {x \in S : Cardinality({y \in S : y <= x}) <= n}

Upserted(j, n) == {[ns |-> job[j].name, item |-> job[j].item, gen |-> job[j].gen, idx |-> x] :
                      x \in FirstOf(job[j].ids, n)}

\* Mutant: a sheet and a reindexed document ignore a failing upsert as well.
UpsertVectorsMutant(j) ==
    /\ job[j].pc = "vectors" /\ job[j].op \in {"create", "reindex", "web", "qa", "sync"}
    /\ \E n \in 0..Cardinality(job[j].ids) :
         LET all == n = Cardinality(job[j].ids)
             failed == IF all \/ job[j].op \in {"sync", "reindex"} THEN {} ELSE {"unsent"}
             late == IF Late(j) /\ n > 0 THEN {"late"} ELSE {}
         IN  /\ all \/ (MayFail /\ n % Batch = 0)
             /\ vectors' = vectors \cup Upserted(j, n)
             /\ gaps' = [gaps EXCEPT ![job[j].item] = @ \cup failed \cup late]
             /\ IF job[j].op = "qa" THEN Set(j, NoJob) ELSE To(j, "status")
    /\ UNCHANGED <<grantVars, upload, namespaces, rows, made, texts>>

\* UpsertVectors goes batch by batch and stops at the first that fails. For a
\* document, a page and a question that is ignored.
UpsertVectors(j) ==
    /\ job[j].pc = "vectors" /\ job[j].op \in {"create", "reindex", "web", "qa", "sync"}
    /\ \E n \in 0..Cardinality(job[j].ids) :
         LET all == n = Cardinality(job[j].ids)
             failed == IF all \/ job[j].op \in {"sync", "reindex"} THEN {} ELSE {"unsent"}
             late == IF Late(j) /\ n > 0 THEN {"late"} ELSE {}
         IN  /\ all \/ (MayFail /\ n % Batch = 0)
             /\ vectors' = vectors \cup Upserted(j, n)
             /\ gaps' = [gaps EXCEPT ![job[j].item] =
                            (IF all /\ ~Late(j) THEN @ \ {"unsent"} ELSE @) \cup failed \cup late]
             /\ IF job[j].op = "qa" \/ (~all /\ job[j].op \in {"sync", "reindex"})
                THEN Set(j, NoJob) ELSE To(j, "status")
    /\ UNCHANGED <<grantVars, upload, namespaces, rows, made, texts>>

\* Without Pinecone - it is not configured, or could not be reached when the
\* service started - the upsert is skipped, and nothing else: a document, a
\* reindexed one too, and a page become indexed all the same.
SkipVectors(j) ==
    /\ MayFail
    /\ job[j].pc = "vectors" /\ job[j].op \in {"create", "reindex", "web", "qa"}
    /\ Gap(job[j].item, {"unsent"})
    /\ IF job[j].op = "qa" THEN Set(j, NoJob) ELSE To(j, "status")
    /\ UNCHANGED <<grantVars, upload, namespaces, rows, made, texts, vectors>>

\* The last UPDATE, whose error is ignored.
SetStatus(j) ==
    /\ job[j].pc = "status"
    /\ \/ rows' = IF Alive(j) THEN [rows EXCEPT ![job[j].item].status = job[j].status] ELSE rows
       \/ MayFail /\ UNCHANGED rows
    /\ Set(j, NoJob)
    /\ UNCHANGED <<grantVars, upload, namespaces, made, texts, vectors, gaps>>

-----------------------------------------------------------------------------
(* Documents. *)

InsertDocument(j) ==
    /\ At(j, "create", "row")
    /\ InsertRow(j, "indexing", "embed")
    /\ UNCHANGED <<grantVars, upload, namespaces, texts, vectors, gaps>>

\* One INSERT per chunk. A chunk cut within a letter is not UTF-8, and the
\* request ends there, as it does when the document is gone.
InsertChunk(j) ==
    /\ At(j, "create", "texts")
    /\ LET chunks == Parts(j)
           x == job[j].next
       IN  CASE x > Len(chunks) ->
                  /\ Set(j, [job[j] EXCEPT !.pc = IF job[j].embedded THEN "vectors" ELSE "status",
                                           !.ids = DOMAIN chunks])
                  /\ UNCHANGED texts
             [] x <= Len(chunks) /\ Alive(j) /\ Readable(chunks[x]) ->
                  \/ /\ texts' = texts \cup {[item |-> job[j].item, gen |-> job[j].gen, idx |-> x,
                                              text |-> chunks[x], by |-> j]}
                     /\ Set(j, [job[j] EXCEPT !.next = x + 1])
                  \/ MayFail /\ Set(j, NoJob) /\ UNCHANGED texts
             [] OTHER -> Set(j, NoJob) /\ UNCHANGED texts
    /\ UNCHANGED <<grantVars, upload, namespaces, rows, made, vectors, gaps>>

Ids(i) == {t.idx : t \in {u \in texts : u.item = i}}

\* Reindex takes a document in any status, with the chunks it has by then.
Reindex(j) ==
    /\ job[j].pc = "idle"
    /\ \E d \in Docs :
         /\ rows[d] # None
         /\ Set(j, [NoJob EXCEPT !.op = "reindex", !.item = d, !.pc = "chunks", !.gen = rows[d].gen,
                                 !.ns = rows[d].ns, !.name = namespaces[rows[d].ns]])
         /\ Gap(d, IF rows[d].status = "indexing" THEN {"unready"} ELSE {})
    /\ UNCHANGED <<grantVars, upload, namespaces, rows, made, texts, vectors>>

ReadChunks(j) ==
    /\ At(j, "reindex", "chunks")
    /\ LET ids == Ids(job[j].item)
       IN  IF ids = {} THEN Set(j, NoJob) ELSE Set(j, [job[j] EXCEPT !.pc = "embed", !.ids = ids])
    /\ UNCHANGED <<grantVars, upload, namespaces, rows, made, texts, vectors, gaps>>

DeleteDocument(j) ==
    /\ job[j].pc = "idle"
    /\ \E d \in Docs :
         /\ rows[d] # None
         /\ Set(j, [NoJob EXCEPT !.op = "deletedoc", !.item = d, !.pc = "ids",
                                 !.name = namespaces[rows[d].ns]])
    /\ UNCHANGED <<grantVars, upload, namespaces, rows, made, texts, vectors, gaps>>

\* Mutant: the ids are read when the row, and its chunks with it, is gone.
ReadIdsMutant(j) ==
    /\ At(j, "deletedoc", "ids")
    /\ rows' = [rows EXCEPT ![job[j].item] = None]
    /\ texts' = {t \in texts : t.item # job[j].item}
    /\ Set(j, [job[j] EXCEPT !.pc = "vectors", !.ids = {}])
    /\ UNCHANGED <<grantVars, upload, namespaces, made, vectors, gaps>>

\* The ids of the chunks; if they cannot be read the vectors stay.
ReadIds(j) ==
    /\ At(j, "deletedoc", "ids")
    /\ \/ /\ Set(j, [job[j] EXCEPT !.pc = "vectors", !.ids = Ids(job[j].item)])
          /\ UNCHANGED gaps
       \/ MayFail /\ To(j, "drop") /\ Gap(job[j].item, {"kept"})
    /\ UNCHANGED <<grantVars, upload, namespaces, rows, made, texts, vectors>>

\* DeleteVectors logs what fails, batch by batch; without Pinecone it is skipped.
DeleteVectors(j) ==
    /\ job[j].pc = "vectors" /\ job[j].op \in {"deletedoc", "deleteqa"}
    /\ \/ /\ vectors' = {v \in vectors : ~(/\ v.ns = job[j].name /\ v.item = job[j].item
                                           /\ v.idx \in job[j].ids)}
          /\ Gap(job[j].item, {"removed"})
       \/ MayFail /\ UNCHANGED vectors /\ Gap(job[j].item, {"kept"})
    /\ To(j, "drop")
    /\ UNCHANGED <<grantVars, upload, namespaces, rows, made, texts>>

\* Mutant: no cascade.
DropMutant(S) ==
    /\ rows' = [i \in Items |-> IF i \in S THEN None ELSE rows[i]]
    /\ UNCHANGED texts

Drop(S) ==
    /\ rows' = [i \in Items |-> IF i \in S THEN None ELSE rows[i]]
    /\ texts' = {t \in texts : t.item \notin S}

\* The row, and by cascade its texts.
DeleteRow(j) ==
    /\ job[j].pc = "drop" /\ job[j].op # "deletens"
    /\ Drop({job[j].item}) \/ (MayFail /\ UNCHANGED <<rows, texts>>)
    /\ Set(j, NoJob)
    /\ UNCHANGED <<grantVars, upload, namespaces, made, vectors, gaps>>

-----------------------------------------------------------------------------
(* Web pages. *)

\* The upsert keeps the row of the URL and moves it to the namespace asked for.
UpsertPage(j) ==
    /\ At(j, "web", "row")
    /\ LET p == job[j].item
       IN  IF rows[p] = None \/ ~Stored(job[j].ns) THEN InsertRow(j, "indexing", "crawl")
           ELSE /\ rows' = [rows EXCEPT ![p] = [@ EXCEPT !.ns = job[j].ns, !.status = "indexing",
                                                        !.src = job[j].src]]
                /\ Set(j, [job[j] EXCEPT !.pc = "crawl", !.gen = rows[p].gen])
                /\ UNCHANGED made
    /\ UNCHANGED <<grantVars, upload, namespaces, texts, vectors, gaps>>

\* A page that cannot be fetched, or without a word, is an error.
crawlAndChunk(j) ==
    /\ At(j, "web", "crawl")
    /\ \/ Parts(j) # <<>> /\ Set(j, [job[j] EXCEPT !.pc = "embed", !.ids = DOMAIN Parts(j)])
       \/ /\ Parts(j) = <<>> \/ MayFail
          /\ Set(j, [job[j] EXCEPT !.pc = "status", !.status = "error"])
    /\ UNCHANGED <<grantVars, upload, namespaces, rows, made, texts, vectors, gaps>>

\* Its vectors stay.
DeletePage ==
    /\ \E p \in Pages : rows[p] # None /\ Drop({p})
    /\ UNCHANGED <<grantVars, upload, namespaces, made, vectors, job, gaps>>

-----------------------------------------------------------------------------
(* Questions and answers. *)

InsertQA(j) ==
    /\ At(j, "qa", "row")
    /\ InsertRow(j, "indexed", "pid")
    /\ UNCHANGED <<grantVars, upload, namespaces, texts, vectors, gaps>>

SetPineconeID(j) ==
    /\ At(j, "qa", "pid")
    /\ \/ rows' = IF Alive(j) THEN [rows EXCEPT ![job[j].item].pid = TRUE] ELSE rows
       \/ MayFail /\ UNCHANGED rows
    /\ Set(j, IF job[j].embedded THEN [job[j] EXCEPT !.pc = "vectors", !.ids = {1}] ELSE NoJob)
    /\ UNCHANGED <<grantVars, upload, namespaces, made, texts, vectors, gaps>>

\* Without a pinecone_id the vector stays.
DeleteQA(j) ==
    /\ job[j].pc = "idle"
    /\ \E q \in Questions :
         /\ rows[q] # None
         /\ \/ /\ rows[q].pid
               /\ Set(j, [NoJob EXCEPT !.op = "deleteqa", !.item = q, !.pc = "vectors", !.ids = {1},
                                       !.name = namespaces[rows[q].ns]])
               /\ UNCHANGED gaps
            \/ /\ ~rows[q].pid \/ MayFail
               /\ Set(j, [NoJob EXCEPT !.op = "deleteqa", !.item = q, !.pc = "drop"])
               /\ Gap(q, {"kept"})
    /\ UNCHANGED <<grantVars, upload, namespaces, rows, made, texts, vectors>>

-----------------------------------------------------------------------------
(* Sheets. *)

\* A private sheet needs the Google token of the workspace.
FetchSheet(j) ==
    /\ At(j, "sync", "fetch")
    /\ \/ user[j].pc = "idle" /\ To(j, "csv") /\ UNCHANGED user
       \/ user[j].pc = "idle" /\ user' = [user EXCEPT ![j].pc = "select"] /\ UNCHANGED job
       \/ user[j].pc = "ok" /\ To(j, "ref") /\ user' = [user EXCEPT ![j] = NoUse]
       \/ user[j].pc = "error" /\ Set(j, NoJob) /\ user' = [user EXCEPT ![j] = NoUse]
    /\ UNCHANGED <<states, grant, callback, exchanged, owner, revived,
                   upload, namespaces, rows, made, texts, vectors, gaps>>

\* External: Google answers with the matrix of the sync, cut or not, or the sync
\* ends - whatever it answers instead.
fetchGoogleSheetsAPI(j, then) ==
    /\ To(j, then) \/ (MayFail /\ Set(j, NoJob))
    /\ UNCHANGED <<grantVars, upload, namespaces, rows, made, texts, vectors, gaps>>

fetchCSVMatrix(j) == At(j, "sync", "csv") /\ fetchGoogleSheetsAPI(j, "matrix")

\* First the tabs, to find the one with the gid or the name; then its cells.
resolveGoogleSheetRef(j) == At(j, "sync", "ref") /\ fetchGoogleSheetsAPI(j, "values")
fetchSheetMatrixWithOAuth(j) == At(j, "sync", "values") /\ fetchGoogleSheetsAPI(j, "matrix")

\* A sheet without data rows answers an error.
ParseSheet(j) ==
    /\ At(j, "sync", "matrix")
    /\ IF Len(job[j].src) >= 2 /\ Parts(j) # <<>> THEN To(j, "row") ELSE Set(j, NoJob)
    /\ UNCHANGED <<grantVars, upload, namespaces, rows, made, texts, vectors, gaps>>

\* The row of a sheet keeps the namespace of its first sync.
UpsertTable(j) ==
    /\ At(j, "sync", "row")
    /\ LET s == job[j].item
       IN  IF rows[s] = None THEN InsertRow(j, "pending", "clear") /\ UNCHANGED gaps
           ELSE /\ rows' = [rows EXCEPT ![s] = [@ EXCEPT !.status = "pending", !.src = job[j].src]]
                /\ Set(j, [job[j] EXCEPT !.pc = "clear", !.gen = rows[s].gen])
                /\ Gap(s, IF rows[s].ns # job[j].ns THEN {"moved"} ELSE {})
                /\ UNCHANGED made
    /\ UNCHANGED <<grantVars, upload, namespaces, texts, vectors>>

ClearTable(j) ==
    /\ At(j, "sync", "clear")
    /\ \/ texts' = {t \in texts : ~(t.item = job[j].item /\ t.gen = job[j].gen)} /\ UNCHANGED gaps
       \/ MayFail /\ UNCHANGED texts /\ Gap(job[j].item, {"unstored"})
    /\ To(j, "texts")
    /\ UNCHANGED <<grantVars, upload, namespaces, rows, made, vectors>>

\* One INSERT per row, whose error is ignored. Embedding is optional, and left out
\* without Pinecone.
InsertTableRow(j) ==
    /\ At(j, "sync", "texts")
    /\ LET rowTexts == Parts(j)
           x == job[j].next
       IN  IF x > Len(rowTexts)
           THEN /\ \/ Set(j, [job[j] EXCEPT !.pc = "embed", !.ids = DOMAIN rowTexts])
                   \/ Set(j, NoJob)
                /\ UNCHANGED <<texts, gaps>>
           ELSE /\ Set(j, [job[j] EXCEPT !.next = x + 1])
                /\ \/ /\ texts' = IF Alive(j)
                                  THEN texts \cup {[item |-> job[j].item, gen |-> job[j].gen, idx |-> x,
                                                    text |-> rowTexts[x], by |-> j]}
                                  ELSE texts
                      /\ UNCHANGED gaps
                   \/ MayFail /\ UNCHANGED texts /\ Gap(job[j].item, {"unstored"})
    /\ UNCHANGED <<grantVars, upload, namespaces, rows, made, vectors>>

\* Its vectors stay.
DeleteSheet ==
    /\ \E s \in Sheets : rows[s] # None /\ Drop({s})
    /\ UNCHANGED <<grantVars, upload, namespaces, made, vectors, job, gaps>>

-----------------------------------------------------------------------------
(* Namespaces. *)

CreateNamespace ==
    /\ \E n \in Namespaces, name \in Names :
         /\ namespaces[n] = "new"
         /\ \A m \in Namespaces : namespaces[m] # name
         /\ namespaces' = [namespaces EXCEPT ![n] = name]
    /\ UNCHANGED <<grantVars, upload, rows, made, texts, vectors, job, gaps>>

DeleteNamespace(j) ==
    /\ job[j].pc = "idle"
    /\ \E n \in Namespaces :
         /\ Stored(n)
         /\ Set(j, [NoJob EXCEPT !.op = "deletens", !.ns = n, !.name = namespaces[n], !.pc = "vectors"])
    /\ UNCHANGED <<grantVars, upload, namespaces, rows, made, texts, vectors, gaps>>

\* All vectors of the Pinecone namespace, or none: the call fails, or there is no
\* Pinecone.
DeleteAllVectors(j) ==
    /\ At(j, "deletens", "vectors")
    /\ LET there == {v.item : v \in {u \in vectors : u.ns = job[j].name}}
           mark(g) == gaps' = [i \in Items |-> IF i \in there THEN gaps[i] \cup {g} ELSE gaps[i]]
       IN  \/ vectors' = {v \in vectors : v.ns # job[j].name} /\ mark("removed")
           \/ MayFail /\ UNCHANGED vectors /\ mark("kept")
    /\ To(j, "drop")
    /\ UNCHANGED <<grantVars, upload, namespaces, rows, made, texts>>

DropNamespace(j) ==
    /\ At(j, "deletens", "drop")
    /\ \/ /\ namespaces' = [namespaces EXCEPT ![job[j].ns] = "gone"]
          /\ Drop({i \in Items : rows[i] # None /\ rows[i].ns = job[j].ns})
       \/ MayFail /\ UNCHANGED <<namespaces, rows, texts>>
    /\ Set(j, NoJob)
    /\ UNCHANGED <<grantVars, upload, made, vectors, gaps>>

\* The service stops: what a request has not done by then is never done.
Abandon(j) ==
    /\ MayFail
    /\ job[j].pc # "idle"
    /\ Set(j, NoJob)
    /\ user' = [user EXCEPT ![j] = NoUse]
    /\ gaps' = IF job[j].op = "sync" /\ job[j].pc \in {"clear", "texts"}
               THEN [gaps EXCEPT ![job[j].item] = @ \cup {"unstored"}] ELSE gaps
    /\ UNCHANGED <<states, grant, callback, exchanged, owner, revived,
                   upload, namespaces, rows, made, texts, vectors>>

-----------------------------------------------------------------------------
(* Search. *)

\* A search is for one namespace by its id, for some by their names, for those
\* with AUTO_QUERY, or for all: [by, ns]. It finds at most what follows; ranks,
\* their fusion and the limits are left out.

\* External: every vector of a Pinecone namespace is a candidate.
QueryVectors(name) == {v \in vectors : v.ns = name}

VectorHits(q) ==
    LET asked == {n \in Namespaces : Stored(n) /\ (q.by = "all" \/ n \in q.ns)}
    IN  {<<"vector", v.item, v.gen, v.idx>> : v \in UNION {QueryVectors(namespaces[n]) : n \in asked}}

\* PostgreSQL is not asked for names: such a search finds texts of all namespaces.
InScope(q, i) == rows[i] # None /\ (q.by \in {"names", "all"} \/ rows[i].ns \in q.ns)

\* A chunk goes by the id of its vector, a row and a question by their own.
ChunkHits(q) == {<<"vector", t.item, t.gen, t.idx>> : t \in {u \in texts : u.item \in Docs /\ InScope(q, u.item)}}
TableHits(q) == {<<"row", t.item, t.gen, t.idx>> : t \in {u \in texts : u.item \in Sheets /\ InScope(q, u.item)}}
QAHits(q) == {<<"row", i, rows[i].gen, 1>> : i \in {p \in Questions : InScope(q, p)}}

HybridSearch(q) == VectorHits(q) \cup ChunkHits(q) \cup TableHits(q) \cup QAHits(q)

Start(j) ==
    \/ CreateDocument(j) \/ AddPage(j) \/ CreateQA(j) \/ SyncSheet(j) \/ Reindex(j)
    \/ DeleteDocument(j) \/ DeleteQA(j) \/ DeleteNamespace(j)

Step(j) ==
    \/ GetNamespace(j) \/ EmbedBatch(j) \/ UpsertVectors(j) \/ SkipVectors(j) \/ SetStatus(j)
    \/ InsertDocument(j) \/ InsertChunk(j) \/ ReadChunks(j) \/ ReadIds(j) \/ DeleteVectors(j)
    \/ DeleteRow(j) \/ UpsertPage(j) \/ crawlAndChunk(j) \/ InsertQA(j) \/ SetPineconeID(j)
    \/ FetchSheet(j) \/ fetchCSVMatrix(j) \/ resolveGoogleSheetRef(j)
    \/ fetchSheetMatrixWithOAuth(j) \/ ParseSheet(j) \/ UpsertTable(j) \/ ClearTable(j) \/ InsertTableRow(j)
    \/ DeleteAllVectors(j) \/ DropNamespace(j)

Next ==
    \/ \E j \in Jobs : Start(j) \/ Step(j) \/ Abandon(j)
    \/ DeletePage \/ DeleteSheet \/ CreateNamespace
    \/ \E j \in Jobs : GrantStep(j) /\ UNCHANGED knowledgeVars
    \/ GrantNext /\ UNCHANGED knowledgeVars

Spec == Init /\ [][Next]_vars

-----------------------------------------------------------------------------
(* Properties. *)

TextOf(i, x) == (CHOOSE t \in texts : t.item = i /\ t.idx = x).text

\* A document that was stored to its end has every sentence of its content in
\* its chunks, in order and within the chunk size; the spans of a page cover
\* its words; and a sheet synced by one request at a time has each row that was
\* read of it once, and each cell under a header in it - whatever requests failed
\* before.
SourcesAreCovered ==
    /\ \A d \in Docs :
          rows[d] # None /\ "unready" \notin gaps[d] /\ rows[d].status \in {"indexed", "pending"} =>
              /\ Ids(d) = 1..Cardinality(Ids(d))
              /\ ChunksCover([x \in 1..Cardinality(Ids(d)) |-> TextOf(d, x)], rows[d].src.text, rows[d].src.size)
    /\ \A p \in Pages :
          rows[p] # None => SpansCover(chunkTextWithOverlap(rows[p].src, 500, 50), rows[p].src)
    /\ \A s \in Sheets :
          LET stored == {t \in texts : t.item = s}
              written == [x \in 1..Cardinality(Ids(s)) |-> TextOf(s, x)]
          IN  /\ rows[s] # None
              /\ gaps[s] \cap {"overlap", "unstored"} = {}
              /\ \A j \in Jobs : job[j].item = s => job[j].pc \notin {"clear", "texts"}
              => /\ Cardinality(stored) = Cardinality(Ids(s))
                 /\ written = parseTableWithSmartAnalysis(rows[s].src)
                 /\ RowsCover(written, rows[s].src)

\* What search owes a source: the vectors of its texts, in its namespace.
Wanted(i) ==
    {<<"vector", i, rows[i].gen, x>> :
        x \in IF i \in Questions THEN {} ELSE DOMAIN PartsOf(i, rows[i].src)}

\* Whatever failed and whoever interfered, a source whose status is indexed has
\* all its vectors in its namespace. The code itself makes an exception of an
\* upsert that failed and is ignored, or was skipped without Pinecone, a Reindex of a document that is still
\* being stored, a Delete under way or given up, a sheet synced again under
\* another namespace, and two requests at once for one page or sheet.
IndexedIsSearchable ==
    \A i \in Items :
        /\ rows[i] # None
        /\ rows[i].status = "indexed"
        /\ gaps[i] \cap {"unsent", "unready", "removed", "moved", "overlap"} = {}
        => Wanted(i) \subseteq VectorHits([by |-> "id", ns |-> {rows[i].ns}])

\* Search finds nothing of a document or a question that was deleted, by itself
\* or with its namespace, unless the deletion of its vectors failed or was
\* skipped, or an upsert came after it.
DeletedIsNotFound ==
    \A v \in HybridSearch([by |-> "all", ns |-> {}]) :
        v[2] \in Docs \cup Questions /\ rows[v[2]] = None => gaps[v[2]] \cap {"kept", "late"} # {}
=============================================================================
