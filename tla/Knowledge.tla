----------------------------- MODULE Knowledge -----------------------------
(***************************************************************************)
(* The knowledge of one business (knowledge/service.py): sources that the  *)
(* founder registers, documents uploaded to them and their original files. *)
(*                                                                         *)
(* Every command locks the business row, so commands exclude each other;   *)
(* an upload keeps the lock while it writes the file, which no transaction *)
(* covers: if the transaction fails the file is removed afterwards,        *)
(* without the lock.  A document stands for its chunks, which are written  *)
(* and retrieved with it.                                                  *)
(*                                                                         *)
(* The revision of a source or a document is 1 until it is invalidated and *)
(* 2 after, so its status stands for the expected revision too.            *)
(***************************************************************************)
EXTENDS Naturals

CONSTANTS
    Sources,        \* knowledge_sources
    Contents,       \* contents that are uploaded, by digest
    MaxUploads      \* bound: uploads that reach the storage

ASSUME KnowledgeAssumption == MaxUploads \in Nat

VARIABLES
    source,         \* status of each source
    document,       \* knowledge_documents, by the identifier issued to the upload
    files,          \* keys of the stored files
    issued,         \* identifiers issued to uploads so far
    upload,         \* the upload that holds the lock of the business
    leftover        \* files of failed uploads, still to be removed

knowledgeVars == <<source, document, files, issued, upload, leftover>>

Documents == 1 .. MaxUploads
NoUpload == [id |-> 0]
NoDocument == [status |-> "none"]

\* Seeded fault: one file for equal contents.
ContentKey(id, s, c) == <<c>>
StorageKey(id, s, c) == <<s, id, c>>
FileOf(d) == StorageKey(d, document[d].source, document[d].content)

Document == {NoDocument} \cup
    [status : {"indexed", "invalidated"}, source : Sources, content : Contents]

KnowledgeTypeOK ==
    /\ source \in [Sources -> {"none", "active", "invalidated"}]
    /\ document \in [Documents -> Document]
    /\ issued \in 0 .. MaxUploads
    /\ upload \in {NoUpload} \cup [id : Documents, source : Sources, content : Contents]
    /\ \A f \in leftover : \E d \in Documents, s \in Sources, c \in Contents :
          f = StorageKey(d, s, c)

KnowledgeInit ==
    /\ source = [s \in Sources |-> "none"]
    /\ document = [d \in Documents |-> NoDocument]
    /\ files = {}
    /\ issued = 0
    /\ upload = NoUpload
    /\ leftover = {}

-----------------------------------------------------------------------------
\* resolve_selected_business(lock=True) does not wait.
Unlocked == upload = NoUpload

RegisterSource(s) ==
    /\ Unlocked
    /\ source[s] = "none"
    /\ source' = [source EXCEPT ![s] = "active"]
    /\ UNCHANGED <<document, files, issued, upload, leftover>>

\* A document that was invalidated still counts as uploaded.
Duplicate(s, c) ==
    \E d \in Documents : document[d] # NoDocument
                         /\ document[d].source = s /\ document[d].content = c

StoreFile(s, c) ==
    /\ Unlocked
    /\ issued < MaxUploads
    /\ source[s] = "active"
    /\ ~Duplicate(s, c)
    /\ issued' = issued + 1
    /\ upload' = [id |-> issued', source |-> s, content |-> c]
    /\ files' = files \cup {StorageKey(issued', s, c)}
    /\ UNCHANGED <<source, document, leftover>>

IndexDocument ==
    /\ ~Unlocked
    /\ document' = [document EXCEPT ![upload.id] =
           [status |-> "indexed", source |-> upload.source, content |-> upload.content]]
    /\ upload' = NoUpload
    /\ UNCHANGED <<source, files, issued, leftover>>

\* The transaction is rolled back, and with it the lock is gone.
UploadFails ==
    /\ ~Unlocked
    /\ upload' = NoUpload
    /\ leftover' = leftover \cup {StorageKey(upload.id, upload.source, upload.content)}
    /\ UNCHANGED <<source, document, files, issued>>

RemoveFile(f) ==
    /\ f \in leftover
    /\ leftover' = leftover \ {f}
    /\ files' = files \ {f}
    /\ UNCHANGED <<source, document, issued, upload>>

\* The API process ends, or the request is cancelled: nobody removes the file.
UploadIsLost ==
    /\ ~Unlocked \/ leftover # {}
    /\ upload' = NoUpload
    /\ leftover' = {}
    /\ UNCHANGED <<source, document, files, issued>>

InvalidateSource(s) ==
    /\ Unlocked
    /\ source[s] = "active"
    /\ source' = [source EXCEPT ![s] = "invalidated"]
    /\ document' = [d \in Documents |->
           IF document[d].status = "indexed" /\ document[d].source = s
           THEN [document[d] EXCEPT !.status = "invalidated"] ELSE document[d]]
    /\ UNCHANGED <<files, issued, upload, leftover>>

InvalidateDocument(d) ==
    /\ Unlocked
    /\ document[d].status = "indexed"
    /\ document' = [document EXCEPT ![d].status = "invalidated"]
    /\ UNCHANGED <<source, files, issued, upload, leftover>>

\* What the search, and with it the provenance of a memory, may cite.
Citable(d) == document[d].status = "indexed" /\ source[document[d].source] = "active"

KnowledgeStep ==
    \/ \E s \in Sources : RegisterSource(s) \/ InvalidateSource(s)
    \/ \E d \in Documents : InvalidateDocument(d)
    \/ \E s \in Sources, c \in Contents : StoreFile(s, c)
    \/ IndexDocument \/ UploadFails \/ UploadIsLost
    \/ \E f \in leftover : RemoveFile(f)

-----------------------------------------------------------------------------
(* A failed upload never takes the original file of a document with it, and an         *)
(* invalidated document keeps its evidence (docs/phase-13-knowledge-ingestion.md).     *)
DocumentsKeepTheirFile ==
    \A d \in Documents : document[d] # NoDocument => FileOf(d) \in files
=============================================================================
