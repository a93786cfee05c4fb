--------------------------- MODULE Memory_proofs ---------------------------
(* Proofs about the knowledge and the memories of a business. *)
EXTENDS Memory, TLAPS

Stored(d) == document[d].status # "none"

\* A document has its file; the upload under way has a file and an identifier of its own;
\* what is still to be removed belongs to uploads that failed.
FilesInv ==
    /\ document \in [Documents -> Document]
    /\ issued \in 0 .. MaxUploads
    /\ ~Unlocked => /\ upload \in [id : {issued}, source : Sources, content : Contents]
                    /\ issued \in Documents /\ ~Stored(issued)
                    /\ StorageKey(upload.id, upload.source, upload.content) \in files
    /\ \A d \in Documents : Stored(d) => FileOf(d) \in files /\ d <= issued
    /\ \A f \in leftover : \E d \in Documents, s \in Sources, c \in Contents :
          /\ f = StorageKey(d, s, c)
          /\ d <= issued /\ ~Stored(d) /\ (~Unlocked => d # issued)

LEMMA FilesInit == Init => FilesInv
  BY KnowledgeAssumption DEF Init, KnowledgeInit, FilesInv, Document, NoDocument, Stored, Unlocked

\* The commands that leave documents, uploads and files alone.
LEMMA FilesUnchanged ==
    ASSUME FilesInv, UNCHANGED <<document, files, issued, upload, leftover>>
    PROVE FilesInv'
  BY DEF FilesInv, Stored, Unlocked, FileOf

LEMMA StoreFileKeeps ==
    ASSUME FilesInv, NEW s \in Sources, NEW c \in Contents, StoreFile(s, c)
    PROVE FilesInv'
<1>1. issued' = issued + 1 /\ issued' \in Documents /\ issued' \in 0 .. MaxUploads
  BY KnowledgeAssumption DEF StoreFile, FilesInv, Documents
<1>2. upload' = [id |-> issued', source |-> s, content |-> c]
  BY DEF StoreFile
<1>3. files' = files \cup {StorageKey(issued', s, c)} /\ UNCHANGED <<document, leftover>>
  BY DEF StoreFile
<1>4. ~Stored(issued')
  BY <1>1 DEF FilesInv, Documents
<1>5. \A f \in leftover' : \E d \in Documents, t \in Sources, e \in Contents :
          /\ f = StorageKey(d, t, e)
          /\ d <= issued' /\ ~Stored(d)' /\ d # issued'
  BY <1>1, <1>3 DEF FilesInv, Stored, Documents
<1>6. \A d \in Documents : Stored(d)' => FileOf(d)' \in files' /\ d <= issued'
  BY <1>1, <1>3 DEF FilesInv, Stored, FileOf, Documents
<1>7. StorageKey(upload'.id, upload'.source, upload'.content) \in files'
  BY <1>2, <1>3
<1> QED
  BY <1>1, <1>2, <1>3, <1>4, <1>5, <1>6, <1>7 DEF FilesInv, Stored

LEMMA IndexDocumentKeeps ==
    ASSUME FilesInv, IndexDocument
    PROVE FilesInv'
<1> DEFINE new == [status |-> "indexed", source |-> upload.source, content |-> upload.content]
<1>1. /\ upload \in [id : {issued}, source : Sources, content : Contents]
      /\ issued \in Documents
      /\ StorageKey(issued, upload.source, upload.content) \in files
  BY DEF FilesInv, IndexDocument
<1>2. document' = [document EXCEPT ![issued] = new] /\ UNCHANGED <<files, issued, leftover>>
  BY <1>1 DEF IndexDocument
<1>3. Unlocked'
  BY DEF IndexDocument, Unlocked
<1>4. document' \in [Documents -> Document]
  BY <1>1, <1>2 DEF FilesInv, Document
<1>5. /\ document'[issued] = new
      /\ \A d \in Documents \ {issued} : document'[d] = document[d]
  BY <1>1, <1>2 DEF FilesInv
<1>6. \A d \in Documents : Stored(d)' => FileOf(d)' \in files' /\ d <= issued'
  BY <1>1, <1>2, <1>5 DEF FilesInv, Stored, FileOf, Documents
<1>7. \A f \in leftover : \E d \in Documents, s \in Sources, c \in Contents :
          f = StorageKey(d, s, c) /\ d <= issued /\ ~Stored(d) /\ d # issued
  BY DEF FilesInv, IndexDocument
<1>8. \A d \in Documents : d # issued => Stored(d)' = Stored(d)
  BY <1>5 DEF Stored
<1> QED
  BY <1>2, <1>3, <1>4, <1>6, <1>7, <1>8 DEF FilesInv

LEMMA UploadEndsKeeps ==
    ASSUME FilesInv, UploadFails \/ UploadIsLost
    PROVE FilesInv'
<1>1. UNCHANGED <<document, files, issued>> /\ Unlocked'
  BY DEF UploadFails, UploadIsLost, Unlocked
<1>2. \A d \in Documents : /\ Stored(d)' <=> Stored(d)
                           /\ FileOf(d)' = FileOf(d)
  BY <1>1 DEF Stored, FileOf
<1>3. \A f \in leftover' : \E d \in Documents, s \in Sources, c \in Contents :
          f = StorageKey(d, s, c) /\ d <= issued /\ ~Stored(d)
  <2>1. CASE UploadFails
    <3>1. /\ leftover' = leftover \cup {StorageKey(upload.id, upload.source, upload.content)}
          /\ ~Unlocked
      BY <2>1 DEF UploadFails
    <3>2. /\ upload.id = issued /\ upload.source \in Sources /\ upload.content \in Contents
          /\ issued \in Documents /\ issued <= issued /\ ~Stored(issued)
      BY <3>1 DEF FilesInv, Documents
    <3> QED
      BY <3>1, <3>2 DEF FilesInv
  <2>2. CASE UploadIsLost
    BY <2>2 DEF UploadIsLost
  <2> QED
    BY <2>1, <2>2
<1> QED
  BY <1>1, <1>2, <1>3 DEF FilesInv

\* A file that is removed is no document's: its identifier was never indexed.
LEMMA RemoveFileKeeps ==
    ASSUME FilesInv, NEW f \in leftover, RemoveFile(f)
    PROVE FilesInv'
<1>1. /\ leftover' = leftover \ {f} /\ files' = files \ {f}
      /\ UNCHANGED <<document, issued, upload>>
  BY DEF RemoveFile
<1>2. PICK d \in Documents, s \in Sources, c \in Contents :
          f = StorageKey(d, s, c) /\ ~Stored(d) /\ (~Unlocked => d # issued)
  BY DEF FilesInv
<1>3. \A e \in Documents : Stored(e) => FileOf(e) # f
  BY <1>2 DEF FileOf, StorageKey
<1>4. ~Unlocked => StorageKey(upload.id, upload.source, upload.content) # f
  BY <1>2 DEF StorageKey, FilesInv
<1> QED
  BY <1>1, <1>3, <1>4 DEF FilesInv, Stored, Unlocked, FileOf

LEMMA InvalidationKeeps ==
    ASSUME FilesInv,
           \/ \E s \in Sources : InvalidateSource(s)
           \/ \E d \in Documents : InvalidateDocument(d)
    PROVE FilesInv'
<1>1. UNCHANGED <<files, issued, upload, leftover>>
  BY DEF InvalidateSource, InvalidateDocument
<1>2. document' \in [Documents -> Document]
  <2>1. ASSUME NEW s \in Sources, InvalidateSource(s) PROVE document' \in [Documents -> Document]
    BY <2>1 DEF InvalidateSource, FilesInv, Document, NoDocument
  <2>2. ASSUME NEW d \in Documents, InvalidateDocument(d)
        PROVE document' \in [Documents -> Document]
    BY <2>2 DEF InvalidateDocument, FilesInv, Document, NoDocument
  <2> QED
    BY <2>1, <2>2
<1>3. \A d \in Documents : /\ Stored(d)' <=> Stored(d)
                           /\ Stored(d) => FileOf(d)' = FileOf(d)
  <2>1. ASSUME NEW s \in Sources, InvalidateSource(s), NEW d \in Documents
        PROVE (Stored(d)' <=> Stored(d)) /\ (Stored(d) => FileOf(d)' = FileOf(d))
    BY <2>1 DEF InvalidateSource, FilesInv, Document, NoDocument, Stored, FileOf
  <2>2. ASSUME NEW e \in Documents, InvalidateDocument(e), NEW d \in Documents
        PROVE (Stored(d)' <=> Stored(d)) /\ (Stored(d) => FileOf(d)' = FileOf(d))
    BY <2>2 DEF InvalidateDocument, FilesInv, Document, NoDocument, Stored, FileOf
  <2> QED
    BY <2>1, <2>2
<1>4. Unlocked' <=> Unlocked
  BY <1>1 DEF Unlocked
<1> QED
  BY <1>1, <1>2, <1>3, <1>4 DEF FilesInv, Documents

LEMMA FilesStep == FilesInv /\ [Next]_vars => FilesInv'
<1> SUFFICES ASSUME FilesInv, [Next]_vars PROVE FilesInv'
  OBVIOUS
<1>1. CASE UNCHANGED knowledgeVars
  BY <1>1, FilesUnchanged DEF knowledgeVars
<1>2. CASE KnowledgeStep
  <2>1. ASSUME NEW s \in Sources, RegisterSource(s) PROVE FilesInv'
    BY <2>1, FilesUnchanged DEF RegisterSource
  <2> QED
    BY <1>2, <2>1, StoreFileKeeps, IndexDocumentKeeps, UploadEndsKeeps, RemoveFileKeeps,
       InvalidationKeeps DEF KnowledgeStep
<1>3. CASE MemoryStep
  BY <1>1, <1>3 DEF MemoryStep, LoadPage, TimePasses, ProposeStep, Propose, UpdatePolicy,
     DecideProposal, Invalidate
<1> QED
  BY <1>1, <1>2, <1>3 DEF Next, vars

(* A failed upload, an invalidation or a lost request never takes the file of a document. *)
THEOREM FilesStay == Spec => []DocumentsKeepTheirFile
<1>1. FilesInv => DocumentsKeepTheirFile
  BY DEF FilesInv, DocumentsKeepTheirFile, Stored, Document, NoDocument
<1> QED
  BY <1>1, FilesInit, FilesStep, PTL DEF Spec

-----------------------------------------------------------------------------
(* Memories.                                                               *)

Made(p) == proposal[p].status # "none"
Kept(m) == memory[m].status # "none"
HasRow(p) == row[p].memory # 0

\* The revisions of a record that have a row.
Last(m) == IF memory[m].status = "active" THEN memory[m].revision ELSE memory[m].revision - 1

Typed ==
    /\ now \in Nat
    /\ proposal \in [Proposals -> {NoProposal} \cup Proposal]
    /\ memory \in [Proposals -> {NoRecord} \cup Record]
    /\ row \in [Proposals -> {NoRow} \cup Row]

\* A row is of a proposal that was accepted, and of the record of the same claim; a
\* record is numbered by the proposal that founded it.
Linked ==
    /\ \A p \in Proposals : HasRow(p) <=> proposal[p].status \in {"accepted", "merged"}
    /\ \A m \in Proposals : Kept(m) => row[m].memory = m
    /\ \A p \in Proposals : HasRow(p) =>
          Kept(row[p].memory) /\ memory[row[p].memory].claim = proposal[p].claim

\* Only proposals of an epistemic status of their type are made, and only those of the
\* eligible types are accepted without the founder, never a fact.
Justified ==
    \A p \in Proposals :
        /\ Made(p) => proposal[p].claim.epistemic \in EpistemicByType[proposal[p].claim.type]
        /\ HasRow(p) /\ row[p].by = "automatic"
              => /\ proposal[p].claim.type \in AutomaticEligible
                 /\ proposal[p].claim.epistemic # "fact"

\* The rows of a record number its revisions and explain its confidence.
Counted ==
    /\ \A m \in Proposals : Kept(m) => Last(m) \in Nat
    /\ \A p \in Proposals : HasRow(p) =>
          /\ row[p].revision \in 1 .. Last(row[p].memory)
          /\ proposal[p].confidence <= memory[row[p].memory].confidence
    /\ \A p, q \in Proposals :
          HasRow(p) /\ row[p].memory = row[q].memory /\ row[p].revision = row[q].revision => p = q
    /\ \A m \in Proposals : Kept(m) =>
          /\ \A r \in 1 .. Last(m) : \E p \in RowsOf(m) : row[p].revision = r
          /\ \E p \in RowsOf(m) : proposal[p].confidence = memory[m].confidence

MemoryInv == Typed /\ Linked /\ Justified /\ Counted /\ OneMemoryPerClaim

LEMMA MemoryInit == Init => MemoryInv
<1> SUFFICES ASSUME Init PROVE MemoryInv
  OBVIOUS
<1>1. /\ now = 0
      /\ proposal = [p \in Proposals |-> NoProposal]
      /\ memory = [p \in Proposals |-> NoRecord]
      /\ row = [p \in Proposals |-> NoRow]
  BY DEF Init
<1>2. \A p \in Proposals : ~Made(p) /\ ~Kept(p) /\ ~HasRow(p) /\ ~Live(p)
  BY <1>1 DEF Made, Kept, HasRow, Live, NoProposal, NoRecord, NoRow
<1>3. \A p \in Proposals : proposal[p].status = "none"
  BY <1>1 DEF NoProposal
<1> QED
  BY <1>1, <1>2, <1>3 DEF MemoryInv, Typed, Linked, Justified, Counted, OneMemoryPerClaim

\* Equal keys are equal claims.
LEMMA KeyIsClaim ==
    ASSUME NEW a \in Claims, NEW b \in Claims, CanonicalKey(a) = CanonicalKey(b)
    PROVE a = b
  BY DEF Claims, CanonicalKey

-----------------------------------------------------------------------------
(* A proposal p that becomes proposal i, pending or decided.               *)

\* What may become proposal i: a new one, or the pending one that is decided.
Admitted(i, p) ==
    /\ i \in Proposals /\ p \in Proposal
    /\ proposal[i].status \in {"none", "pending"}
    /\ p.claim.epistemic \in EpistemicByType[p.claim.type]

\* A proposal that is accepted on these terms.
Warranted(p, by) ==
    by = "automatic" => p.claim.type \in AutomaticEligible /\ p.claim.epistemic # "fact"

\* A proposal that has no row founded no record, and no row refers to it.
LEMMA NoRowYet ==
    ASSUME MemoryInv, NEW i \in Proposals, proposal[i].status \in {"none", "pending", "rejected"}
    PROVE ~HasRow(i) /\ ~Kept(i) /\ \A q \in Proposals : row[q].memory # i
<1>1. ~HasRow(i)
  BY DEF MemoryInv, Linked
<1>2. ~Kept(i)
  BY <1>1 DEF MemoryInv, Linked, HasRow, Proposals
<1>3. ASSUME NEW q \in Proposals, row[q].memory = i PROVE FALSE
  BY <1>2, <1>3 DEF MemoryInv, Linked, HasRow, Proposals
<1> QED
  BY <1>1, <1>2, <1>3

\* Only the proposal changes, and it is not an accepted one.
LEMMA UndecidedKeeps ==
    ASSUME MemoryInv, NEW i \in Proposals, NEW p \in Proposal,
           proposal[i].status \in {"none", "pending"}, p.status \in {"pending", "rejected"},
           p.claim.epistemic \in EpistemicByType[p.claim.type],
           proposal' = [proposal EXCEPT ![i] = p], UNCHANGED <<memory, row, now>>
    PROVE MemoryInv'
<1>1. /\ proposal' \in [Proposals -> {NoProposal} \cup Proposal]
      /\ proposal'[i] = p /\ \A q \in Proposals \ {i} : proposal'[q] = proposal[q]
  BY DEF MemoryInv, Typed
<1>2. ~HasRow(i) /\ \A q \in Proposals : row[q].memory # i
  BY NoRowYet
<1>3. /\ \A q : (HasRow(q)' <=> HasRow(q)) /\ (Kept(q)' <=> Kept(q)) /\ (Live(q)' <=> Live(q))
      /\ \A q : Last(q)' = Last(q) /\ RowsOf(q)' = RowsOf(q)
  BY DEF HasRow, Kept, Last, RowsOf, Live
<1>4. Linked'
  BY <1>1, <1>2, <1>3 DEF MemoryInv, Linked
<1>5. Justified'
  BY <1>1, <1>2, <1>3 DEF MemoryInv, Justified, Made
<1>6. Counted'
  <2>1. \A q \in Proposals : HasRow(q) => proposal'[q] = proposal[q]
    BY <1>1, <1>2
  <2>2. \A m \in Proposals : \A q \in RowsOf(m) : q \in Proposals /\ HasRow(q)
    BY DEF RowsOf, HasRow, Proposals
  <2> QED
    BY <1>3, <2>1, <2>2 DEF MemoryInv, Counted
<1>7. OneMemoryPerClaim'
  BY <1>3 DEF MemoryInv, OneMemoryPerClaim
<1> QED
  BY <1>1, <1>4, <1>5, <1>6, <1>7 DEF MemoryInv, Typed

\* What Settle changes.
LEMMA SettleEffect ==
    ASSUME MemoryInv, NEW i, NEW p, Admitted(i, p), p.status = "pending",
           NEW m \in Proposals, NEW record \in Record, NEW outcome \in {"accepted", "merged"},
           NEW by \in {"founder", "automatic"}, Settle(i, p, m, record, outcome, by)
    PROVE /\ proposal' \in [Proposals -> {NoProposal} \cup Proposal]
          /\ memory' \in [Proposals -> {NoRecord} \cup Record]
          /\ row' \in [Proposals -> {NoRow} \cup Row]
          /\ proposal'[i].status = outcome
          /\ proposal'[i].claim = p.claim /\ proposal'[i].confidence = p.confidence
          /\ memory'[m] = record
          /\ row'[i].memory = m /\ row'[i].revision = record.revision /\ row'[i].by = by
          /\ \A q \in Proposals \ {i} : proposal'[q] = proposal[q] /\ row'[q] = row[q]
          /\ \A n \in Proposals \ {m} : memory'[n] = memory[n]
<1> DEFINE decided == [p EXCEPT !.status = outcome]
           new == [memory |-> m, revision |-> record.revision, confidence |-> record.confidence,
                   by |-> by, evidence |-> p.evidence]
<1>1. /\ decided \in Proposal /\ decided.status = outcome
      /\ decided.claim = p.claim /\ decided.confidence = p.confidence
  BY DEF Admitted, Proposal
<1>2. new \in Row
  BY DEF Admitted, Proposal, Record, Row
<1>3. new.memory = m /\ new.revision = record.revision /\ new.by = by
  OBVIOUS
<1>4. /\ proposal' = [proposal EXCEPT ![i] = decided] /\ memory' = [memory EXCEPT ![m] = record]
      /\ row' = [row EXCEPT ![i] = new]
  BY DEF Settle
<1> HIDE DEF decided, new
<1> QED
  BY <1>1, <1>2, <1>3, <1>4 DEF MemoryInv, Typed, Admitted

LEMMA RowMemory ==
    ASSUME MemoryInv, NEW q \in Proposals, HasRow(q)
    PROVE row[q] \in Row /\ row[q].memory \in Proposals /\ Kept(row[q].memory)
          /\ memory[row[q].memory] \in Record
<1>1. row[q] \in Row /\ row[q].memory \in Proposals
  BY DEF MemoryInv, Typed, HasRow, NoRow, Row
<1>2. Kept(row[q].memory)
  BY DEF MemoryInv, Linked
<1>3. memory[row[q].memory] \in Record
  BY <1>1, <1>2 DEF MemoryInv, Typed, Kept, NoRecord
<1> QED
  BY <1>1, <1>2, <1>3

\* No live record has the claim: proposal i founds record i.
LEMMA FoundKeeps ==
    ASSUME MemoryInv, NEW i, NEW p, Admitted(i, p), p.status = "pending",
           NEW by \in {"founder", "automatic"}, Warranted(p, by), Duplicates(p) = {},
           Settle(i, p, i, NewRecord(p), "accepted", by), UNCHANGED now
    PROVE MemoryInv'
<1> DEFINE record == NewRecord(p)
<1>1. /\ record \in Record /\ record.status = "active" /\ record.revision = 1
      /\ record.claim = p.claim /\ record.confidence = p.confidence
  BY DEF Admitted, NewRecord, Proposal, Record
<1>2. /\ i \in Proposals /\ ~HasRow(i) /\ ~Kept(i) /\ \A q \in Proposals : row[q].memory # i
  BY NoRowYet DEF Admitted
<1>3. /\ proposal' \in [Proposals -> {NoProposal} \cup Proposal]
      /\ memory' \in [Proposals -> {NoRecord} \cup Record]
      /\ row' \in [Proposals -> {NoRow} \cup Row]
      /\ proposal'[i].status = "accepted"
      /\ proposal'[i].claim = p.claim /\ proposal'[i].confidence = p.confidence
      /\ memory'[i] = record
      /\ row'[i].memory = i /\ row'[i].revision = record.revision /\ row'[i].by = by
      /\ \A q \in Proposals \ {i} : proposal'[q] = proposal[q] /\ row'[q] = row[q]
      /\ \A n \in Proposals \ {i} : memory'[n] = memory[n]
  BY <1>1, <1>2, SettleEffect
<1> HIDE DEF record
<1>4. /\ HasRow(i)' /\ Kept(i)' /\ Last(i)' = 1
      /\ \A q \in Proposals \ {i} : /\ HasRow(q)' <=> HasRow(q)
                                    /\ Kept(q)' <=> Kept(q)
                                    /\ Last(q)' = Last(q)
  BY <1>1, <1>2, <1>3 DEF HasRow, Kept, Last, Proposals
<1>5. \A q \in Proposals : HasRow(q) => q # i /\ row[q].memory \in Proposals \ {i}
  BY <1>2, RowMemory
<1>6. Linked'
  <2>1. \A q \in Proposals : HasRow(q)' <=> proposal'[q].status \in {"accepted", "merged"}
    BY <1>3, <1>4 DEF MemoryInv, Linked
  <2>2. \A m \in Proposals : Kept(m)' => row'[m].memory = m
    BY <1>3, <1>4 DEF MemoryInv, Linked
  <2>3. ASSUME NEW q \in Proposals, HasRow(q)'
        PROVE Kept(row[q].memory)' /\ memory'[row'[q].memory].claim = proposal'[q].claim
    <3>1. CASE q = i
      BY <1>1, <1>2, <1>3, <1>4, <3>1 DEF Kept
    <3>2. CASE q # i
      BY <1>3, <1>4, <1>5, <2>3, <3>2 DEF MemoryInv, Linked, Kept
    <3> QED
      BY <3>1, <3>2
  <2> QED
    BY <2>1, <2>2, <2>3 DEF Linked, Kept
<1>7. Justified'
  BY <1>2, <1>3, <1>4 DEF MemoryInv, Justified, Admitted, Warranted, Made
<1>8. RowsOf(i)' = {i} /\ \A m \in Proposals \ {i} : RowsOf(m)' = RowsOf(m)
  BY <1>2, <1>3 DEF RowsOf, HasRow, Proposals
<1>9. Counted'
  <2>1. \A m \in Proposals : Kept(m)' => Last(m)' \in Nat
    BY <1>4 DEF MemoryInv, Counted
  <2>2. ASSUME NEW q \in Proposals, HasRow(q)'
        PROVE /\ row'[q].revision \in 1 .. Last(row[q].memory)'
              /\ proposal'[q].confidence <= memory'[row'[q].memory].confidence
    <3>1. CASE q = i
      <4>1. p.confidence \in Nat
        BY MemoryAssumption DEF Admitted, Proposal
      <4>2. Last(row[i].memory)' = 1
        BY <1>1, <1>3 DEF Last
      <4> QED
        BY <1>1, <1>3, <3>1, <4>1, <4>2
    <3>2. CASE q # i
      <4>1. Last(row[q].memory)' = Last(row[q].memory)
        BY <1>3, <1>4, <1>5, <2>2, <3>2 DEF Last
      <4> QED
        BY <1>3, <1>4, <1>5, <2>2, <3>2, <4>1 DEF MemoryInv, Counted
    <3> QED
      BY <3>1, <3>2
  <2>3. ASSUME NEW q \in Proposals, NEW t \in Proposals, HasRow(q)',
               row'[q].memory = row'[t].memory, row'[q].revision = row'[t].revision
        PROVE q = t
    BY <1>2, <1>3, <1>4, <2>3 DEF MemoryInv, Counted
  <2>4. ASSUME NEW m \in Proposals, Kept(m)'
        PROVE /\ \A r \in 1 .. Last(m)' : \E q \in RowsOf(m)' : row'[q].revision = r
              /\ \E q \in RowsOf(m)' : proposal'[q].confidence = memory'[m].confidence
    <3>1. CASE m = i
      BY <1>1, <1>3, <1>4, <1>8, <3>1
    <3>2. CASE m # i
      <4>1. \A q \in RowsOf(m) : q \in Proposals \ {i}
        BY <1>2, <3>2 DEF RowsOf, HasRow, Proposals
      <4> QED
        BY <1>3, <1>4, <1>8, <2>4, <3>2, <4>1 DEF MemoryInv, Counted
    <3> QED
      BY <3>1, <3>2
  <2> QED
    BY <2>1, <2>2, <2>3, <2>4 DEF Counted
<1>10. OneMemoryPerClaim'
  <2>1. \A n \in Proposals \ {i} : (Live(n)' <=> Live(n))
    BY <1>3 DEF Live
  <2>2. \A n \in Proposals : Live(n) => memory[n].claim # p.claim
    BY DEF Duplicates
  <2> QED
    BY <1>1, <1>3, <2>1, <2>2 DEF MemoryInv, OneMemoryPerClaim
<1> QED
  BY <1>3, <1>6, <1>7, <1>9, <1>10 DEF MemoryInv, Typed

\* A live record m has the claim: it takes proposal i in as its next revision.
LEMMA MergeKeeps ==
    ASSUME MemoryInv, NEW i, NEW p, Admitted(i, p), p.status = "pending",
           NEW by \in {"founder", "automatic"}, Warranted(p, by), NEW m \in Duplicates(p),
           Settle(i, p, m, MergedRecord(m, p), "merged", by), UNCHANGED now
    PROVE MemoryInv'
<1> DEFINE record == MergedRecord(m, p)
<1>1. /\ i \in Proposals /\ ~HasRow(i) /\ ~Kept(i) /\ \A q \in Proposals : row[q].memory # i
  BY NoRowYet DEF Admitted
<1>2. m \in Proposals /\ Live(m) /\ memory[m].status = "active" /\ Kept(m) /\ memory[m] \in Record
  BY DEF Duplicates, Live, Kept, MemoryInv, Typed, NoRecord
<1>3. memory[m].claim = p.claim
  <2>1. memory[m].claim \in Claims /\ p.claim \in Claims
    BY <1>2 DEF Record, Proposal, Admitted
  <2> QED
    BY <2>1, KeyIsClaim DEF Duplicates
<1>4. memory[m].revision \in Nat /\ memory[m].confidence \in Nat /\ p.confidence \in Nat
  BY <1>2, MemoryAssumption DEF Record, Proposal, Admitted
<1>5. /\ record \in Record /\ record.status = "active" /\ record.revision = memory[m].revision + 1
      /\ record.claim = p.claim /\ record.expires = memory[m].expires
      /\ record.confidence = IF p.confidence > memory[m].confidence
                             THEN p.confidence ELSE memory[m].confidence
  <2> DEFINE c == IF p.confidence > memory[m].confidence THEN p.confidence ELSE memory[m].confidence
             n == memory[m].revision + 1
             old == memory[m]
  <2>1. c \in Confidences /\ n \in Nat
    BY <1>2, <1>4 DEF Record, Proposal, Admitted
  <2>2. record = [old EXCEPT !.revision = n, !.confidence = c]
    BY DEF MergedRecord
  <2>3. old \in Record /\ old.status = "active" /\ old.claim = p.claim
    BY <1>2, <1>3
  <2> HIDE DEF c, n, old, record
  <2>4. /\ record \in Record /\ record.status = "active" /\ record.revision = n
        /\ record.claim = p.claim /\ record.expires = old.expires /\ record.confidence = c
    BY <2>1, <2>2, <2>3 DEF Record
  <2> QED
    BY <2>4 DEF c, n, old
<1>6. /\ proposal' \in [Proposals -> {NoProposal} \cup Proposal]
      /\ memory' \in [Proposals -> {NoRecord} \cup Record]
      /\ row' \in [Proposals -> {NoRow} \cup Row]
      /\ proposal'[i].status = "merged"
      /\ proposal'[i].claim = p.claim /\ proposal'[i].confidence = p.confidence
      /\ memory'[m] = record
      /\ row'[i].memory = m /\ row'[i].revision = record.revision /\ row'[i].by = by
      /\ \A q \in Proposals \ {i} : proposal'[q] = proposal[q] /\ row'[q] = row[q]
      /\ \A n \in Proposals \ {m} : memory'[n] = memory[n]
  BY <1>1, <1>2, <1>5, SettleEffect
<1> HIDE DEF record
<1>7. /\ HasRow(i)' /\ m # i
      /\ \A q \in Proposals \ {i} : HasRow(q)' <=> HasRow(q)
      /\ \A n \in Proposals : Kept(n)' <=> Kept(n)
      /\ \A n \in Proposals : memory'[n].claim = memory[n].claim
      /\ \A n \in Proposals : Live(n)' <=> Live(n)
  BY <1>1, <1>2, <1>3, <1>5, <1>6 DEF HasRow, Kept, Live, Proposals
<1>8. /\ Last(m) = memory[m].revision /\ Last(m)' = Last(m) + 1 /\ record.revision = Last(m) + 1
      /\ \A n \in Proposals \ {m} : Last(n)' = Last(n)
  BY <1>2, <1>5, <1>6 DEF Last
<1>9. Linked'
  <2>1. \A q \in Proposals : HasRow(q)' <=> proposal'[q].status \in {"accepted", "merged"}
    BY <1>6, <1>7 DEF MemoryInv, Linked
  <2>2. \A n \in Proposals : Kept(n)' => row'[n].memory = n
    BY <1>1, <1>6, <1>7 DEF MemoryInv, Linked
  <2>3. ASSUME NEW q \in Proposals, HasRow(q)'
        PROVE Kept(row[q].memory)' /\ memory'[row'[q].memory].claim = proposal'[q].claim
    <3>1. CASE q = i
      BY <1>2, <1>3, <1>5, <1>6, <1>7, <3>1 DEF Kept
    <3>2. CASE q # i
      <4>1. row'[q] = row[q] /\ HasRow(q) /\ row[q].memory \in Proposals /\ Kept(row[q].memory)
        BY <1>6, <1>7, <2>3, <3>2, RowMemory
      <4>2. memory[row[q].memory].claim = proposal[q].claim
        BY <4>1 DEF MemoryInv, Linked
      <4> QED
        BY <1>6, <1>7, <3>2, <4>1, <4>2 DEF Kept
    <3> QED
      BY <3>1, <3>2
  <2> QED
    BY <2>1, <2>2, <2>3 DEF Linked, Kept
<1>10. Justified'
  BY <1>1, <1>6, <1>7 DEF MemoryInv, Justified, Admitted, Warranted, Made
<1>11. /\ RowsOf(m)' = RowsOf(m) \cup {i}
       /\ \A n \in Proposals \ {m} : RowsOf(n)' = RowsOf(n)
       /\ \A n \in Proposals : RowsOf(n) \subseteq Proposals \ {i}
  BY <1>1, <1>6 DEF RowsOf, HasRow, Proposals
<1>12. Counted'
  <2>1. \A n \in Proposals : Kept(n)' => Last(n)' \in Nat
    BY <1>2, <1>4, <1>7, <1>8 DEF MemoryInv, Counted
  <2>2. ASSUME NEW q \in Proposals, HasRow(q)'
        PROVE /\ row'[q].revision \in 1 .. Last(row[q].memory)'
              /\ proposal'[q].confidence <= memory'[row'[q].memory].confidence
    <3>1. CASE q = i
      <4>1. Last(row[i].memory)' = Last(m) + 1
        BY <1>5, <1>6, <1>8 DEF Last
      <4>2. row'[i].revision = Last(m) + 1 /\ Last(m) \in Nat
        BY <1>4, <1>6, <1>8
      <4>3. proposal'[i].confidence <= record.confidence
        BY <1>4, <1>5, <1>6
      <4> QED
        BY <1>6, <3>1, <4>1, <4>2, <4>3
    <3>2. CASE q # i
      <4>1. /\ row'[q] = row[q] /\ proposal'[q] = proposal[q] /\ HasRow(q)
            /\ row[q].memory \in Proposals /\ row[q] \in Row
        BY <1>6, <1>7, <2>2, <3>2, RowMemory
      <4>2. /\ row[q].revision \in 1 .. Last(row[q].memory)
            /\ proposal[q].confidence <= memory[row[q].memory].confidence
            /\ proposal[q].confidence \in Nat
        <5>1. proposal[q] \in Proposal
          BY <4>1 DEF MemoryInv, Typed, Linked, NoProposal
        <5>2. proposal[q].confidence \in Nat
          BY <5>1, MemoryAssumption DEF Proposal
        <5> QED
          BY <4>1, <5>2 DEF MemoryInv, Counted
      <4>3. CASE row[q].memory = m
        <5>1. Last(row[q].memory)' = Last(m) + 1
          BY <1>8, <4>1, <4>3 DEF Last
        <5>2. memory'[m].confidence >= memory[m].confidence
          BY <1>4, <1>5, <1>6
        <5> QED
          BY <1>4, <1>5, <1>6, <1>8, <4>1, <4>2, <4>3, <5>1, <5>2
      <4>4. CASE row[q].memory # m
        <5>1. Last(row[q].memory)' = Last(row[q].memory)
          BY <1>6, <4>1, <4>4 DEF Last
        <5> QED
          BY <1>6, <4>1, <4>2, <4>4, <5>1
      <4> QED
        BY <4>3, <4>4
    <3> QED
      BY <3>1, <3>2
  <2>3. ASSUME NEW q \in Proposals, NEW t \in Proposals, HasRow(q)',
               row'[q].memory = row'[t].memory, row'[q].revision = row'[t].revision
        PROVE q = t
    <3>1. \A u \in Proposals \ {i} : row[u].memory = m => row[u].revision <= Last(m)
      <4>1. ASSUME NEW u \in Proposals \ {i}, row[u].memory = m PROVE row[u].revision <= Last(m)
        BY <1>2, <4>1 DEF MemoryInv, Counted, HasRow, Proposals
      <4> QED
        BY <4>1
    <3>2. row'[i].memory = m /\ row'[i].revision = Last(m) + 1 /\ Last(m) \in Nat
      BY <1>4, <1>6, <1>8
    <3>3. CASE q = i \/ t = i
      <4>1. \A u \in Proposals \ {i} : row[u].memory = m => row[u].revision # Last(m) + 1
        BY <1>2, <1>4, <1>8, <3>1 DEF MemoryInv, Counted, HasRow, Proposals
      <4> QED
        BY <1>6, <2>3, <3>2, <3>3, <4>1
    <3>4. CASE q # i /\ t # i
      BY <1>6, <1>7, <2>3, <3>4 DEF MemoryInv, Counted
    <3> QED
      BY <3>3, <3>4
  <2>4. ASSUME NEW n \in Proposals, Kept(n)'
        PROVE /\ \A r \in 1 .. Last(n)' : \E q \in RowsOf(n)' : row'[q].revision = r
              /\ \E q \in RowsOf(n)' : proposal'[q].confidence = memory'[n].confidence
    <3>1. /\ \A r \in 1 .. Last(n) : \E q \in RowsOf(n) : row[q].revision = r
          /\ \E q \in RowsOf(n) : proposal[q].confidence = memory[n].confidence
      BY <1>7, <2>4 DEF MemoryInv, Counted
    <3>2. CASE n = m
      <4>1. \A r \in 1 .. Last(m)' : r \in 1 .. Last(m) \/ r = Last(m) + 1
        BY <1>4, <1>8
      <4>2. i \in RowsOf(m)' /\ row'[i].revision = Last(m) + 1
        BY <1>6, <1>8, <1>11
      <4>3. \A r \in 1 .. Last(m)' : \E q \in RowsOf(m)' : row'[q].revision = r
        BY <1>6, <1>11, <3>1, <3>2, <4>1, <4>2
      <4>4. CASE p.confidence > memory[m].confidence
        BY <1>5, <1>6, <3>2, <4>2, <4>3, <4>4
      <4>5. CASE ~(p.confidence > memory[m].confidence)
        BY <1>5, <1>6, <1>11, <3>1, <3>2, <4>3, <4>5
      <4> QED
        BY <4>4, <4>5
    <3>3. CASE n # m
      BY <1>6, <1>8, <1>11, <3>1, <3>3
    <3> QED
      BY <3>2, <3>3
  <2> QED
    BY <2>1, <2>2, <2>3, <2>4 DEF Counted
<1>13. OneMemoryPerClaim'
  BY <1>7 DEF MemoryInv, OneMemoryPerClaim
<1> QED
  BY <1>6, <1>9, <1>10, <1>12, <1>13 DEF MemoryInv, Typed

-----------------------------------------------------------------------------
(* The steps.                                                              *)

LEMMA AcceptKeeps ==
    ASSUME MemoryInv, NEW i, NEW p, Admitted(i, p), p.status = "pending",
           NEW by \in {"founder", "automatic"}, Warranted(p, by), AcceptLocked(i, p, by),
           UNCHANGED now
    PROVE MemoryInv'
  BY FoundKeeps, MergeKeeps DEF AcceptLocked

LEMMA ProposeKeeps ==
    ASSUME MemoryInv, ProposeStep
    PROVE MemoryInv'
<1>1. PICK i \in Proposals, input \in Inputs, e \in Executions \cup {Nobody}, t \in 1 .. Never :
          Propose(i, ProposalOf(input, e, t))
  BY DEF ProposeStep
<1> DEFINE p == ProposalOf(input, e, t)
<1>2. p \in Proposal /\ p.status = "pending"
  BY MemoryAssumption DEF ProposalOf, Proposal
<1>3. p.claim.epistemic \in EpistemicByType[p.claim.type] /\ UNCHANGED now
  BY <1>1 DEF Propose, Normalized
<1>4. proposal[i].status = "none"
  BY <1>1 DEF Propose, NoProposal
<1>5. Admitted(i, p)
  BY <1>2, <1>3, <1>4 DEF Admitted
<1> HIDE DEF p
<1>6. CASE Automatic(p) /\ AcceptLocked(i, p, "automatic")
  <2>1. Warranted(p, "automatic")
    BY <1>6 DEF Automatic, Warranted
  <2> QED
    BY <1>2, <1>3, <1>5, <1>6, <2>1, AcceptKeeps
<1>7. CASE proposal' = [proposal EXCEPT ![i] = p] /\ UNCHANGED <<memory, row>>
  BY <1>2, <1>3, <1>4, <1>7, UndecidedKeeps
<1> QED
  BY <1>1, <1>6, <1>7 DEF Propose, p

LEMMA DecideKeeps ==
    ASSUME MemoryInv, NEW i \in Proposals, NEW accept \in BOOLEAN, DecideProposal(i, accept)
    PROVE MemoryInv'
<1> DEFINE p == proposal[i]
<1>1. p.status = "pending" /\ p \in Proposal /\ UNCHANGED now
  BY DEF DecideProposal, MemoryInv, Typed, NoProposal
<1>2. p.claim.epistemic \in EpistemicByType[p.claim.type]
  BY <1>1 DEF MemoryInv, Justified, Made
<1>3. CASE AcceptLocked(i, p, "founder")
  BY <1>1, <1>2, <1>3, AcceptKeeps DEF Admitted, Warranted
<1>4. CASE proposal' = [proposal EXCEPT ![i].status = "rejected"] /\ UNCHANGED <<memory, row>>
  <2> DEFINE refused == [p EXCEPT !.status = "rejected"]
  <2>1. refused \in Proposal /\ refused.status = "rejected" /\ refused.claim = p.claim
    BY <1>1 DEF Proposal
  <2>2. proposal' = [proposal EXCEPT ![i] = refused]
    BY <1>4
  <2> HIDE DEF refused
  <2> QED
    BY <1>1, <1>2, <1>4, <2>1, <2>2, UndecidedKeeps
<1> QED
  BY <1>3, <1>4 DEF DecideProposal

\* Nothing of the memories changes but that fewer of them may be live.
LEMMA FewerLive ==
    ASSUME MemoryInv, UNCHANGED <<proposal, row>>, now' \in Nat,
           memory' \in [Proposals -> {NoRecord} \cup Record],
           \A n \in Proposals : /\ Kept(n)' <=> Kept(n)
                                /\ Last(n)' = Last(n)
                                /\ Live(n)' => Live(n)
                                /\ Kept(n) => /\ memory'[n].claim = memory[n].claim
                                              /\ memory'[n].confidence = memory[n].confidence
    PROVE MemoryInv'
<1>1. \A q : (HasRow(q)' <=> HasRow(q)) /\ (Made(q)' <=> Made(q)) /\ RowsOf(q)' = RowsOf(q)
  BY DEF HasRow, Made, RowsOf
<1>2. \A q \in Proposals : HasRow(q) => row[q].memory \in Proposals /\ Kept(row[q].memory)
  BY RowMemory
<1>3. Linked'
  BY <1>1, <1>2 DEF MemoryInv, Linked, Kept
<1>4. Justified'
  BY <1>1 DEF MemoryInv, Justified
<1>5. Counted'
  <2>1. \A n \in Proposals : Kept(n)' => Last(n)' \in Nat
    BY DEF MemoryInv, Counted
  <2>2. \A q \in Proposals : HasRow(q)' =>
            /\ row'[q].revision \in 1 .. Last(row[q].memory)'
            /\ proposal'[q].confidence <= memory'[row'[q].memory].confidence
    <3>1. \A q \in Proposals : HasRow(q) => Last(row[q].memory)' = Last(row[q].memory)
      BY <1>2 DEF Last
    <3> QED
      BY <1>1, <1>2, <3>1 DEF MemoryInv, Counted
  <2>3. \A q, t \in Proposals :
            HasRow(q)' /\ row'[q].memory = row'[t].memory /\ row'[q].revision = row'[t].revision
            => q = t
    BY <1>1 DEF MemoryInv, Counted
  <2>4. \A n \in Proposals : Kept(n)' =>
            /\ \A r \in 1 .. Last(n)' : \E q \in RowsOf(n)' : row'[q].revision = r
            /\ \E q \in RowsOf(n)' : proposal'[q].confidence = memory'[n].confidence
    BY <1>1 DEF MemoryInv, Counted
  <2> QED
    BY <2>1, <2>2, <2>3, <2>4 DEF Counted
<1>6. OneMemoryPerClaim'
  BY DEF MemoryInv, OneMemoryPerClaim, Live, Kept
<1> QED
  BY <1>3, <1>4, <1>5, <1>6 DEF MemoryInv, Typed

LEMMA InvalidateKeeps ==
    ASSUME MemoryInv, NEW m \in Proposals, Invalidate(m)
    PROVE MemoryInv'
<1> DEFINE old == memory[m]
           record == [old EXCEPT !.status = "invalidated", !.revision = @ + 1]
<1>1. old.status = "active" /\ old \in Record /\ UNCHANGED <<proposal, row, now>>
  BY DEF Invalidate, MemoryInv, Typed, NoRecord
<1>2. old.revision \in Nat /\ old.revision + 1 \in Nat
  BY <1>1 DEF Record
<1>3. /\ record \in Record /\ record.status = "invalidated" /\ record.revision = old.revision + 1
      /\ record.claim = old.claim /\ record.confidence = old.confidence
  <2> HIDE DEF old
  <2> QED
    BY <1>1, <1>2 DEF Record
<1>4. memory' = [memory EXCEPT ![m] = record]
  BY DEF Invalidate
<1> HIDE DEF record
<1>5. /\ memory' \in [Proposals -> {NoRecord} \cup Record]
      /\ memory'[m] = record /\ \A n \in Proposals \ {m} : memory'[n] = memory[n]
  BY <1>3, <1>4 DEF MemoryInv, Typed
<1>6. \A n \in Proposals : /\ Kept(n)' <=> Kept(n)
                           /\ Last(n)' = Last(n)
                           /\ Live(n)' => Live(n)
                           /\ Kept(n) => /\ memory'[n].claim = memory[n].claim
                                         /\ memory'[n].confidence = memory[n].confidence
  <2>1. ASSUME NEW n \in Proposals, n # m
        PROVE /\ Kept(n)' <=> Kept(n)
              /\ Last(n)' = Last(n)
              /\ Live(n)' => Live(n)
              /\ memory'[n].claim = memory[n].claim
              /\ memory'[n].confidence = memory[n].confidence
    BY <1>1, <1>5, <2>1 DEF Kept, Last, Live
  <2>2. /\ Kept(m)' <=> Kept(m)
        /\ Last(m)' = Last(m)
        /\ Live(m)' => Live(m)
        /\ memory'[m].claim = memory[m].claim
        /\ memory'[m].confidence = memory[m].confidence
    BY <1>1, <1>2, <1>3, <1>5 DEF Kept, Last, Live
  <2> QED
    BY <2>1, <2>2
<1>7. now' \in Nat
  BY <1>1 DEF MemoryInv, Typed
<1> QED
  BY <1>1, <1>5, <1>6, <1>7, FewerLive

LEMMA TimeKeeps ==
    ASSUME MemoryInv, TimePasses
    PROVE MemoryInv'
<1>1. UNCHANGED <<proposal, memory, row>> /\ now \in Nat /\ now' = now + 1
  BY DEF TimePasses, MemoryInv, Typed
<1>2. \A n \in Proposals : Live(n)' => Live(n)
  <2>1. ASSUME NEW n \in Proposals, Live(n)' PROVE Live(n)
    <3>1. memory[n] \in Record
      BY <1>1, <2>1 DEF Live, MemoryInv, Typed, NoRecord
    <3>2. memory[n].expires \in Nat
      BY <3>1, MemoryAssumption DEF Record, Never
    <3> QED
      BY <1>1, <2>1, <3>2 DEF Live
  <2> QED
    BY <2>1
<1>3. \A n \in Proposals : (Kept(n)' <=> Kept(n)) /\ Last(n)' = Last(n)
  BY <1>1 DEF Kept, Last
<1> QED
  BY <1>1, <1>2, <1>3, FewerLive DEF MemoryInv, Typed

LEMMA MemoryUnchanged ==
    ASSUME MemoryInv, UNCHANGED <<proposal, memory, row, now>>
    PROVE MemoryInv'
  BY DEF MemoryInv, Typed, Linked, Justified, Counted, OneMemoryPerClaim, HasRow, Kept, Made, Last,
     RowsOf, Live

LEMMA MemoryKeeps == MemoryInv /\ [Next]_vars => MemoryInv'
<1> SUFFICES ASSUME MemoryInv, [Next]_vars PROVE MemoryInv'
  OBVIOUS
<1>1. CASE LoadPage
  BY <1>1, MemoryUnchanged DEF LoadPage
<1>2. CASE \E types \in PolicyTypes, floor \in Confidences : UpdatePolicy(types, floor)
  BY <1>2, MemoryUnchanged DEF UpdatePolicy
<1>3. CASE UNCHANGED memoryVars
  BY <1>3, MemoryUnchanged DEF memoryVars
<1> QED
  BY <1>1, <1>2, <1>3, TimeKeeps, ProposeKeeps, DecideKeeps, InvalidateKeeps
     DEF Next, vars, MemoryStep

THEOREM MemoryInvariant == Spec => []MemoryInv
  BY MemoryInit, MemoryKeeps, PTL DEF Spec

(* However proposals, decisions, policies, expiry and invalidation mix, a claim is in     *)
(* effect at most once.                                                                    *)
THEOREM ClaimsAreUnique == Spec => []OneMemoryPerClaim
<1>1. MemoryInv => OneMemoryPerClaim
  BY DEF MemoryInv
<1> QED
  BY <1>1, MemoryInvariant, PTL

\* A type that is eligible for automatic acceptance has no status that is the founder's.
LEMMA EligibleIsNotTheFounders ==
    ASSUME NEW c, c.type \in AutomaticEligible, c.epistemic \in EpistemicByType[c.type]
    PROVE c.epistemic \notin {"decision", "preference", "founder_approved_fact"}
<1>1. CASE c.type = "working"
  BY <1>1 DEF EpistemicByType
<1>2. CASE c.type = "episodic"
  BY <1>2 DEF EpistemicByType
<1>3. CASE c.type = "workflow"
  BY <1>3 DEF EpistemicByType
<1>4. CASE c.type = "evaluation"
  BY <1>4 DEF EpistemicByType
<1> QED
  BY <1>1, <1>2, <1>3, <1>4 DEF AutomaticEligible

(* Whatever is shown with the founder's authority, she accepted each time.                *)
THEOREM AuthorityIsHers == Spec => []AuthorityIsTheFounders
<1>1. ASSUME MemoryInv, NEW m \in Proposals, NEW p \in RowsOf(m)
      PROVE /\ proposal[p].claim = memory[m].claim
            /\ Authority(m) \in FounderOnly \cup {"founder_approved_fact"}
                  => row[p].by = "founder"
  <2>1. p \in Proposals /\ row[p].memory = m /\ HasRow(p)
    BY DEF RowsOf, HasRow, Proposals
  <2>2. row[p] \in Row /\ proposal[p].claim = memory[m].claim
    BY <1>1, <2>1, RowMemory DEF MemoryInv, Linked
  <2>3. Made(p)
    BY <1>1, <2>1 DEF MemoryInv, Linked, Made
  <2>4. CASE row[p].by = "automatic"
    <3>1. /\ memory[m].claim.type \in AutomaticEligible /\ memory[m].claim.epistemic # "fact"
          /\ memory[m].claim.epistemic \in EpistemicByType[memory[m].claim.type]
      BY <1>1, <2>1, <2>2, <2>3, <2>4 DEF MemoryInv, Justified
    <3>2. memory[m].claim.epistemic \notin {"decision", "preference", "founder_approved_fact"}
      BY <3>1, EligibleIsNotTheFounders
    <3> QED
      BY <2>2, <3>1, <3>2 DEF Authority, FounderOnly
  <2> QED
    BY <2>2, <2>4 DEF Row
<1>2. MemoryInv => AuthorityIsTheFounders
  BY <1>1 DEF AuthorityIsTheFounders, Retrieved
<1> QED
  BY <1>2, MemoryInvariant, PTL

\* The maximum, when a member that is not exceeded is known.
LEMMA MaxIs ==
    ASSUME NEW S \in SUBSET Nat, NEW x \in S, \A y \in S : y <= x
    PROVE Max(S) = x
<1>1. \A y \in S : x >= y
  OBVIOUS
<1>2. ASSUME NEW z \in S, \A y \in S : z >= y PROVE z = x
  BY <1>2
<1> QED
  BY <1>1, <1>2, Zenon DEF Max

(* The rows of a record are its revisions without gap or repetition, one for each proposal *)
(* it took in, and its confidence is the highest of theirs.                                 *)
THEOREM HistoryStays == Spec => []HistoryIsComplete
<1>1. ASSUME MemoryInv PROVE HistoryIsComplete
  <2> USE <1>1
  <2>1. \A p \in Proposals : row[p] # NoRow <=> HasRow(p)
    BY DEF MemoryInv, Typed, HasRow, NoRow, Row, Proposals
  <2>2. \A p \in Proposals : row[p] # NoRow <=> proposal[p].status \in {"accepted", "merged"}
    BY <2>1 DEF MemoryInv, Linked
  <2>3. ASSUME NEW m \in Proposals, memory[m] # NoRecord
        PROVE /\ {row[p].revision : p \in RowsOf(m)} = 1 .. Last(m)
              /\ \A p, q \in RowsOf(m) : row[p].revision = row[q].revision => p = q
              /\ memory[m].confidence = Max({proposal[p].confidence : p \in RowsOf(m)})
    <3>1. Kept(m)
      BY <2>3 DEF MemoryInv, Typed, Kept, Record
    <3>2. \A p \in RowsOf(m) : p \in Proposals /\ row[p].memory = m /\ HasRow(p)
      BY DEF RowsOf, HasRow, Proposals
    <3>3. \A p \in RowsOf(m) : /\ row[p].revision \in 1 .. Last(m)
                               /\ proposal[p].confidence <= memory[m].confidence
      BY <3>2 DEF MemoryInv, Counted
    <3>4. \A r \in 1 .. Last(m) : \E p \in RowsOf(m) : row[p].revision = r
      BY <3>1 DEF MemoryInv, Counted
    <3>5. \A p, q \in RowsOf(m) : row[p].revision = row[q].revision => p = q
      BY <3>2 DEF MemoryInv, Counted
    <3>6. memory[m].confidence = Max({proposal[p].confidence : p \in RowsOf(m)})
      <4> DEFINE S == {proposal[p].confidence : p \in RowsOf(m)}
      <4>1. S \subseteq Nat
        <5>1. ASSUME NEW p \in RowsOf(m) PROVE proposal[p].confidence \in Nat
          <6>1. proposal[p] \in Proposal
            BY <3>2 DEF MemoryInv, Typed, Linked, NoProposal
          <6> QED
            BY <6>1, MemoryAssumption DEF Proposal
        <5> QED
          BY <5>1
      <4>2. memory[m].confidence \in S /\ \A y \in S : y <= memory[m].confidence
        BY <3>1, <3>3 DEF MemoryInv, Counted
      <4> QED
        BY <4>1, <4>2, MaxIs
    <3> QED
      BY <3>3, <3>4, <3>5, <3>6
  <2> QED
    BY <2>2, <2>3 DEF HistoryIsComplete, Last
<1> QED
  BY <1>1, MemoryInvariant, PTL
=============================================================================
