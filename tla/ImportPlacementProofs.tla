------------------------ MODULE ImportPlacementProofs ------------------------
(***************************************************************************)
(* Proofs about ImportPlacement for every set of contents, types, times    *)
(* and requests: ImportInv is inductive, and the safety properties follow  *)
(* from it.                                                                *)
(***************************************************************************)
EXTENDS ImportPlacement, TLAPS

(* An idle request is a request, and was told of no file.                  *)
LEMMA NoRequestIdle ==
  /\ NoRequest \in Request
  /\ NoRequest.pc = "idle" /\ NoRequest.present = FALSE
  <1>1. PICK h \in Hash, m \in Mime : TRUE
    BY ImportAssumption
  <1> DEFINE r == [pc |-> "idle", file |-> [hash |-> h, mime |-> m, time |-> 0],
                   present |-> FALSE]
  <1>2. r \in Request
    BY ImportAssumption DEF Request, Step, File
  <1>3. \E s \in Request : s.pc = "idle" /\ ~s.present
    BY <1>2
  <1>4. NoRequest \in Request /\ NoRequest.pc = "idle" /\ ~NoRequest.present
    BY <1>3 DEF NoRequest
  <1>5. QED
    BY <1>4 DEF Request

(* The rows of the open transaction are of the contents it records.        *)
LEMMA DirtyHash ==
  ASSUME DirtyInv, NEW p \in Importer, req[p].pc = "commit", NEW s \in dirty
  PROVE  s.hash = req[p].file.hash
  <1>1. dirty = {RowOf(req[p].file)}
    BY DEF DirtyInv
  <1>2. RowOf(req[p].file).hash = req[p].file.hash
    BY DEF RowOf
  <1>3. QED
    BY <1>1, <1>2

(* A step of one request that leaves files and rows alone keeps the        *)
(* invariant when it does not start a transaction, ends its own by a       *)
(* rollback, and the request it becomes relies on what is so.              *)
LEMMA RequestStep ==
  ASSUME ImportInv, NEW p \in Importer, NEW r \in Request,
         req' = [req EXCEPT ![p] = r],
         UNCHANGED <<files, rows>>,
         dirty' = IF req[p].pc = "commit" THEN {} ELSE dirty,
         answered \subseteq answered', shared \subseteq shared',
         failing \subseteq failing', abandoned \subseteq abandoned',
         answered' \cup shared' \cup failing' \cup abandoned' \subseteq Hash,
         kept \subseteq kept', kept' \subseteq File,
         r.pc # "commit",
         req[p].pc = "commit" => req[p].file.hash \in failing',
         r.pc # "idle" =>
           \A q \in Importer \ {p} :
             req[q].pc # "idle" /\ req[q].file.hash = r.file.hash
               => r.file.hash \in shared',
         r.present => r.pc = "record",
         r.pc = "record" => At(r.file) # {} \/ r.file.hash \in Excepted',
         r.pc = "lookup" => Recorded(r.file.hash) \/ r.file.hash \in failing',
         r.pc = "remove" =>
           /\ r.file.hash \in failing'
           /\ Recorded(r.file.hash) => r.file.hash \in shared',
         r.pc = "urls" =>
           \/ Recorded(r.file.hash)
           \/ r.file.hash \in shared' /\ \E s \in dirty' : s.hash = r.file.hash,
         \A f \in files :
           Owns(p, f) =>
             \/ Settled(f)'
             \/ r.pc \in {"record", "lookup", "remove"} /\ ~r.present
                  /\ r.file = req[p].file,
         \A h \in answered' \ answered :
           Recorded(h) \/ h \in Excepted
  PROVE  ImportInv'
  <1>1. /\ TypeOK /\ SharedInv /\ PresentInv /\ DirtyInv /\ PlacedInv
        /\ OwnerInv /\ RecordedPresent /\ AnswerDurable
    BY DEF ImportInv
  <1>2. req \in [Importer -> Request] /\ req' \in [Importer -> Request]
    BY <1>1 DEF TypeOK
  <1>3. req'[p] = r /\ \A q \in Importer \ {p} : req'[q] = req[q]
    BY <1>2
  <1>4. Excepted \subseteq Excepted'
    BY DEF Excepted
  <1>5. /\ \A h : Recorded(h)' <=> Recorded(h)
        /\ \A f : Settled(f) => Settled(f)'
    BY DEF Recorded, Settled, RecordedAs
  <1>6. \A f : At(f)' = At(f)
    BY DEF At
  <1>7. \A s \in dirty \ dirty' :
          s.hash = req[p].file.hash /\ s.hash \in failing'
    BY <1>1, DirtyHash
  <1>8. TypeOK'
    <2>1. dirty' # {} => ~GateFree'
      BY <1>1, <1>3 DEF TypeOK, GateFree
    <2>2. \A q, t \in Importer :
            req'[q].pc = "commit" /\ req'[t].pc = "commit" => q = t
      BY <1>1, <1>3 DEF TypeOK
    <2>3. dirty' \subseteq dirty
      OBVIOUS
    <2>4. QED
      BY <1>1, <1>2, <2>1, <2>2, <2>3 DEF TypeOK
  <1>9. SharedInv'
    BY <1>1, <1>3 DEF SharedInv
  <1>10. PresentInv'
    BY <1>1, <1>3 DEF PresentInv
  <1>11. DirtyInv'
    <2> SUFFICES ASSUME NEW q \in Importer, req'[q].pc = "commit"
                 PROVE  \/ dirty' = {} /\ RowOf(req[q].file)' \in rows'
                        \/ dirty' = {RowOf(req[q].file)'}
      BY DEF DirtyInv
    <2>1. q # p /\ req'[q] = req[q]
      BY <1>3
    <2>2. req[p].pc # "commit"
      BY <1>1, <2>1 DEF TypeOK
    <2>3. QED
      BY <1>1, <1>5, <2>1, <2>2 DEF DirtyInv, RowOf
  <1>12. PlacedInv'
    <2> SUFFICES ASSUME NEW q \in Importer PROVE Placed(q)'
      BY DEF PlacedInv
    <2>1. CASE q = p
      BY <1>3, <1>5, <1>6, <2>1 DEF Placed
    <2>2. CASE q # p
      <3>1. req'[q] = req[q]
        BY <1>3, <2>2
      <3>2. \A h : h \in shared /\ (\E s \in dirty : s.hash = h) =>
              h \in Excepted' \/ \E s \in dirty' : s.hash = h
        BY <1>7 DEF Excepted
      <3>3. QED
        BY <1>1, <1>4, <1>5, <1>6, <3>1, <3>2 DEF PlacedInv, Placed
    <2>3. QED
      BY <2>1, <2>2
  <1>13. OwnerInv'
    <2> SUFFICES ASSUME NEW f \in files
                 PROVE  \/ Settled(f)'
                        \/ \E q \in Importer : Owns(q, f)'
      BY DEF OwnerInv
    <2>1. CASE Settled(f)
      BY <1>5, <2>1
    <2>2. CASE \E q \in Importer : Owns(q, f)
      <3>1. PICK q \in Importer : Owns(q, f)
        BY <2>2
      <3>2. CASE q # p
        BY <1>3, <3>1, <3>2 DEF Owns
      <3>3. CASE q = p
        BY <1>3, <1>5, <3>1, <3>3 DEF Owns
      <3>4. QED
        BY <3>2, <3>3
    <2>3. QED
      BY <1>1, <2>1, <2>2 DEF OwnerInv
  <1>14. RecordedPresent'
    BY <1>1, <1>4, <1>6 DEF RecordedPresent, Excepted
  <1>15. AnswerDurable'
    BY <1>1, <1>4, <1>5 DEF AnswerDurable, Excepted
  <1>16. QED
    BY <1>8, <1>9, <1>10, <1>11, <1>12, <1>13, <1>14, <1>15 DEF ImportInv

(* Goto and Finish change the request they name and no other.              *)
LEMMA GotoFinish ==
  ASSUME TypeOK, NEW p \in Importer
  PROVE  /\ \A step \in Step :
              Goto(p, step) =>
                req' = [req EXCEPT ![p] = [pc |-> step, file |-> req[p].file,
                                           present |-> req[p].present]]
         /\ Finish(p) => req' = [req EXCEPT ![p] = NoRequest]
  <1>1. req[p] \in [pc : Step, file : File, present : BOOLEAN]
    BY DEF TypeOK, Request
  <1>2. \A step \in Step :
          [req[p] EXCEPT !.pc = step] =
            [pc |-> step, file |-> req[p].file, present |-> req[p].present]
    BY <1>1
  <1>3. \A step \in Step :
          [req EXCEPT ![p].pc = step] =
            [req EXCEPT ![p] = [req[p] EXCEPT !.pc = step]]
    OBVIOUS
  <1>4. QED
    BY <1>2, <1>3 DEF Goto, Finish

(* ImportLocalPath, ImportUpload and ImportURL.                            *)
LEMMA AcceptStep ==
  ASSUME ImportInv, NEW p \in Importer, NEW f \in File,
         \/ ImportLocalPath(p, f) \/ ImportUpload(p, f) \/ ImportURL(p, f)
  PROVE  ImportInv'
  <1>1. PICK step \in {"urls", "check"} :
          Accept(p, f, step) /\ (step = "urls" => LookupImported(f.hash))
    <2>1. \/ Accept(p, f, "check")
          \/ Accept(p, f, "urls") /\ LookupImported(f.hash)
      <3>1. CASE LookupImported(f.hash)
        BY <3>1 DEF ImportLocalPath, ImportUpload, ImportURL
      <3>2. CASE ~LookupImported(f.hash)
        BY <3>2 DEF ImportLocalPath, ImportUpload, ImportURL
      <3>3. QED
        BY <3>1, <3>2
    <2>2. CASE Accept(p, f, "check")
      <3>1. "check" # "urls"
        OBVIOUS
      <3>2. QED
        BY <2>2, <3>1, Zenon
    <2>3. CASE Accept(p, f, "urls") /\ LookupImported(f.hash)
      BY <2>3, Zenon
    <2>4. QED
      BY <2>1, <2>2, <2>3
  <1> DEFINE r == [pc |-> step, file |-> f, present |-> FALSE]
  <1>2. r \in Request /\ f.hash \in Hash
    BY DEF Request, Step, File
  <1>3. TypeOK /\ SharedInv /\ DirtyInv
    BY DEF ImportInv
  <1>4. \A q \in Importer \ {p} :
          req[q].pc # "idle" /\ req[q].file.hash = f.hash
            => f.hash \in shared'
    BY <1>1 DEF Accept, Busy
  <1>5. LookupImported(f.hash) =>
          \/ Recorded(f.hash)
          \/ f.hash \in shared' /\ \E s \in dirty : s.hash = f.hash
    <2> SUFFICES ASSUME NEW s \in dirty, s.hash = f.hash
                 PROVE  f.hash \in shared'
      BY DEF LookupImported, Recorded
    <2>1. PICK q \in Importer : req[q].pc = "commit"
      BY <1>3 DEF TypeOK, GateFree
    <2>2. req[q].file.hash = f.hash
      BY <1>3, <2>1, DirtyHash
    <2>3. q # p
      BY <1>1, <2>1 DEF Accept
    <2>4. QED
      BY <1>4, <2>1, <2>2, <2>3
  <1>6. /\ shared \subseteq shared' /\ shared' \subseteq Hash
        /\ req[p].pc = "idle" /\ req' = [req EXCEPT ![p] = r]
        /\ UNCHANGED <<files, rows, dirty, answered, failing, abandoned, kept>>
    BY <1>1, <1>2, <1>3 DEF Accept, TypeOK
  <1>7. /\ answered' \cup shared' \cup failing' \cup abandoned' \subseteq Hash
        /\ kept' \subseteq File
    BY <1>3, <1>6 DEF TypeOK
  <1>8. \A g \in files : ~Owns(p, g)
    BY <1>6 DEF Owns
  <1>9. /\ r.pc = step /\ r.file = f /\ r.present = FALSE
        /\ step # "commit" /\ step # "record" /\ step # "lookup"
        /\ step # "remove"
    OBVIOUS
  <1>10. /\ dirty' = IF req[p].pc = "commit" THEN {} ELSE dirty
         /\ \A h \in answered' \ answered : Recorded(h) \/ h \in Excepted
    BY <1>6
  <1> HIDE DEF r
  <1>11. r.pc = "urls" =>
           \/ Recorded(r.file.hash)
           \/ r.file.hash \in shared' /\ \E s \in dirty' : s.hash = r.file.hash
    BY <1>1, <1>5, <1>6, <1>9
  <1>12. QED
    BY <1>2, <1>4, <1>6, <1>7, <1>8, <1>9, <1>10, <1>11, RequestStep

(* A request that ends: AddKnownURLsByHash, a placement that fails, a      *)
(* record that fails or a cleanup that is done.                            *)
LEMMA FinishStep ==
  ASSUME ImportInv, NEW p \in Importer,
         Finish(p),
         UNCHANGED <<files, rows>>,
         dirty' = IF req[p].pc = "commit" THEN {} ELSE dirty,
         answered \subseteq answered', UNCHANGED shared,
         failing \subseteq failing', abandoned \subseteq abandoned',
         answered' \cup failing' \cup abandoned' \subseteq Hash,
         kept \subseteq kept', kept' \subseteq File,
         req[p].pc = "commit" => req[p].file.hash \in failing',
         \A f \in files :
           Owns(p, f) => Settled(f)',
         \A h \in answered' \ answered :
           Recorded(h) \/ h \in Excepted
  PROVE  ImportInv'
  <1>1. TypeOK
    BY DEF ImportInv
  <1>2. req' = [req EXCEPT ![p] = NoRequest]
    BY <1>1, GotoFinish
  <1>3. answered' \cup shared' \cup failing' \cup abandoned' \subseteq Hash
    BY <1>1 DEF TypeOK
  <1>4. QED
    BY <1>2, <1>3, NoRequestIdle, RequestStep

(* A request that goes on to another step of its own.                      *)
LEMMA GotoStep ==
  ASSUME ImportInv, NEW p \in Importer, NEW step \in Step, NEW b \in BOOLEAN,
         req' = [req EXCEPT ![p] = [pc |-> step, file |-> req[p].file,
                                    present |-> b]],
         req[p].pc # "idle",
         UNCHANGED <<files, rows, answered, shared, abandoned, kept>>,
         dirty' = IF req[p].pc = "commit" THEN {} ELSE dirty,
         failing \subseteq failing', failing' \subseteq Hash,
         step \notin {"commit", "urls", "idle"},
         req[p].pc = "commit" => req[p].file.hash \in failing',
         b => step = "record",
         step = "record" =>
           At(req[p].file) # {} \/ req[p].file.hash \in Excepted',
         step = "lookup" =>
           Recorded(req[p].file.hash) \/ req[p].file.hash \in failing',
         step = "remove" =>
           /\ req[p].file.hash \in failing'
           /\ Recorded(req[p].file.hash) => req[p].file.hash \in shared,
         \A f \in files :
           Owns(p, f) => step \in {"record", "lookup", "remove"} /\ ~b
  PROVE  ImportInv'
  <1> DEFINE r == [pc |-> step, file |-> req[p].file, present |-> b]
  <1>1. TypeOK /\ SharedInv
    BY DEF ImportInv
  <1>2. /\ r \in Request /\ r.pc = step /\ r.file = req[p].file
        /\ r.present = b
    BY <1>1 DEF TypeOK, Request
  <1>3. req' = [req EXCEPT ![p] = r]
    BY <1>1 DEF TypeOK, Request
  <1>4. /\ answered' \cup shared' \cup failing' \cup abandoned' \subseteq Hash
        /\ kept \subseteq kept' /\ kept' \subseteq File
    BY <1>1 DEF TypeOK
  <1>5. \A q \in Importer \ {p} :
          req[q].pc # "idle" /\ req[q].file.hash = req[p].file.hash
            => req[p].file.hash \in shared'
    BY <1>1 DEF SharedInv
  <1> HIDE DEF r
  <1>6. /\ answered \subseteq answered' /\ shared \subseteq shared'
        /\ abandoned \subseteq abandoned'
        /\ \A h \in answered' \ answered : Recorded(h) \/ h \in Excepted
    OBVIOUS
  <1>7. \A f \in files :
          Owns(p, f) =>
            \/ Settled(f)'
            \/ r.pc \in {"record", "lookup", "remove"} /\ ~r.present
                 /\ r.file = req[p].file
    BY <1>2
  <1>8. /\ r.pc # "commit" /\ r.pc # "urls"
        /\ r.present => r.pc = "record"
        /\ r.pc = "record" => At(r.file) # {} \/ r.file.hash \in Excepted'
        /\ r.pc = "lookup" =>
             Recorded(r.file.hash) \/ r.file.hash \in failing'
        /\ r.pc = "remove" =>
             /\ r.file.hash \in failing'
             /\ Recorded(r.file.hash) => r.file.hash \in shared'
        /\ r.pc # "idle" =>
             \A q \in Importer \ {p} :
               req[q].pc # "idle" /\ req[q].file.hash = r.file.hash
                 => r.file.hash \in shared'
    BY <1>2, <1>5
  <1>9. QED
    BY <1>2, <1>3, <1>4, <1>6, <1>7, <1>8, RequestStep

(* The file is published, by linkTempFileIntoPlace or by a placement that  *)
(* then fails to remove its temporary file.                                *)
LEMMA PublishStep ==
  ASSUME ImportInv, NEW p \in Importer, NEW r \in Request,
         NEW f \in File, req[p].file = f,
         req[p].pc = "link", At(f) = {},
         req' = [req EXCEPT ![p] = r],
         files' = files \cup {f},
         UNCHANGED <<rows, dirty, answered, shared, failing, kept>>,
         abandoned \subseteq abandoned', abandoned' \subseteq Hash,
         ~r.present,
         \/ r.pc = "record" /\ r.file = f
         \/ r.pc = "idle" /\ f.hash \in abandoned'
  PROVE  ImportInv'
  <1>1. /\ TypeOK /\ SharedInv /\ PresentInv /\ DirtyInv /\ PlacedInv
        /\ OwnerInv /\ RecordedPresent /\ AnswerDurable
    BY DEF ImportInv
  <1>2. /\ req \in [Importer -> Request] /\ req' \in [Importer -> Request]
        /\ f \in File
    BY <1>1 DEF TypeOK, Request
  <1>3. req'[p] = r /\ \A q \in Importer \ {p} : req'[q] = req[q]
    BY <1>2
  <1>4. /\ Excepted' = Excepted
        /\ \A h : Recorded(h)' <=> Recorded(h)
        /\ \A g : At(g) \subseteq At(g)'
        /\ \A g : Settled(g) => Settled(g)'
    BY DEF Excepted, Recorded, At, Settled, RecordedAs
  <1>5. f \in At(f)'
    BY DEF At
  <1>6. TypeOK'
    <2>1. \A g, h \in files' : g.hash = h.hash /\ g.mime = h.mime => g = h
      BY <1>1 DEF TypeOK, At
    <2>2. dirty' # {} => ~GateFree'
      BY <1>1, <1>3 DEF TypeOK, GateFree
    <2>3. \A q, t \in Importer :
            req'[q].pc = "commit" /\ req'[t].pc = "commit" => q = t
      BY <1>1, <1>3 DEF TypeOK
    <2>4. QED
      BY <1>1, <1>2, <2>1, <2>2, <2>3 DEF TypeOK
  <1>7. SharedInv'
    BY <1>1, <1>3 DEF SharedInv
  <1>8. PresentInv'
    BY <1>1, <1>3 DEF PresentInv
  <1>9. DirtyInv'
    BY <1>1, <1>3, <1>4 DEF DirtyInv, RowOf
  <1>10. PlacedInv'
    <2> SUFFICES ASSUME NEW q \in Importer PROVE Placed(q)'
      BY DEF PlacedInv
    <2>1. CASE q = p
      BY <1>3, <1>5, <2>1 DEF Placed
    <2>2. CASE q # p
      BY <1>1, <1>3, <1>4, <2>2 DEF PlacedInv, Placed
    <2>3. QED
      BY <2>1, <2>2
  <1>11. OwnerInv'
    <2> SUFFICES ASSUME NEW g \in files'
                 PROVE  \/ Settled(g)'
                        \/ \E q \in Importer : Owns(q, g)'
      BY DEF OwnerInv
    <2>1. CASE g = f
      BY <1>3, <2>1 DEF Owns, Settled
    <2>2. CASE g # f
      <3>1. \/ Settled(g)
            \/ \E q \in Importer : Owns(q, g)
        BY <1>1, <2>2 DEF OwnerInv
      <3>2. ~Owns(p, g)
        BY DEF Owns
      <3>3. \A q \in Importer : Owns(q, g) => Owns(q, g)'
        BY <1>3, <3>2 DEF Owns
      <3>4. QED
        BY <1>4, <3>1, <3>3
    <2>3. QED
      BY <2>1, <2>2
  <1>12. RecordedPresent' /\ AnswerDurable'
    BY <1>1, <1>4 DEF RecordedPresent, AnswerDurable, Excepted
  <1>13. QED
    BY <1>6, <1>7, <1>8, <1>9, <1>10, <1>11, <1>12 DEF ImportInv

(* RecordPreparedLocalImport up to its COMMIT: the row it will have was    *)
(* there, or is the transaction's.                                         *)
LEMMA BeginStep ==
  ASSUME ImportInv, NEW p \in Importer,
         NEW f \in File, req[p].file = f,
         req[p].pc = "record", GateFree, Goto(p, "commit"),
         \/ RowOf(f) \in rows /\ UNCHANGED dirty
         \/ ~Recorded(f.hash) /\ dirty' = {RowOf(f)},
         UNCHANGED <<files, rows, history>>
  PROVE  ImportInv'
  <1> DEFINE r == [pc |-> "commit", file |-> f, present |-> req[p].present]
  <1>1. /\ TypeOK /\ SharedInv /\ PresentInv /\ DirtyInv /\ PlacedInv
        /\ OwnerInv /\ RecordedPresent /\ AnswerDurable
    BY DEF ImportInv
  <1>2. /\ req' = [req EXCEPT ![p] = r] /\ r \in Request
        /\ RowOf(f) \in Row /\ RowOf(f).hash = f.hash
        /\ req' \in [Importer -> Request]
    BY <1>1, GotoFinish DEF TypeOK, Request, Step, File, Row, RowOf
  <1>3. /\ \A q \in Importer \ {p} : req'[q] = req[q]
        /\ req'[p].pc = "commit" /\ req'[p].file = f
        /\ req'[p].present = req[p].present
    BY <1>1, <1>2 DEF TypeOK
  <1>4. /\ Excepted' = Excepted
        /\ \A h : Recorded(h)' <=> Recorded(h)
        /\ \A g : At(g)' = At(g)
        /\ \A g : Settled(g)' <=> Settled(g)
        /\ shared' = shared
    BY DEF Excepted, Recorded, At, history, Settled, RecordedAs
  <1>5. dirty = {}
    BY <1>1 DEF TypeOK
  <1>6. \A q \in Importer \ {p} : req[q].pc # "commit"
    BY DEF GateFree
  <1>7. TypeOK'
    <2>1. \A x, y \in rows' \cup dirty' : x.hash = y.hash => x = y
      BY <1>1, <1>2, <1>5 DEF TypeOK, Recorded
    <2>2. dirty' # {} => ~GateFree'
      BY <1>3 DEF GateFree
    <2>3. \A q, t \in Importer :
            req'[q].pc = "commit" /\ req'[t].pc = "commit" => q = t
      BY <1>3, <1>6
    <2>4. QED
      BY <1>1, <1>2, <1>5, <2>1, <2>2, <2>3 DEF TypeOK, history
  <1>8. SharedInv'
    BY <1>1, <1>3, <1>4 DEF SharedInv
  <1>9. PresentInv'
    BY <1>1, <1>3 DEF PresentInv
  <1>10. DirtyInv'
    BY <1>3, <1>4, <1>5, <1>6 DEF DirtyInv, RowOf
  <1>11. PlacedInv'
    <2> SUFFICES ASSUME NEW q \in Importer PROVE Placed(q)'
      BY DEF PlacedInv
    <2>1. CASE q = p
      BY <1>1, <1>3, <1>4, <2>1 DEF PlacedInv, Placed
    <2>2. CASE q # p
      BY <1>1, <1>3, <1>4, <1>5, <2>2 DEF PlacedInv, Placed, history
    <2>3. QED
      BY <2>1, <2>2
  <1>12. OwnerInv'
    <2>1. \A q \in Importer, g \in files : Owns(q, g) => Owns(q, g)'
      BY <1>3 DEF Owns
    <2>2. QED
      BY <1>1, <1>4, <2>1 DEF OwnerInv
  <1>13. RecordedPresent' /\ AnswerDurable'
    BY <1>1, <1>4 DEF RecordedPresent, AnswerDurable, Excepted, history
  <1>14. QED
    BY <1>7, <1>8, <1>9, <1>10, <1>11, <1>12, <1>13 DEF ImportInv

(* The COMMIT takes effect, acknowledged or not.                           *)
LEMMA CommitStep ==
  ASSUME ImportInv, NEW p \in Importer, NEW r \in Request,
         NEW f \in File, req[p].file = f,
         req[p].pc = "commit",
         req' = [req EXCEPT ![p] = r],
         rows' = rows \cup dirty, dirty' = {},
         answered \subseteq answered',
         answered' \subseteq answered \cup {f.hash},
         UNCHANGED <<files, shared, failing, abandoned, kept>>,
         ~r.present,
         r.pc = "idle" \/ (r.pc = "lookup" /\ r.file = f)
  PROVE  ImportInv'
  <1>1. /\ TypeOK /\ SharedInv /\ PresentInv /\ DirtyInv /\ PlacedInv
        /\ OwnerInv /\ RecordedPresent /\ AnswerDurable
    BY DEF ImportInv
  <1>2. /\ req \in [Importer -> Request] /\ req' \in [Importer -> Request]
        /\ f \in File /\ f.hash \in Hash
    BY <1>1 DEF TypeOK, Request, File
  <1>3. req'[p] = r /\ \A q \in Importer \ {p} : req'[q] = req[q]
    BY <1>2
  <1>4. \/ dirty = {} /\ RowOf(f) \in rows
        \/ dirty = {RowOf(f)}
    BY <1>1 DEF DirtyInv
  <1>5. RowOf(f).hash = f.hash /\ RowOf(f).mime = f.mime
    BY DEF RowOf
  <1>6. /\ Excepted' = Excepted
        /\ \A h : Recorded(h) => Recorded(h)'
        /\ \A h : Recorded(h)' => Recorded(h) \/ h = f.hash
        /\ Recorded(f.hash)'
        /\ \A g : At(g)' = At(g)
        /\ \A g : Settled(g) => Settled(g)'
        /\ RowOf(f) \in rows'
    BY <1>4, <1>5 DEF Excepted, Recorded, At, Settled, RecordedAs
  <1>7. \A q \in Importer \ {p} : req'[q].pc # "commit"
    BY <1>1, <1>3 DEF TypeOK
  <1>8. TypeOK'
    BY <1>1, <1>2, <1>3, <1>7 DEF TypeOK
  <1>9. SharedInv'
    BY <1>1, <1>3 DEF SharedInv
  <1>10. PresentInv'
    BY <1>1, <1>3 DEF PresentInv
  <1>11. DirtyInv'
    BY <1>3, <1>7 DEF DirtyInv
  <1>12. PlacedInv'
    <2> SUFFICES ASSUME NEW q \in Importer PROVE Placed(q)'
      BY DEF PlacedInv
    <2>1. CASE q = p
      BY <1>3, <1>6, <2>1 DEF Placed
    <2>2. CASE q # p
      <3>1. req'[q] = req[q] /\ Placed(q)
        BY <1>1, <1>3, <2>2 DEF PlacedInv
      <3>2. req[q].pc # "idle" /\ req[q].file.hash = f.hash
              => f.hash \in shared
        BY <1>1, <2>2 DEF SharedInv
      <3>3. \A h : (\E x \in dirty : x.hash = h) => Recorded(h)'
        BY DEF Recorded
      <3>4. QED
        BY <1>6, <3>1, <3>2, <3>3 DEF Placed
    <2>3. QED
      BY <2>1, <2>2
  <1>13. OwnerInv'
    <2>1. \A g \in files : Owns(p, g) => Settled(g)'
      BY <1>5, <1>6 DEF Owns, Settled, RecordedAs
    <2>2. \A q \in Importer \ {p}, g \in files : Owns(q, g) => Owns(q, g)'
      BY <1>3 DEF Owns
    <2>3. QED
      BY <1>1, <1>6, <2>1, <2>2 DEF OwnerInv
  <1>14. RecordedPresent'
    <2> SUFFICES ASSUME NEW x \in rows', x.hash \notin Excepted
                 PROVE  At(x) # {}
      BY <1>6 DEF RecordedPresent, Excepted
    <2>1. CASE x \in rows
      BY <1>1, <2>1 DEF RecordedPresent, Excepted
    <2>2. CASE x = RowOf(f)
      <3>1. At(f) # {}
        BY <1>1, <1>5, <2>2 DEF PlacedInv, Placed
      <3>2. At(x) = At(f)
        BY <1>5, <2>2 DEF At
      <3>3. QED
        BY <3>1, <3>2
    <2>3. QED
      BY <1>4, <2>1, <2>2
  <1>15. AnswerDurable'
    BY <1>1, <1>6 DEF AnswerDurable, Excepted
  <1>16. QED
    BY <1>8, <1>9, <1>10, <1>11, <1>12, <1>13, <1>14, <1>15 DEF ImportInv

(* CleanupRemove: the lookup found no row, so whoever needs the file now   *)
(* was working on it at the same time.                                     *)
LEMMA RemoveStep ==
  ASSUME ImportInv, NEW p \in Importer,
         NEW f \in File, req[p].file = f,
         CleanupRemove(p)
  PROVE  ImportInv'
  <1>1. /\ TypeOK /\ SharedInv /\ PresentInv /\ DirtyInv /\ PlacedInv
        /\ OwnerInv /\ RecordedPresent /\ AnswerDurable
    BY DEF ImportInv
  <1>2. /\ req' = [req EXCEPT ![p] = NoRequest]
        /\ req \in [Importer -> Request] /\ req' \in [Importer -> Request]
    BY <1>1, GotoFinish, NoRequestIdle DEF CleanupRemove, TypeOK
  <1>3. /\ req'[p] = NoRequest /\ \A q \in Importer \ {p} : req'[q] = req[q]
        /\ NoRequest.pc = "idle" /\ ~NoRequest.present
    BY <1>2, NoRequestIdle
  <1>4. /\ files' = files \ At(f) /\ req[p].pc = "remove"
        /\ UNCHANGED <<rows, dirty, answered, shared, failing, abandoned, kept>>
    BY DEF CleanupRemove, history
  <1>5. /\ Excepted' = Excepted
        /\ \A h : Recorded(h)' <=> Recorded(h)
        /\ \A g : g.hash # f.hash => At(g)' = At(g)
        /\ \A g : Settled(g)' <=> Settled(g)
    BY <1>4 DEF Excepted, Recorded, At, Settled, RecordedAs
  <1>6. f.hash \in failing /\ (Recorded(f.hash) => f.hash \in shared)
    BY <1>1, <1>4 DEF PlacedInv, Placed
  <1>7. \A q \in Importer \ {p} :
          req[q].pc # "idle" /\ req[q].file.hash = f.hash
            => f.hash \in Excepted
    BY <1>1, <1>4, <1>6 DEF SharedInv, Excepted
  <1>8. TypeOK'
    <2>1. dirty' # {} => ~GateFree'
      BY <1>1, <1>3, <1>4 DEF TypeOK, GateFree
    <2>2. \A q, t \in Importer :
            req'[q].pc = "commit" /\ req'[t].pc = "commit" => q = t
      BY <1>1, <1>3 DEF TypeOK
    <2>3. QED
      BY <1>1, <1>2, <1>4, <2>1, <2>2 DEF TypeOK
  <1>9. SharedInv' /\ PresentInv'
    BY <1>1, <1>3, <1>4 DEF SharedInv, PresentInv
  <1>10. DirtyInv'
    BY <1>1, <1>3, <1>4, <1>5 DEF DirtyInv, RowOf
  <1>11. PlacedInv'
    <2> SUFFICES ASSUME NEW q \in Importer PROVE Placed(q)'
      BY DEF PlacedInv
    <2>1. CASE q = p
      BY <1>3, <2>1 DEF Placed
    <2>2. CASE q # p
      BY <1>1, <1>3, <1>4, <1>5, <1>7, <2>2 DEF PlacedInv, Placed
    <2>3. QED
      BY <2>1, <2>2
  <1>12. OwnerInv'
    <2> SUFFICES ASSUME NEW g \in files'
                 PROVE  \/ Settled(g)'
                        \/ \E q \in Importer : Owns(q, g)'
      BY DEF OwnerInv
    <2>1. g \in files /\ ~Owns(p, g)
      BY <1>4 DEF At, Owns
    <2>2. \A q \in Importer \ {p} : Owns(q, g) => Owns(q, g)'
      BY <1>3 DEF Owns
    <2>3. QED
      BY <1>1, <1>4, <1>5, <2>1, <2>2 DEF OwnerInv
  <1>13. RecordedPresent'
    <2> SUFFICES ASSUME NEW x \in rows, x.hash \notin Excepted
                 PROVE  At(x)' # {}
      BY <1>4, <1>5 DEF RecordedPresent, Excepted
    <2>1. x.hash # f.hash
      BY <1>6 DEF Recorded, Excepted
    <2>2. QED
      BY <1>1, <1>5, <2>1 DEF RecordedPresent, Excepted
  <1>14. AnswerDurable'
    BY <1>1, <1>4, <1>5 DEF AnswerDurable, Excepted
  <1>15. QED
    BY <1>8, <1>9, <1>10, <1>11, <1>12, <1>13, <1>14 DEF ImportInv

(* TrashFile: the row says trashed, the hash keeps a row and its file.     *)
LEMMA TrashStep ==
  ASSUME ImportInv, NEW r \in rows, TrashFile(r)
  PROVE  ImportInv'
  <1> DEFINE t == [r EXCEPT !.trashed = TRUE]
  <1>1. /\ TypeOK /\ SharedInv /\ PresentInv /\ DirtyInv /\ PlacedInv
        /\ OwnerInv /\ RecordedPresent /\ AnswerDurable
    BY DEF ImportInv
  <1>2. /\ rows' = (rows \ {r}) \cup {t} /\ GateFree
        /\ UNCHANGED <<files, dirty, req, answered, shared, failing, abandoned,
                       kept>>
    BY DEF TrashFile, history
  <1>3. t \in Row /\ t.hash = r.hash /\ t.mime = r.mime
    BY <1>1 DEF TypeOK, Row
  <1>4. /\ Excepted' = Excepted
        /\ \A h : Recorded(h)' <=> Recorded(h)
        /\ \A g : At(g)' = At(g)
        /\ \A g : Settled(g)' <=> Settled(g)
    BY <1>2, <1>3 DEF Excepted, Recorded, At, Settled, RecordedAs
  <1>5. TypeOK'
    <2> HIDE DEF t
    <2>1. dirty = {} /\ dirty' = {}
      BY <1>1, <1>2 DEF TypeOK
    <2>2. \A x, y \in rows' \cup dirty' : x.hash = y.hash => x = y
      <3>1. \A x, y \in rows : x.hash = y.hash => x = y
        BY <1>1 DEF TypeOK
      <3>2. QED
        BY <1>2, <1>3, <2>1, <3>1
    <2>3. rows' \subseteq Row
      BY <1>1, <1>2, <1>3 DEF TypeOK
    <2>4. QED
      BY <1>1, <1>2, <2>1, <2>2, <2>3 DEF TypeOK
  <1>6. SharedInv' /\ PresentInv'
    BY <1>1, <1>2 DEF SharedInv, PresentInv
  <1>7. DirtyInv'
    BY <1>2 DEF DirtyInv, GateFree
  <1>8. PlacedInv'
    BY <1>1, <1>2, <1>4 DEF PlacedInv, Placed
  <1>9. OwnerInv'
    BY <1>1, <1>2, <1>4 DEF OwnerInv, Owns
  <1>10. At(t) = At(r)
    BY <1>3 DEF At
  <1>11. RecordedPresent' /\ AnswerDurable'
    BY <1>1, <1>2, <1>3, <1>4, <1>10
       DEF RecordedPresent, AnswerDurable, Excepted
  <1>12. QED
    BY <1>5, <1>6, <1>7, <1>8, <1>9, <1>11 DEF ImportInv

(* The daemon stops: what was in flight is abandoned.                      *)
LEMMA CrashStep ==
  ASSUME ImportInv, Crash
  PROVE  ImportInv'
  <1>1. /\ TypeOK /\ OwnerInv /\ RecordedPresent /\ AnswerDurable
    BY DEF ImportInv
  <1>2. /\ NoRequest \in Request
        /\ \A p \in Importer :
             req'[p].pc = "idle" /\ ~req'[p].present
    BY NoRequestIdle DEF Crash
  <1>3. /\ Excepted' = Excepted
        /\ \A h : Recorded(h)' <=> Recorded(h)
        /\ \A g : At(g)' = At(g)
        /\ \A g : Settled(g) => Settled(g)'
    BY DEF Crash, Excepted, Recorded, At, Settled, RecordedAs
  <1>4. TypeOK'
    BY <1>1, <1>2 DEF TypeOK, Crash
  <1>5. SharedInv' /\ PresentInv' /\ DirtyInv' /\ PlacedInv'
    BY <1>2 DEF SharedInv, PresentInv, DirtyInv, PlacedInv, Placed
  <1>6. OwnerInv'
    <2>1. \A p \in Importer, f \in files :
            Owns(p, f) => Settled(f)'
      BY <1>1 DEF Owns, Busy, Crash, TypeOK, File, Settled
    <2>2. QED
      BY <1>1, <1>3, <2>1 DEF OwnerInv, Crash
  <1>7. RecordedPresent' /\ AnswerDurable'
    BY <1>1, <1>3 DEF RecordedPresent, AnswerDurable, Excepted, Crash
  <1>8. QED
    BY <1>4, <1>5, <1>6, <1>7 DEF ImportInv

(* existingPlacementResult: the file that is there is taken for the        *)
(* request's, conflicts with it, or there is none.                         *)
LEMMA ExistingStep ==
  ASSUME ImportInv, NEW p \in Importer, ExistingPlacement(p)
  PROVE  ImportInv'
  <1>1. TypeOK /\ PresentInv
    BY DEF ImportInv
  <1>2. /\ req[p].pc \in {"check", "recheck"} /\ req[p].present = FALSE
        /\ UNCHANGED <<files, rows, dirty, answered, shared, failing,
                       abandoned, kept>>
        /\ dirty' = IF req[p].pc = "commit" THEN {} ELSE dirty
        /\ answered \cup shared \cup failing \cup abandoned \subseteq Hash
        /\ kept' \subseteq File
        /\ req[p] \in Request /\ req[p].pc # "idle" /\ req[p].pc # "commit"
    BY <1>1 DEF PresentInv, ExistingPlacement, history, TypeOK, Request
  <1>3. \A f \in files : ~Owns(p, f)
    BY <1>2 DEF Owns
  <1>4. CASE Finish(p)
    BY <1>2, <1>3, <1>4, FinishStep
  <1>5. CASE Goto(p, "link")
    <2>1. "link" \in Step /\ FALSE \in BOOLEAN
      BY DEF Step
    <2>2. req' = [req EXCEPT ![p] = [pc |-> "link", file |-> req[p].file,
                                     present |-> FALSE]]
      BY <1>1, <1>2, <1>5, <2>1, GotoFinish
    <2>3. QED
      BY <1>2, <1>3, <2>1, <2>2, GotoStep
  <1>6. CASE /\ \E g \in At(req[p].file) : SamePlacement(req[p].file, g)
             /\ req' = [req EXCEPT ![p] = [pc |-> "record",
                                           file |-> req[p].file,
                                           present |-> TRUE]]
    <2>1. "record" \in Step /\ TRUE \in BOOLEAN
      BY DEF Step
    <2>2. At(req[p].file) # {}
      BY <1>6
    <2>3. QED
      BY <1>2, <1>3, <1>6, <2>1, <2>2, GotoStep
  <1>7. QED
    BY <1>4, <1>5, <1>6 DEF ExistingPlacement

(* A request whose record failed ends, or looks the file up to clean up.   *)
LEMMA RecordErrorStep ==
  ASSUME ImportInv, NEW p \in Importer, AfterRecordError(p),
         req[p].pc \in {"record", "commit"},
         UNCHANGED <<files, rows, answered, shared, abandoned, kept>>,
         dirty' = IF req[p].pc = "commit" THEN {} ELSE dirty,
         failing \subseteq failing', failing' \subseteq Hash,
         \/ req[p].file.hash \in failing'
         \/ req[p].pc = "record" /\ Recorded(req[p].file.hash)
  PROVE  ImportInv'
  <1>1. TypeOK
    BY DEF ImportInv
  <1>2. answered' \cup failing' \cup abandoned' \subseteq Hash
          /\ kept' \subseteq File
    BY <1>1 DEF TypeOK
  <1>3. req[p].pc # "idle" /\ req[p].present \in BOOLEAN
    BY <1>1 DEF TypeOK, Request
  <1>4. CASE req[p].present
    <2>1. Finish(p)
      BY <1>4 DEF AfterRecordError
    <2>2. \A f \in files : ~Owns(p, f)
      BY <1>4 DEF Owns
    <2>3. QED
      BY <1>2, <2>1, <2>2, FinishStep
  <1>5. CASE ~req[p].present
    <2>1. "lookup" \in Step /\ FALSE \in BOOLEAN /\ req[p].present = FALSE
      BY <1>3, <1>5 DEF Step
    <2>2. Goto(p, "lookup")
      BY <1>5 DEF AfterRecordError
    <2>3. req' = [req EXCEPT ![p] = [pc |-> "lookup", file |-> req[p].file,
                                     present |-> FALSE]]
      BY <1>1, <2>1, <2>2, GotoFinish
    <2>4. QED
      BY <1>3, <2>1, <2>3, GotoStep
  <1>6. QED
    BY <1>4, <1>5

(* cleanupFailedPlacement's lookup: a row that a transaction has not yet   *)
(* committed is another request's, for the same content.                   *)
LEMMA LookupStep ==
  ASSUME ImportInv, NEW p \in Importer, CleanupLookup(p)
  PROVE  ImportInv'
  <1>1. /\ TypeOK /\ SharedInv /\ PresentInv /\ DirtyInv /\ PlacedInv
    BY DEF ImportInv
  <1>2. /\ req[p].pc = "lookup" /\ req[p].present = FALSE
        /\ UNCHANGED <<files, rows, dirty, answered, shared, failing,
                       abandoned>>
        /\ dirty' = IF req[p].pc = "commit" THEN {} ELSE dirty
        /\ answered \cup shared \cup failing \cup abandoned \subseteq Hash
        /\ kept \subseteq kept' /\ kept' \subseteq File
        /\ req[p] \in Request /\ req[p].pc # "idle" /\ req[p].pc # "commit"
    BY <1>1 DEF PresentInv, CleanupLookup, TypeOK, Request, At
  <1>3. CASE LookupImported(req[p].file.hash)
    <2>1. Recorded(req[p].file.hash) \/ req[p].file.hash \in shared
      <3> SUFFICES ASSUME NEW s \in dirty, s.hash = req[p].file.hash
                   PROVE  req[p].file.hash \in shared
        BY <1>3 DEF LookupImported, Recorded
      <3>1. PICK q \in Importer : req[q].pc = "commit"
        BY <1>1 DEF TypeOK, GateFree
      <3>2. req[q].file.hash = s.hash
        BY <1>1, <3>1, DirtyHash
      <3>3. q # p /\ req[q].pc # "idle"
        BY <1>2, <3>1
      <3>4. QED
        BY <1>1, <1>2, <3>2, <3>3 DEF SharedInv
    <2>2. Finish(p)
      BY <1>3 DEF CleanupLookup
    <2>3. \A f \in files : Owns(p, f) => Settled(f)'
      <3> SUFFICES ASSUME NEW f \in files, Owns(p, f)
                   PROVE  Settled(f)'
        OBVIOUS
      <3>1. f.hash = req[p].file.hash /\ f \in At(req[p].file)
        BY DEF Owns, At
      <3>2. CASE req[p].file.hash \in shared
        BY <1>2, <3>1, <3>2 DEF Settled
      <3>3. CASE RecordedAs(req[p].file)
        BY <1>2, <3>1, <3>3 DEF Settled, RecordedAs, At
      <3>4. CASE Recorded(req[p].file.hash) /\ ~RecordedAs(req[p].file)
        <4>1. kept' = kept \cup At(req[p].file)
          BY <3>4 DEF CleanupLookup
        <4>2. QED
          BY <3>1, <4>1 DEF Settled
      <3>5. QED
        BY <2>1, <3>2, <3>3, <3>4
    <2>4. QED
      BY <1>2, <2>2, <2>3, FinishStep
  <1>4. CASE ~LookupImported(req[p].file.hash)
    <2>1. "remove" \in Step /\ FALSE \in BOOLEAN
      BY DEF Step
    <2>2. Goto(p, "remove")
      BY <1>4 DEF CleanupLookup
    <2>3. req' = [req EXCEPT ![p] = [pc |-> "remove", file |-> req[p].file,
                                     present |-> FALSE]]
      BY <1>1, <1>2, <2>1, <2>2, GotoFinish
    <2>4. ~Recorded(req[p].file.hash)
      BY <1>4 DEF LookupImported, Recorded
    <2>5. req[p].file.hash \in failing
      BY <1>1, <1>2, <2>4 DEF PlacedInv, Placed
    <2>6. kept' = kept
      BY <2>4 DEF CleanupLookup
    <2>7. QED
      BY <1>2, <2>1, <2>3, <2>4, <2>5, <2>6, GotoStep
  <1>5. QED
    BY <1>3, <1>4

-----------------------------------------------------------------------------
(* The initial states satisfy the invariant and every step keeps it.       *)
LEMMA ImportInit == Init => ImportInv
  <1> SUFFICES ASSUME Init PROVE ImportInv
    OBVIOUS
  <1>1. \A p \in Importer : req[p].pc = "idle" /\ req[p].present = FALSE
    BY NoRequestIdle DEF Init
  <1>2. TypeOK
    BY <1>1, NoRequestIdle DEF Init, TypeOK, GateFree
  <1>3. SharedInv /\ PresentInv /\ DirtyInv /\ PlacedInv /\ OwnerInv
    BY <1>1 DEF Init, SharedInv, PresentInv, DirtyInv, PlacedInv, Placed,
                OwnerInv
  <1>4. RecordedPresent /\ AnswerDurable
    BY DEF Init, RecordedPresent, AnswerDurable
  <1>5. QED
    BY <1>2, <1>3, <1>4 DEF ImportInv

(* Every step of a request, a transaction, and a crash.                    *)
LEMMA ImportStep == ImportInv /\ [Next]_vars => ImportInv'
  <1> SUFFICES ASSUME ImportInv, [Next]_vars PROVE ImportInv'
    OBVIOUS
  <1>1. CASE UNCHANGED vars
    BY <1>1 DEF vars, ImportInv, TypeOK, SharedInv, PresentInv, DirtyInv,
                PlacedInv, Placed, OwnerInv, Owns, Settled, RecordedAs,
                RecordedPresent, AnswerDurable, Excepted, Recorded, At, GateFree, RowOf
  <1>2. CASE \E r \in rows : TrashFile(r)
    BY <1>2, TrashStep
  <1>3. CASE Crash
    BY <1>3, CrashStep
  <1>4. ASSUME NEW p \in Importer,
               \/ \E f \in File :
                    \/ ImportLocalPath(p, f) \/ ImportUpload(p, f)
                    \/ ImportURL(p, f)
               \/ AddKnownURLsByHash(p) \/ ExistingPlacement(p)
               \/ LinkTempFileIntoPlace(p) \/ PlacementFails(p)
               \/ RecordPreparedLocalImport(p) \/ Commit(p)
               \/ CommitUnacknowledged(p) \/ RecordFails(p)
               \/ CleanupLookup(p) \/ CleanupRemove(p) \/ CleanupFails(p)
        PROVE  ImportInv'
    <2> DEFINE f == req[p].file
    <2>1. /\ TypeOK /\ PresentInv /\ PlacedInv
          /\ f \in File /\ f.hash \in Hash /\ req[p].present \in BOOLEAN
          /\ answered \cup shared \cup failing \cup abandoned \subseteq Hash
          /\ kept \subseteq File
          /\ NoRequest \in Request /\ NoRequest.pc = "idle"
          /\ ~NoRequest.present
      BY NoRequestIdle DEF ImportInv, TypeOK, Request, File
    <2>2. CASE \E g \in File :
                 \/ ImportLocalPath(p, g) \/ ImportUpload(p, g)
                 \/ ImportURL(p, g)
      BY <2>2, AcceptStep
    <2>3. CASE AddKnownURLsByHash(p)
      <3>1. /\ req[p].pc = "urls" /\ dirty = {} /\ Finish(p)
            /\ UNCHANGED <<files, rows, dirty, shared, failing, abandoned, kept>>
            /\ answered' \in {answered, answered \cup {f.hash}}
        BY <2>1, <2>3 DEF AddKnownURLsByHash, TypeOK
      <3>2. Recorded(f.hash) \/ f.hash \in Excepted
        BY <2>1, <3>1 DEF PlacedInv, Placed
      <3>3. \A g \in files : ~Owns(p, g)
        BY <3>1 DEF Owns
      <3>4. /\ dirty' = IF req[p].pc = "commit" THEN {} ELSE dirty
            /\ req[p].pc # "commit" /\ answered \subseteq answered'
            /\ answered' \cup failing' \cup abandoned' \subseteq Hash
            /\ kept \subseteq kept' /\ kept' \subseteq File
            /\ \A h \in answered' \ answered : Recorded(h) \/ h \in Excepted
        BY <2>1, <3>1, <3>2
      <3>5. QED
        BY <3>1, <3>3, <3>4, FinishStep
    <2>4. CASE ExistingPlacement(p)
      BY <2>4, ExistingStep
    <2>5. CASE LinkTempFileIntoPlace(p)
      <3>1. /\ req[p].pc = "link" /\ req[p].present = FALSE
            /\ UNCHANGED <<rows, dirty, answered, shared, failing, abandoned,
                           kept>>
            /\ dirty' = IF req[p].pc = "commit" THEN {} ELSE dirty
            /\ "record" \in Step /\ "recheck" \in Step
        BY <2>1, <2>5 DEF LinkTempFileIntoPlace, history, PresentInv, Step
      <3>2. CASE At(f) = {}
        <4> DEFINE r == [pc |-> "record", file |-> f, present |-> FALSE]
        <4>1. files' = files \cup {f} /\ Goto(p, "record")
          BY <2>5, <3>2 DEF LinkTempFileIntoPlace
        <4>2. req' = [req EXCEPT ![p] = r]
          BY <2>1, <3>1, <4>1, GotoFinish
        <4>3. r \in Request /\ r.pc = "record" /\ r.file = f /\ ~r.present
          BY <2>1, <3>1 DEF Request
        <4>4. QED
          BY <2>1, <3>1, <3>2, <4>1, <4>2, <4>3, PublishStep
      <3>3. CASE At(f) # {}
        <4>1. UNCHANGED files /\ Goto(p, "recheck")
          BY <2>5, <3>3 DEF LinkTempFileIntoPlace
        <4>2. req' = [req EXCEPT ![p] = [pc |-> "recheck", file |-> f,
                                         present |-> FALSE]]
          BY <2>1, <3>1, <4>1, GotoFinish
        <4>3. \A g \in files : ~Owns(p, g)
          BY <3>1 DEF Owns
        <4>4. req[p].pc # "idle" /\ req[p].pc # "commit" /\ FALSE \in BOOLEAN
              /\ failing' \subseteq Hash /\ failing \subseteq failing'
          BY <2>1, <3>1
        <4>5. QED
          BY <3>1, <4>1, <4>2, <4>3, <4>4, GotoStep
      <3>4. QED
        BY <3>2, <3>3
    <2>6. CASE PlacementFails(p)
      <3>1. /\ req[p].pc \in {"check", "link", "recheck"} /\ Finish(p)
            /\ UNCHANGED <<rows, dirty, answered, shared, failing, kept>>
            /\ dirty' = IF req[p].pc = "commit" THEN {} ELSE dirty
            /\ req[p].pc # "commit"
        BY <2>6 DEF PlacementFails
      <3>2. CASE UNCHANGED <<files, abandoned>>
        <4>1. \A g \in files : ~Owns(p, g)
          BY <3>1 DEF Owns
        <4>2. answered' \cup failing' \cup abandoned' \subseteq Hash
                /\ kept \subseteq kept' /\ kept' \subseteq File
          BY <2>1, <3>1, <3>2
        <4>3. QED
          BY <3>1, <3>2, <4>1, <4>2, FinishStep
      <3>3. CASE /\ req[p].pc = "link" /\ At(f) = {}
                 /\ files' = files \cup {f}
                 /\ abandoned' = abandoned \cup {f.hash}
        <4>1. req' = [req EXCEPT ![p] = NoRequest]
          BY <2>1, <3>1, GotoFinish
        <4>2. /\ abandoned \subseteq abandoned' /\ abandoned' \subseteq Hash
              /\ f.hash \in abandoned'
          BY <2>1, <3>3
        <4>3. QED
          BY <2>1, <3>1, <3>3, <4>1, <4>2, PublishStep
      <3>4. QED
        BY <2>6, <3>2, <3>3 DEF PlacementFails
    <2>7. CASE RecordPreparedLocalImport(p)
      <3>1. /\ req[p].pc = "record" /\ GateFree
            /\ UNCHANGED <<files, rows, history>>
            /\ UNCHANGED <<files, rows, answered, shared, failing, abandoned,
                           kept>>
        BY <2>7 DEF RecordPreparedLocalImport, history
      <3>2. CASE Recorded(f.hash) /\ RowOf(f) \notin rows
        <4>1. AfterRecordError(p) /\ UNCHANGED dirty
          BY <2>7, <3>2 DEF RecordPreparedLocalImport
        <4>2. /\ dirty' = IF req[p].pc = "commit" THEN {} ELSE dirty
              /\ failing \subseteq failing' /\ failing' \subseteq Hash
          BY <2>1, <3>1, <4>1
        <4>3. QED
          BY <3>1, <3>2, <4>1, <4>2, RecordErrorStep
      <3>3. CASE ~(Recorded(f.hash) /\ RowOf(f) \notin rows)
        <4>1. /\ Goto(p, "commit")
              /\ \/ RowOf(f) \in rows /\ UNCHANGED dirty
                 \/ ~Recorded(f.hash) /\ dirty' = {RowOf(f)}
          BY <2>7, <3>3 DEF RecordPreparedLocalImport
        <4>2. QED
          BY <2>1, <3>1, <4>1, BeginStep
      <3>4. QED
        BY <3>2, <3>3
    <2>8. CASE Commit(p)
      <3>1. req' = [req EXCEPT ![p] = NoRequest]
        BY <2>1, <2>8, GotoFinish DEF Commit
      <3>2. /\ req[p].pc = "commit" /\ rows' = rows \cup dirty /\ dirty' = {}
            /\ answered' = answered \cup {f.hash}
            /\ UNCHANGED <<files, shared, failing, abandoned, kept>>
        BY <2>8 DEF Commit
      <3>3. /\ answered \subseteq answered'
            /\ answered' \subseteq answered \cup {f.hash}
        BY <3>2
      <3>4. answered' \subseteq Hash
        BY <2>1, <3>2
      <3>5. QED
        BY <2>1, <3>1, <3>2, <3>3, <3>4, CommitStep
    <2>9. CASE CommitUnacknowledged(p)
      <3>1. /\ req[p].pc = "commit" /\ rows' = rows \cup dirty /\ dirty' = {}
            /\ UNCHANGED <<files, answered, shared, failing, abandoned, kept>>
        BY <2>9 DEF CommitUnacknowledged, history
      <3>2. \E r \in Request :
              /\ req' = [req EXCEPT ![p] = r] /\ ~r.present
              /\ \/ r.pc = "idle"
                 \/ r.pc = "lookup" /\ r.file = f
        <4>1. CASE req[p].present
          BY <2>1, <2>9, <4>1, GotoFinish
             DEF CommitUnacknowledged, AfterRecordError
        <4>2. CASE ~req[p].present
          <5> DEFINE r == [pc |-> "lookup", file |-> f, present |-> FALSE]
          <5>1. "lookup" \in Step /\ req[p].present = FALSE
            BY <2>1, <4>2 DEF Step
          <5>2. Goto(p, "lookup")
            BY <2>9, <4>2 DEF CommitUnacknowledged, AfterRecordError
          <5>3. req' = [req EXCEPT ![p] = r]
            BY <2>1, <5>1, <5>2, GotoFinish
          <5>4. r \in Request /\ ~r.present /\ r.pc = "lookup" /\ r.file = f
            BY <2>1, <5>1 DEF Request
          <5>5. QED
            BY <5>3, <5>4
        <4>3. QED
          BY <4>1, <4>2
      <3>3. /\ answered \subseteq answered'
            /\ answered' \subseteq answered \cup {f.hash}
        BY <3>1
      <3>4. QED
        BY <2>1, <3>1, <3>2, <3>3, CommitStep
    <2>10. CASE RecordFails(p)
      <3>1. /\ req[p].pc \in {"record", "commit"} /\ AfterRecordError(p)
            /\ UNCHANGED <<files, rows, answered, shared, abandoned, kept>>
            /\ dirty' = IF req[p].pc = "commit" THEN {} ELSE dirty
            /\ failing' = failing \cup {f.hash}
        BY <2>10 DEF RecordFails
      <3>2. /\ failing \subseteq failing' /\ failing' \subseteq Hash
            /\ f.hash \in failing'
        BY <2>1, <3>1
      <3>3. QED
        BY <3>1, <3>2, RecordErrorStep
    <2>11. CASE CleanupLookup(p)
      BY <2>11, LookupStep
    <2>12. CASE CleanupRemove(p)
      BY <2>1, <2>12, RemoveStep
    <2>13. CASE CleanupFails(p)
      <3>1. /\ req[p].pc \in {"lookup", "remove"} /\ Finish(p)
            /\ abandoned' = abandoned \cup {f.hash}
            /\ UNCHANGED <<files, rows, dirty, answered, shared, failing, kept>>
        BY <2>13 DEF CleanupFails
      <3>2. \A g \in files : Owns(p, g) => Settled(g)'
        BY <3>1 DEF Owns, Settled
      <3>3. /\ dirty' = IF req[p].pc = "commit" THEN {} ELSE dirty
            /\ req[p].pc # "commit" /\ abandoned \subseteq abandoned'
            /\ answered' \cup failing' \cup abandoned' \subseteq Hash
            /\ kept \subseteq kept' /\ kept' \subseteq File
        BY <2>1, <3>1
      <3>4. QED
        BY <3>1, <3>2, <3>3, FinishStep
    <2>14. QED
      BY <1>4, <2>2, <2>3, <2>4, <2>5, <2>6, <2>7, <2>8, <2>9, <2>10, <2>11,
         <2>12, <2>13
  <1>5. QED
    BY <1>1, <1>2, <1>3, <1>4 DEF Next

(* ImportInv holds of every state, for every set of contents, types, times *)
(* and concurrent requests.                                                *)
THEOREM ImportInvariant == Spec => []ImportInv
  <1>1. Init => ImportInv
    BY ImportInit
  <1>2. ImportInv /\ [Next]_vars => ImportInv'
    BY ImportStep
  <1>3. QED
    BY <1>1, <1>2, PTL DEF Spec

(* One file per name, one row per hash, one open write transaction.        *)
THEOREM ImportTypes == Spec => []TypeOK
  <1>1. ImportInv => TypeOK
    BY DEF ImportInv
  <1>2. QED
    BY <1>1, ImportInvariant, PTL

(* The file of a recorded import is in managed storage, through crashes,   *)
(* commits that are not acknowledged, conflicts and cleanups (place.go,    *)
(* importer.go), but for a record that failed while another request for    *)
(* the content was in flight.                                              *)
THEOREM ImportsKeepFile == Spec => []RecordedPresent
  <1>1. ImportInv => RecordedPresent
    BY DEF ImportInv
  <1>2. QED
    BY <1>1, ImportInvariant, PTL

(* A failed import leaves no file behind in managed storage                *)
(* (cleanupFailedPlacement), but for a cleanup that was cut short,         *)
(* concurrent requests for the contents, and a cleanup that kept the file  *)
(* because the same contents are recorded under another type.              *)
THEOREM FailedImportsCleanUp == Spec => []FailedLeavesNothing
  <1>1. ImportInv => FailedLeavesNothing
    BY DEF ImportInv, OwnerInv, Owns, Settled, FailedLeavesNothing, Busy
  <1>2. QED
    BY <1>1, ImportInvariant, PTL

(* What a request was told is imported has its row.                        *)
THEOREM AnswersKept == Spec => []AnswerDurable
  <1>1. ImportInv => AnswerDurable
    BY DEF ImportInv
  <1>2. QED
    BY <1>1, ImportInvariant, PTL

(* No step of any request replaces a managed file by another               *)
(* (linkTempFileIntoPlace publishes without overwriting).                  *)
THEOREM PlacementOverwritesNothing == Spec => NoOverwrite
  <1> DEFINE Kept == \A f \in files : f \in files' \/ \A g \in files' :
                       g.hash # f.hash \/ g.mime # f.mime
  <1>1. [Next]_vars => [Kept]_vars
    <2> SUFFICES ASSUME [Next]_vars PROVE Kept
      OBVIOUS
    <2>1. CASE files \subseteq files'
      BY <2>1
    <2>2. CASE \E p \in Importer : CleanupRemove(p)
      BY <2>2 DEF CleanupRemove, At
    <2>3. files \subseteq files' \/ \E p \in Importer : CleanupRemove(p)
      BY DEF Next, vars, ImportLocalPath, ImportUpload, ImportURL, Accept,
             AddKnownURLsByHash, ExistingPlacement, LinkTempFileIntoPlace,
             PlacementFails, RecordPreparedLocalImport, Commit,
             CommitUnacknowledged, RecordFails, CleanupLookup, CleanupFails,
             TrashFile, Crash
    <2>4. QED
      BY <2>1, <2>2, <2>3
  <1>2. QED
    BY <1>1, PTL DEF Spec, NoOverwrite

=============================================================================
