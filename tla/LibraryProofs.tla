---------------------------- MODULE LibraryProofs ----------------------------
(***************************************************************************)
(* What a path holds, for any number of uploads, files and slices, previews *)
(* and deletions, with failing disks and conversions and a restart.        *)
(***************************************************************************)
EXTENDS Library, TLAPS

Results == {"rejected", "too_large", "write_failed", "stored", "unsupported"}

UploadPart == [name : Names, version : Versions]

UploadRecord ==
  [pc : {"sent", "part", "write", "cleanup", "sniff", "unlink", "replied"},
   parts : Seq(UploadPart), at : Nat \ {0},
   inode : Versions \cup {None}, written : Nat, results : Seq(Results),
   reply : {None, "refused", "created", "not_writable", "lost"}]

LibraryType ==
  /\ target \in [Names -> Versions \cup {None}] /\ partial \in [Names -> Versions \cup {None}]
  /\ content \in [Versions -> Seq(Versions \cup {None})]
  /\ uploads \in [DOMAIN uploads -> UploadRecord]
  /\ history \in [overlapped : SUBSET Names, drifted : BOOLEAN, killed : BOOLEAN]

SentOnce ==
  \A r, q \in DOMAIN uploads :
    \A i \in DOMAIN uploads[r].parts, j \in DOMAIN uploads[q].parts :
      uploads[r].parts[i].version = uploads[q].parts[j].version => r = q /\ i = j

\* Where an upload is in its parts, and how many results it has.
InOrder(u) ==
  /\ u.pc = "sent" => u.at = 1 /\ u.results = <<>>
  /\ u.pc \in {"write", "cleanup", "sniff", "unlink"} => u.at \in DOMAIN u.parts
  /\ u.pc \in {"part", "write"} => Len(u.results) = u.at - 1
  /\ u.pc \in {"cleanup", "sniff", "unlink"} => Len(u.results) = u.at
  /\ u.pc \in {"sniff", "unlink"} => u.results[u.at] = "stored"
  /\ u.pc # "replied" => u.reply = None
  /\ u.reply \in {"refused", "not_writable"} =>
       \A i \in DOMAIN u.results : u.results[i] # "stored"

UploadsInOrder == \A r \in DOMAIN uploads : InOrder(uploads[r])

\* An inode is only ever at the name its upload was for.
Owned(requests, v, n) ==
  \E r \in DOMAIN requests : \E i \in DOMAIN requests[r].parts :
    requests[r].parts[i].version = v /\ requests[r].parts[i].name = n

Owners ==
  /\ \A n \in Names : target[n] # None => Owned(uploads, target[n], n)
  /\ \A n \in Names : partial[n] # None => Owned(uploads, partial[n], n)
  /\ \A r \in DOMAIN uploads :
       At(r, "write") => uploads[r].inode # None /\ Owned(uploads, uploads[r].inode, Part(r).name)

\* A part not begun is nowhere yet.
Unopened(u, i) ==
  /\ u.pc # "replied" /\ i \in DOMAIN u.parts /\ i >= u.at
  /\ i = u.at => u.pc \in {"sent", "part"}

Fresh ==
  \A r \in DOMAIN uploads : \A i \in DOMAIN uploads[r].parts :
    Unopened(uploads[r], i) =>
      \A n \in Names : /\ target[n] # uploads[r].parts[i].version
                       /\ partial[n] # uploads[r].parts[i].version

\* A name whose uploads do not overlap has one writer at a time, on a partial
\* file that is not the target and that holds what this upload wrote.
Writer(u, n) == u.pc \in {"write", "cleanup"} /\ u.parts[u.at].name = n

SoleWriter ==
  \A n \in Names \ history.overlapped : \A r, q \in DOMAIN uploads :
    Writer(uploads[r], n) /\ Writer(uploads[q], n) => r = q

Apart ==
  \A n \in Names \ history.overlapped : partial[n] # None => partial[n] # target[n]

Progress ==
  \A r \in DOMAIN uploads :
    At(r, "write") /\ Part(r).name \notin history.overlapped =>
      /\ partial[Part(r).name] = uploads[r].inode
      /\ content[uploads[r].inode] = [i \in 1 .. uploads[r].written |-> Part(r).version]

\* The target is the file of an upload that was answered "stored" (or whose
\* answer was lost), whole.
StoredAs(u, i, n) ==
  /\ i \in DOMAIN u.results /\ u.results[i] = "stored"
  /\ i \in DOMAIN u.parts /\ u.parts[i].name = n

StoredWhole ==
  \A n \in Names \ history.overlapped : target[n] # None =>
    \E r \in DOMAIN uploads, i \in Nat :
      StoredAs(uploads[r], i, n) /\ content[target[n]] = Whole(uploads[r].parts[i].version)

PartialIsWritten ==
  \A n \in Names : partial[n] # None =>
    history.killed \/ \E r \in DOMAIN uploads : Writer(uploads[r], n)

FileInv ==
  /\ LibraryType /\ SentOnce /\ UploadsInOrder /\ Owners /\ Fresh
  /\ SoleWriter /\ Apart /\ Progress /\ StoredWhole /\ PartialIsWritten

-----------------------------------------------------------------------------

\* The parts of an upload.
LEMMA PartsTyped ==
  ASSUME NEW u \in UploadRecord, NEW i \in DOMAIN u.parts
  PROVE  u.parts[i].name \in Names /\ u.parts[i].version \in Versions /\ i \in Nat \ {0}
  <1>1. u.parts \in Seq(UploadPart)
    BY DEF UploadRecord
  <1>2. u.parts[i] \in UploadPart /\ i \in Nat \ {0}
    BY <1>1
  <1> QED BY <1>2 DEF UploadPart

\* One more result.
LEMMA OneResult ==
  ASSUME NEW results \in Seq(Results), NEW result \in Results
  PROVE  /\ Append(results, result) \in Seq(Results)
         /\ Len(Append(results, result)) = Len(results) + 1
         /\ DOMAIN Append(results, result) = 1 .. (Len(results) + 1)
         /\ Append(results, result)[Len(results) + 1] = result
         /\ \A i \in DOMAIN results : /\ i \in DOMAIN Append(results, result)
                                     /\ Append(results, result)[i] = results[i]
  OBVIOUS

\* Before anything is sent.
LEMMA InitFile == Init => FileInv
  <1> SUFFICES ASSUME Init PROVE FileInv
    OBVIOUS
  <1>1. PICK s \in Scenarios :
          uploads = [r \in DOMAIN s.uploads |->
            [pc |-> "sent", parts |-> s.uploads[r], at |-> 1, inode |-> None, written |-> 0,
             results |-> <<>>, reply |-> None]]
    BY DEF Init
  <1>2. DOMAIN uploads = DOMAIN s.uploads
    BY <1>1
  <1>3. \A r \in DOMAIN uploads :
          /\ uploads[r].pc = "sent" /\ uploads[r].parts = s.uploads[r] /\ uploads[r].at = 1
          /\ uploads[r].results = <<>> /\ uploads[r].reply = None
          /\ uploads[r] \in UploadRecord
    <2>1. \A r \in DOMAIN s.uploads : s.uploads[r] \in Seq(UploadPart)
      BY LibraryAssumption DEF UploadPart
    <2>2. \A r \in DOMAIN uploads :
            uploads[r] = [pc |-> "sent", parts |-> s.uploads[r], at |-> 1, inode |-> None,
                          written |-> 0, results |-> <<>>, reply |-> None]
      BY <1>1
    <2>3. \A r \in DOMAIN uploads :
          /\ uploads[r].pc = "sent" /\ uploads[r].parts = s.uploads[r] /\ uploads[r].at = 1
          /\ uploads[r].results = <<>> /\ uploads[r].reply = None
      BY <2>2
    <2>4. <<>> \in Seq(Results)
      OBVIOUS
    <2>5. ASSUME NEW r \in DOMAIN uploads
          PROVE  uploads[r] \in UploadRecord
      <3>1. s.uploads[r] \in Seq(UploadPart)
        BY <1>2, <2>1
      <3> DEFINE parts == s.uploads[r]
                 results == <<>>
      <3>2. parts \in Seq(UploadPart) /\ results \in Seq(Results)
        BY <3>1, <2>4
      <3>3. uploads[r] = [pc |-> "sent", parts |-> parts, at |-> 1, inode |-> None,
                          written |-> 0, results |-> results, reply |-> None]
        BY <2>2
      <3> HIDE DEF parts, results
      <3> QED BY <3>2, <3>3 DEF UploadRecord
    <2> QED BY <2>3, <2>5
  <1>4. target = [n \in Names |-> None] /\ partial = [n \in Names |-> None]
        /\ content = [v \in Versions |-> <<>>]
        /\ history = [overlapped |-> {}, drifted |-> FALSE, killed |-> FALSE]
    BY DEF Init
  <1>5. LibraryType
    BY <1>1, <1>3, <1>4 DEF LibraryType
  <1>6. SentOnce
    BY <1>2, <1>3, LibraryAssumption DEF SentOnce
  <1>7. UploadsInOrder
    BY <1>3 DEF UploadsInOrder, InOrder, None
  <1>8. Owners /\ Apart /\ StoredWhole /\ PartialIsWritten
    BY <1>3, <1>4 DEF Owners, Apart, StoredWhole, PartialIsWritten, At
  <1>9. Fresh
    <2>1. \A r \in DOMAIN uploads : \A i \in DOMAIN uploads[r].parts :
            uploads[r].parts[i].version \in Versions
      BY <1>3, PartsTyped
    <2> QED BY <1>4, <2>1, LibraryAssumption DEF Fresh
  <1>10. SoleWriter /\ Progress
    BY <1>3 DEF SoleWriter, Progress, Writer, Writing, At
  <1> QED BY <1>5, <1>6, <1>7, <1>8, <1>9, <1>10 DEF FileInv

\* Whose an inode is does not change.
LEMMA OwnedKept ==
  ASSUME NEW before, NEW after, DOMAIN after = DOMAIN before,
         \A r \in DOMAIN before : after[r].parts = before[r].parts,
         NEW v, NEW n, Owned(before, v, n)
  PROVE  Owned(after, v, n)
  BY DEF Owned

\* An inode has one name.
LEMMA OneOwner ==
  ASSUME SentOnce, NEW v, NEW n, NEW m, Owned(uploads, v, n), Owned(uploads, v, m)
  PROVE  n = m
  BY DEF SentOnce, Owned

\* A step of one upload leaves the others, and what was sent, as they are.
LEMMA OneUpload ==
  ASSUME FileInv, NEW r \in DOMAIN uploads, NEW u \in UploadRecord, Step(r, u),
         u.parts = uploads[r].parts
  PROVE  /\ DOMAIN uploads' = DOMAIN uploads /\ uploads'[r] = u
         /\ \A q \in DOMAIN uploads : uploads'[q].parts = uploads[q].parts
         /\ \A q \in DOMAIN uploads \ {r} : uploads'[q] = uploads[q]
         /\ uploads' \in [DOMAIN uploads' -> UploadRecord]
         /\ SentOnce'
  <1>1. uploads' = [uploads EXCEPT ![r] = u] /\ uploads \in [DOMAIN uploads -> UploadRecord]
    BY DEF Step, FileInv, LibraryType
  <1>2. /\ DOMAIN uploads' = DOMAIN uploads /\ uploads'[r] = u
        /\ \A q \in DOMAIN uploads \ {r} : uploads'[q] = uploads[q]
        /\ uploads' \in [DOMAIN uploads' -> UploadRecord]
    BY <1>1
  <1>3. \A q \in DOMAIN uploads : uploads'[q].parts = uploads[q].parts
    BY <1>2
  <1>4. SentOnce'
    BY <1>2, <1>3 DEF FileInv, SentOnce
  <1> QED BY <1>2, <1>3, <1>4

\* A step that touches no file, and of an upload that is not left writing.
LEMMA Bookkeeping ==
  ASSUME FileInv, NEW r \in DOMAIN uploads, NEW u \in UploadRecord, Step(r, u),
         u.parts = uploads[r].parts, UNCHANGED <<target, partial, content, history>>,
         InOrder(u), u.pc # "write",
         \A i \in DOMAIN u.parts : Unopened(u, i) => Unopened(uploads[r], i),
         Writing(r) <=> u.pc = "cleanup",
         Writing(r) => u.at = uploads[r].at,
         \A i \in DOMAIN uploads[r].results :
           i \in DOMAIN u.results /\ u.results[i] = uploads[r].results[i]
  PROVE  FileInv'
  <1>1. /\ DOMAIN uploads' = DOMAIN uploads /\ uploads'[r] = u
        /\ \A q \in DOMAIN uploads : uploads'[q].parts = uploads[q].parts
        /\ \A q \in DOMAIN uploads \ {r} : uploads'[q] = uploads[q]
        /\ uploads' \in [DOMAIN uploads' -> UploadRecord]
        /\ SentOnce'
    BY OneUpload
  <1>2. LibraryType'
    BY <1>1 DEF FileInv, LibraryType
  <1>3. UploadsInOrder'
    BY <1>1 DEF FileInv, UploadsInOrder
  <1>4. \A q \in DOMAIN uploads : At(q, "write")' => q # r
    BY <1>1 DEF At
  <1>5. \A q \in DOMAIN uploads \ {r} : (At(q, "write")' <=> At(q, "write")) /\ Part(q)' = Part(q)
    BY <1>1 DEF At, Part
  <1>6. \A q \in DOMAIN uploads, n \in Names : Writer(uploads'[q], n) <=> Writer(uploads[q], n)
    BY <1>1 DEF Writer, Writing
  <1>7. Owners'
    <2>1. \A v, n : Owned(uploads, v, n) => Owned(uploads', v, n)
      BY <1>1, OwnedKept
    <2> QED BY <1>1, <1>4, <1>5, <2>1 DEF FileInv, Owners
  <1>8. Fresh'
    BY <1>1 DEF FileInv, Fresh
  <1>9. SoleWriter' /\ Apart' /\ PartialIsWritten'
    BY <1>1, <1>6 DEF FileInv, SoleWriter, Apart, PartialIsWritten
  <1>10. Progress'
    BY <1>1, <1>4, <1>5 DEF FileInv, Progress
  <1>11. StoredWhole'
    <2>1. ASSUME NEW q \in DOMAIN uploads, NEW i \in Nat, NEW n, StoredAs(uploads[q], i, n)
          PROVE  StoredAs(uploads'[q], i, n)
      BY <1>1, <2>1 DEF StoredAs
    <2> QED BY <1>1, <2>1 DEF FileInv, StoredWhole
  <1> QED BY <1>1, <1>2, <1>3, <1>7, <1>8, <1>9, <1>10, <1>11 DEF FileInv

\* A batch that is too much is refused, a part without an accepted name
\* rejected; the cap and a failing disk end a write; and the request is
\* answered.
LEMMA ReceiveFile ==
  ASSUME FileInv, NEW r \in DOMAIN uploads, Receive(r)
  PROVE  FileInv'
  <1> DEFINE v == uploads[r]
  <1>1. v \in UploadRecord /\ InOrder(v) /\ v.pc = "sent"
    BY DEF FileInv, LibraryType, UploadsInOrder, Receive, At
  <1>2. v.at = 1 /\ v.results = <<>> /\ v.reply = None /\ DOMAIN v.results = {}
    BY <1>1 DEF InOrder
  <1>3. UNCHANGED <<target, partial, content, history>>
    BY DEF Receive
  <1>4. CASE Step(r, [v EXCEPT !.pc = "replied", !.reply = "refused"])
    <2> DEFINE u == [v EXCEPT !.pc = "replied", !.reply = "refused"]
    <2>1. /\ u \in UploadRecord /\ u.parts = v.parts /\ u.pc = "replied" /\ u.results = <<>>
          /\ u.at = v.at
      BY <1>1, <1>2 DEF UploadRecord
    <2>2. InOrder(u)
      BY <1>2, <2>1 DEF InOrder
    <2>3. \A i \in DOMAIN u.parts : Unopened(u, i) => Unopened(v, i)
      BY <2>1 DEF Unopened
    <2> HIDE DEF u
    <2> QED BY <1>1, <1>2, <1>3, <1>4, <2>1, <2>2, <2>3, Bookkeeping DEF u, Writing
  <1>5. CASE Step(r, [v EXCEPT !.pc = "part"])
    <2> DEFINE u == [v EXCEPT !.pc = "part"]
    <2>1. /\ u \in UploadRecord /\ u.parts = v.parts /\ u.pc = "part" /\ u.results = <<>>
          /\ u.at = v.at /\ u.reply = None
      BY <1>1, <1>2 DEF UploadRecord
    <2>2. InOrder(u)
      BY <1>2, <2>1 DEF InOrder, None
    <2>3. \A i \in DOMAIN u.parts : Unopened(u, i) => Unopened(v, i)
      BY <1>1, <2>1 DEF Unopened
    <2> HIDE DEF u
    <2> QED BY <1>1, <1>2, <1>3, <1>5, <2>1, <2>2, <2>3, Bookkeeping DEF u, Writing
  <1> QED BY <1>4, <1>5 DEF Receive

\* A part without an accepted name or type is settled, and no file is touched.
LEMMA RejectFile ==
  ASSUME FileInv, NEW r \in DOMAIN uploads, RejectPart(r)
  PROVE  FileInv'
  <1> DEFINE v == uploads[r]
             results == Append(v.results, "rejected")
             next == v.at + 1
             u == [v EXCEPT !.pc = "part", !.at = next, !.results = results]
  <1>1. v \in UploadRecord /\ InOrder(v) /\ v.pc = "part"
    BY DEF FileInv, LibraryType, UploadsInOrder, RejectPart, At
  <1>2. UNCHANGED <<target, partial, content, history>> /\ Step(r, u)
    BY DEF RejectPart, Settled
  <1>3. v.at \in Nat \ {0} /\ next \in Nat \ {0} /\ next = v.at + 1 /\ v.results \in Seq(Results) /\ "rejected" \in Results
    BY <1>1 DEF UploadRecord, Results
  <1>4. /\ results \in Seq(Results) /\ Len(results) = v.at
        /\ \A i \in DOMAIN v.results : i \in DOMAIN results /\ results[i] = v.results[i]
    BY <1>1, <1>3, OneResult DEF InOrder
  <1> HIDE DEF results, next
  <1>5. /\ u \in UploadRecord /\ u.parts = v.parts /\ u.pc = "part" /\ u.at = next
        /\ u.results = results /\ u.reply = v.reply
    BY <1>1, <1>3, <1>4 DEF UploadRecord
  <1> HIDE DEF u
  <1>7. InOrder(u)
    BY <1>1, <1>3, <1>4, <1>5 DEF InOrder, None
  <1>8. ASSUME NEW i \in DOMAIN u.parts, Unopened(u, i)
        PROVE  Unopened(v, i)
    <2>1. i \in Nat
      BY <1>5, PartsTyped
    <2> QED BY <1>1, <1>3, <1>5, <1>8, <2>1 DEF Unopened
  <1> QED BY <1>1, <1>2, <1>4, <1>5, <1>7, <1>8, Bookkeeping DEF Writing

\* The cap and a failing disk end a write; the partial file waits for its cleanup.
LEMMA StopFile ==
  ASSUME FileInv, NEW r \in DOMAIN uploads, TooLarge(r) \/ WriteFails(r)
  PROVE  FileInv'
  <1> DEFINE v == uploads[r]
  <1>1. v \in UploadRecord /\ InOrder(v) /\ v.pc = "write"
    BY DEF FileInv, LibraryType, UploadsInOrder, TooLarge, WriteFails, At
  <1>2. UNCHANGED <<target, partial, content, history>>
    BY DEF TooLarge, WriteFails
  <1>3. PICK result \in {"too_large", "write_failed"} :
          Step(r, [v EXCEPT !.pc = "cleanup", !.results = Append(@, result)])
    BY DEF TooLarge, WriteFails
  <1> DEFINE results == Append(v.results, result)
             u == [v EXCEPT !.pc = "cleanup", !.results = results]
  <1>4. v.at \in Nat \ {0} /\ v.results \in Seq(Results) /\ result \in Results
    BY <1>1 DEF UploadRecord, Results
  <1>5. /\ results \in Seq(Results) /\ Len(results) = v.at
        /\ \A i \in DOMAIN v.results : i \in DOMAIN results /\ results[i] = v.results[i]
    BY <1>1, <1>4, OneResult DEF InOrder
  <1>6. Step(r, u)
    BY <1>3
  <1> HIDE DEF results
  <1>7. /\ u \in UploadRecord /\ u.parts = v.parts /\ u.pc = "cleanup" /\ u.at = v.at
        /\ u.results = results /\ u.reply = v.reply
    BY <1>1, <1>5 DEF UploadRecord
  <1> HIDE DEF u
  <1>8. InOrder(u)
    BY <1>1, <1>5, <1>7 DEF InOrder, None
  <1>9. \A i \in DOMAIN u.parts : Unopened(u, i) => Unopened(v, i)
    BY <1>1, <1>7 DEF Unopened
  <1> QED BY <1>1, <1>2, <1>5, <1>6, <1>7, <1>8, <1>9, Bookkeeping DEF Writing

\* The answer is "created" as soon as anything was stored.
LEMMA ReplyFile ==
  ASSUME FileInv, NEW r \in DOMAIN uploads, Reply(r)
  PROVE  FileInv'
  <1> DEFINE v == uploads[r]
             u == [v EXCEPT !.pc = "replied", !.reply = Outcome(v.results)]
  <1>1. v \in UploadRecord /\ InOrder(v) /\ v.pc = "part"
    BY DEF FileInv, LibraryType, UploadsInOrder, Reply, At
  <1>2. UNCHANGED <<target, partial, content, history>> /\ Step(r, u)
    BY DEF Reply
  <1>3. Outcome(v.results) \in {"refused", "created", "not_writable"}
        /\ (Outcome(v.results) # "created" =>
              \A i \in DOMAIN v.results : v.results[i] # "stored")
    BY DEF Outcome
  <1>4. /\ u \in UploadRecord /\ u.parts = v.parts /\ u.pc = "replied"
        /\ u.results = v.results /\ u.reply = Outcome(v.results)
    BY <1>1, <1>3 DEF UploadRecord
  <1>5. InOrder(u)
    BY <1>3, <1>4 DEF InOrder
  <1>6. \A i \in DOMAIN u.parts : Unopened(u, i) => Unopened(v, i)
    BY <1>4 DEF Unopened
  <1> HIDE DEF u
  <1> QED BY <1>1, <1>2, <1>4, <1>5, <1>6, Bookkeeping DEF Writing

\* A slice at the end of what this upload wrote.
LEMMA WrittenAtEnd ==
  ASSUME NEW k \in Nat, NEW v
  PROVE  Written([i \in 1 .. k |-> v], k + 1, v) = [i \in 1 .. (k + 1) |-> v]
  <1> DEFINE slices == [i \in 1 .. k |-> v]
  <1>1. Len(slices) = k
    OBVIOUS
  <1>2. \A i \in 1 .. k : slices[i] = v
    OBVIOUS
  <1> HIDE DEF slices
  <1> QED BY <1>1, <1>2 DEF Written

\* A writer adds a slice at its place of the inode it opened.  At a name
\* without overlaps that is nobody else's, and not the target.
LEMMA WriteFile ==
  ASSUME FileInv, NEW r \in DOMAIN uploads, WriteSlice(r)
  PROVE  /\ FileInv'
         /\ \A n \in Names \ history.overlapped :
              target[n] # None => content'[target[n]] = content[target[n]]
  <1> DEFINE v == uploads[r]
             next == v.written + 1
             m == v.parts[v.at].name
             w == v.parts[v.at].version
             u == [v EXCEPT !.written = next]
  <1>1. v \in UploadRecord /\ InOrder(v) /\ v.pc = "write"
    BY DEF FileInv, LibraryType, UploadsInOrder, WriteSlice, At
  <1>2. UNCHANGED <<target, partial, history>> /\ Step(r, u)
        /\ content' = [content EXCEPT ![v.inode] = Written(content[v.inode], next, w)]
    BY DEF WriteSlice, Part
  <1>3. v.written \in Nat /\ next \in Nat /\ next = v.written + 1
    BY <1>1 DEF UploadRecord
  <1>4. m \in Names /\ w \in Versions /\ v.at \in DOMAIN v.parts
    BY <1>1, PartsTyped DEF InOrder
  <1> HIDE DEF next
  <1>5. /\ u \in UploadRecord /\ u.parts = v.parts /\ u.pc = v.pc /\ u.at = v.at
        /\ u.results = v.results /\ u.reply = v.reply /\ u.written = next /\ u.inode = v.inode
    BY <1>1, <1>3 DEF UploadRecord
  <1> HIDE DEF u
  <1>6. /\ DOMAIN uploads' = DOMAIN uploads /\ uploads'[r] = u
        /\ \A q \in DOMAIN uploads : uploads'[q].parts = uploads[q].parts
        /\ \A q \in DOMAIN uploads \ {r} : uploads'[q] = uploads[q]
        /\ uploads' \in [DOMAIN uploads' -> UploadRecord]
        /\ SentOnce'
    BY <1>2, <1>5, OneUpload
  <1>7. v.inode # None /\ v.inode \in Versions /\ Owned(uploads, v.inode, m)
    BY <1>1 DEF FileInv, Owners, At, Part, UploadRecord
  <1>8. LibraryType'
    <2>1. content[v.inode] \in Seq(Versions \cup {None})
      BY <1>7 DEF FileInv, LibraryType
    <2>2. Written(content[v.inode], next, w) \in Seq(Versions \cup {None})
      BY <1>3, <1>4, <2>1 DEF Written
    <2>3. content' \in [Versions -> Seq(Versions \cup {None})]
      BY <1>2, <2>2 DEF FileInv, LibraryType
    <2> QED BY <1>2, <1>6, <2>3 DEF FileInv, LibraryType
  <1>9. UploadsInOrder'
    <2>1. InOrder(u)
      BY <1>1, <1>5 DEF InOrder
    <2> QED BY <1>6, <2>1 DEF FileInv, UploadsInOrder
  <1>10. \A q \in DOMAIN uploads :
           /\ uploads'[q].pc = uploads[q].pc /\ uploads'[q].at = uploads[q].at
           /\ uploads'[q].inode = uploads[q].inode /\ uploads'[q].results = uploads[q].results
           /\ uploads'[q].parts = uploads[q].parts
    BY <1>5, <1>6
  <1>11. Owners'
    <2>1. \A x, n : Owned(uploads, x, n) => Owned(uploads', x, n)
      BY <1>6, OwnedKept
    <2> QED BY <1>2, <1>6, <1>10, <2>1 DEF FileInv, Owners, At, Part
  <1>12. Fresh'
    BY <1>2, <1>6, <1>10 DEF FileInv, Fresh, Unopened
  <1>13. SoleWriter' /\ Apart' /\ PartialIsWritten'
    BY <1>2, <1>6, <1>10 DEF FileInv, SoleWriter, Apart, PartialIsWritten, Writer
  <1>14. \A n \in Names \ history.overlapped : target[n] # None => target[n] # v.inode
    <2>1. ASSUME NEW n \in Names \ history.overlapped, target[n] # None, target[n] = v.inode
          PROVE  FALSE
      <3>1. Owned(uploads, target[n], n)
        BY <2>1 DEF FileInv, Owners
      <3>2. n = m
        BY <1>7, <2>1, <3>1, OneOwner DEF FileInv
      <3>3. partial[m] = v.inode
        BY <1>1, <2>1, <3>2 DEF FileInv, Progress, At, Part
      <3> QED BY <1>7, <2>1, <3>2, <3>3 DEF FileInv, Apart
    <2> QED BY <2>1
  <1>15. \A n \in Names \ history.overlapped :
           target[n] # None => content'[target[n]] = content[target[n]]
    BY <1>2, <1>14 DEF FileInv, LibraryType
  <1>16. StoredWhole'
    <2>1. \A q \in DOMAIN uploads, i \in Nat, n \in Names :
            StoredAs(uploads[q], i, n) => StoredAs(uploads'[q], i, n)
      BY <1>10 DEF StoredAs
    <2> QED BY <1>2, <1>6, <1>15, <2>1 DEF FileInv, StoredWhole
  <1>17. Progress'
    <2>1. ASSUME NEW q \in DOMAIN uploads, uploads[q].pc = "write",
                 uploads[q].parts[uploads[q].at].name \notin history.overlapped
          PROVE  /\ partial[uploads[q].parts[uploads[q].at].name] = uploads[q].inode
                 /\ content'[uploads[q].inode] =
                      [i \in 1 .. uploads'[q].written |-> uploads[q].parts[uploads[q].at].version]
      <3>1. /\ partial[uploads[q].parts[uploads[q].at].name] = uploads[q].inode
            /\ content[uploads[q].inode] =
                 [i \in 1 .. uploads[q].written |-> uploads[q].parts[uploads[q].at].version]
        BY <2>1 DEF FileInv, Progress, At, Part
      <3>2. CASE q = r
        <4>1. content'[v.inode] = Written(content[v.inode], next, w)
          BY <1>2, <1>7 DEF FileInv, LibraryType
        <4>2. Written([i \in 1 .. v.written |-> w], v.written + 1, w)
                = [i \in 1 .. (v.written + 1) |-> w]
          BY <1>3, WrittenAtEnd
        <4>3. content[v.inode] = [i \in 1 .. v.written |-> w]
          BY <3>1, <3>2
        <4>4. content'[v.inode] = [i \in 1 .. (v.written + 1) |-> w]
          BY <1>3, <4>1, <4>2, <4>3
        <4>5. uploads'[q].written = v.written + 1
          BY <1>3, <1>5, <1>6, <3>2
        <4> QED BY <3>1, <3>2, <4>4, <4>5
      <3>3. CASE q # r
        <4>1. uploads[q].inode # v.inode
          <5>1. /\ uploads[q].inode # None
                /\ Owned(uploads, uploads[q].inode, uploads[q].parts[uploads[q].at].name)
            BY <2>1 DEF FileInv, Owners, At, Part
          <5>2. uploads[q].parts[uploads[q].at].name # m
            <6>1. uploads[q].parts[uploads[q].at].name \in Names
              <7>1. uploads[q] \in UploadRecord /\ uploads[q].at \in DOMAIN uploads[q].parts
                BY <2>1 DEF FileInv, LibraryType, UploadsInOrder, InOrder
              <7> QED BY <7>1, PartsTyped
            <6> QED BY <1>1, <2>1, <3>3, <6>1 DEF FileInv, SoleWriter, Writer
          <5> QED BY <1>7, <5>1, <5>2, OneOwner DEF FileInv
        <4>2. content'[uploads[q].inode] = content[uploads[q].inode]
          BY <1>2, <4>1 DEF FileInv, LibraryType
        <4> QED BY <1>6, <3>1, <3>3, <4>2
      <3> QED BY <3>2, <3>3
    <2> QED BY <1>2, <1>6, <1>10, <2>1 DEF Progress, At, Part
  <1> QED BY <1>8, <1>6, <1>9, <1>11, <1>12, <1>13, <1>15, <1>16, <1>17 DEF FileInv

\* The partial file a part is written to is new, or one an upload that was
\* killed left behind: neither is a target.
LEMMA OpenFile ==
  ASSUME FileInv, NEW r \in DOMAIN uploads, OpenPartial(r)
  PROVE  /\ FileInv'
         /\ \A n \in Names \ history'.overlapped :
              target[n] # None => content'[target[n]] = content[target[n]]
  <1> DEFINE v == uploads[r]
             m == v.parts[v.at].name
             w == v.parts[v.at].version
             inode == IF partial[m] = None THEN w ELSE partial[m]
             u == [v EXCEPT !.pc = "write", !.inode = inode, !.written = 0]
  <1>1. v \in UploadRecord /\ InOrder(v) /\ v.pc = "part" /\ v.at \in DOMAIN v.parts
    <2>1. v \in UploadRecord /\ InOrder(v) /\ v.pc = "part" /\ v.at <= Len(v.parts)
      BY DEF FileInv, LibraryType, UploadsInOrder, OpenPartial, At
    <2> QED BY <2>1 DEF UploadRecord
  <1>2. m \in Names /\ w \in Versions
    BY <1>1, PartsTyped
  <1>3. UNCHANGED target /\ Step(r, u) /\ partial' = [partial EXCEPT ![m] = inode]
        /\ content' = [content EXCEPT ![inode] = <<>>]
    BY DEF OpenPartial, Part
  <1>4. /\ history' \in [overlapped : SUBSET Names, drifted : BOOLEAN, killed : BOOLEAN]
        /\ history'.killed = history.killed /\ history.overlapped \subseteq history'.overlapped
        /\ \A q \in DOMAIN uploads \ {r} : Writer(uploads[q], m) => m \in history'.overlapped
    <2> DEFINE more == {m : other \in {q \in DOMAIN uploads \ {r} : Writing(q) /\ Part(q).name = m}}
    <2>1. history' = [history EXCEPT !.overlapped = history.overlapped \cup more]
      BY DEF OpenPartial, Part
    <2>2. more \subseteq Names
      BY <1>2
    <2>3. \A q \in DOMAIN uploads \ {r} : Writer(uploads[q], m) => m \in more
      BY DEF Writer, Writing, Part
    <2> HIDE DEF more
    <2>4. history \in [overlapped : SUBSET Names, drifted : BOOLEAN, killed : BOOLEAN]
      BY DEF FileInv, LibraryType
    <2> QED BY <2>1, <2>2, <2>3, <2>4
  <1>5. inode \in Versions /\ inode # None /\ Owned(uploads, inode, m)
    <2>1. CASE partial[m] = None
      <3>1. Owned(uploads, w, m)
        BY <1>1 DEF Owned
      <3> QED BY <1>2, <2>1, <3>1, LibraryAssumption
    <2>2. CASE partial[m] # None
      BY <1>2, <2>2 DEF FileInv, Owners, LibraryType
    <2> QED BY <2>1, <2>2
  <1>6. /\ \A n \in Names : target[n] # w /\ partial[n] # w
        /\ \A q \in DOMAIN uploads : \A i \in DOMAIN uploads[q].parts :
             q # r \/ i # v.at => uploads[q].parts[i].version # w
    <2>1. Unopened(v, v.at)
      BY <1>1 DEF Unopened, UploadRecord
    <2>2. \A n \in Names : target[n] # w /\ partial[n] # w
      BY <1>1, <2>1 DEF FileInv, Fresh
    <2> QED BY <1>1, <2>2 DEF FileInv, SentOnce
  <1>7. inode = w \/ inode = partial[m]
    OBVIOUS
  <1>8. m \notin history.overlapped => inode # target[m]
    BY <1>2, <1>6 DEF FileInv, Apart
  <1> HIDE DEF inode
  <1>9. /\ u \in UploadRecord /\ u.parts = v.parts /\ u.pc = "write" /\ u.at = v.at
        /\ u.results = v.results /\ u.reply = v.reply /\ u.written = 0 /\ u.inode = inode
    BY <1>1, <1>5 DEF UploadRecord
  <1> HIDE DEF u
  <1>10. /\ DOMAIN uploads' = DOMAIN uploads /\ uploads'[r] = u
         /\ \A q \in DOMAIN uploads : uploads'[q].parts = uploads[q].parts
         /\ \A q \in DOMAIN uploads \ {r} : uploads'[q] = uploads[q]
         /\ uploads' \in [DOMAIN uploads' -> UploadRecord]
         /\ SentOnce'
    BY <1>3, <1>9, OneUpload
  <1>11. LibraryType'
    <2>1. <<>> \in Seq(Versions \cup {None})
      OBVIOUS
    <2>2. content' \in [Versions -> Seq(Versions \cup {None})]
      BY <1>3, <2>1 DEF FileInv, LibraryType
    <2>3. partial' \in [Names -> Versions \cup {None}]
      BY <1>3, <1>5 DEF FileInv, LibraryType
    <2> QED BY <1>3, <1>4, <1>10, <2>2, <2>3 DEF FileInv, LibraryType
  <1>12. partial'[m] = inode /\ \A n \in Names \ {m} : partial'[n] = partial[n]
    BY <1>2, <1>3 DEF FileInv, LibraryType
  <1>13. UploadsInOrder'
    <2>1. InOrder(u)
      BY <1>1, <1>9 DEF InOrder, None
    <2> QED BY <1>10, <2>1 DEF FileInv, UploadsInOrder
  <1>14. Owners'
    <2>1. \A x, n : Owned(uploads, x, n) => Owned(uploads', x, n)
      BY <1>10, OwnedKept
    <2>2. \A n \in Names : partial'[n] # None => Owned(uploads', partial'[n], n)
      BY <1>5, <1>12, <2>1 DEF FileInv, Owners
    <2>3. \A n \in Names : target'[n] # None => Owned(uploads', target'[n], n)
      BY <1>3, <2>1 DEF FileInv, Owners
    <2>4. ASSUME NEW q \in DOMAIN uploads, uploads'[q].pc = "write"
          PROVE  /\ uploads'[q].inode # None
                 /\ Owned(uploads', uploads'[q].inode, uploads'[q].parts[uploads'[q].at].name)
      <3>1. CASE q = r
        BY <1>5, <1>9, <1>10, <2>1, <3>1
      <3>2. CASE q # r
        BY <1>10, <2>1, <2>4, <3>2 DEF FileInv, Owners, At, Part
      <3> QED BY <3>1, <3>2
    <2> QED BY <1>10, <2>2, <2>3, <2>4 DEF Owners, At, Part
  <1>15. Fresh'
    <2>1. ASSUME NEW q \in DOMAIN uploads, NEW i \in DOMAIN uploads[q].parts, NEW n \in Names,
                 Unopened(uploads'[q], i)
          PROVE  /\ target[n] # uploads[q].parts[i].version
                 /\ partial'[n] # uploads[q].parts[i].version
      <3>1. Unopened(uploads[q], i) /\ (q # r \/ i # v.at)
        BY <1>1, <1>9, <1>10, <2>1 DEF Unopened
      <3>2. /\ target[n] # uploads[q].parts[i].version
            /\ partial[n] # uploads[q].parts[i].version
        BY <3>1 DEF FileInv, Fresh
      <3>3. partial[m] # uploads[q].parts[i].version
        BY <1>2, <3>1 DEF FileInv, Fresh
      <3> QED BY <1>6, <1>7, <1>12, <3>1, <3>2, <3>3
    <2> QED BY <1>3, <1>10, <2>1 DEF Fresh
  <1>16. \A q \in DOMAIN uploads, n \in Names :
           Writer(uploads'[q], n) <=> IF q = r THEN n = m ELSE Writer(uploads[q], n)
    BY <1>9, <1>10 DEF Writer
  <1>17. SoleWriter'
    BY <1>4, <1>10, <1>16 DEF FileInv, SoleWriter
  <1>18. Apart'
    BY <1>3, <1>4, <1>8, <1>12 DEF FileInv, Apart
  <1>19. PartialIsWritten'
    <2>1. \A n \in Names : ~Writer(v, n)
      BY <1>1 DEF Writer
    <2> QED BY <1>4, <1>10, <1>12, <1>16, <2>1 DEF FileInv, PartialIsWritten
  <1>20. \A n \in Names \ history'.overlapped :
           target[n] # None => content'[target[n]] = content[target[n]]
    <2>1. ASSUME NEW n \in Names \ history'.overlapped, target[n] # None
          PROVE  target[n] # inode /\ target[n] \in Versions
      BY <1>4, <1>5, <1>8, <2>1, OneOwner DEF FileInv, Owners, LibraryType
    <2> QED BY <1>3, <2>1 DEF FileInv, LibraryType
  <1>21. StoredWhole'
    <2>1. \A q \in DOMAIN uploads, i \in Nat, n \in Names :
            StoredAs(uploads[q], i, n) => StoredAs(uploads'[q], i, n)
      BY <1>9, <1>10 DEF StoredAs
    <2> QED BY <1>3, <1>4, <1>10, <1>20, <2>1 DEF FileInv, StoredWhole
  <1>22. Progress'
    <2>1. ASSUME NEW q \in DOMAIN uploads, uploads'[q].pc = "write",
                 uploads[q].parts[uploads'[q].at].name \notin history'.overlapped
          PROVE  /\ partial'[uploads[q].parts[uploads'[q].at].name] = uploads'[q].inode
                 /\ content'[uploads'[q].inode] =
                      [i \in 1 .. uploads'[q].written |->
                         uploads[q].parts[uploads'[q].at].version]
      <3>1. CASE q = r
        <4>1. content'[inode] = <<>> /\ [i \in 1 .. 0 |-> w] = <<>>
          BY <1>3, <1>5 DEF FileInv, LibraryType
        <4> QED BY <1>9, <1>10, <1>12, <3>1, <4>1
      <3>2. CASE q # r
        <4> DEFINE k == uploads[q].parts[uploads[q].at].name
        <4>1. uploads'[q] = uploads[q] /\ uploads[q].pc = "write" /\ k \notin history'.overlapped
          BY <1>10, <2>1, <3>2
        <4>2. k # m
          BY <1>4, <3>2, <4>1 DEF Writer
        <4>3. k \in Names
          <5>1. uploads[q] \in UploadRecord /\ uploads[q].at \in DOMAIN uploads[q].parts
            BY <4>1 DEF FileInv, LibraryType, UploadsInOrder, InOrder
          <5> QED BY <5>1, PartsTyped
        <4>4. /\ partial[k] = uploads[q].inode
              /\ content[uploads[q].inode] =
                   [i \in 1 .. uploads[q].written |-> uploads[q].parts[uploads[q].at].version]
          BY <1>4, <4>1 DEF FileInv, Progress, At, Part
        <4>5. uploads[q].inode # inode
          BY <1>5, <4>1, <4>2, OneOwner DEF FileInv, Owners, At, Part
        <4>6. content'[uploads[q].inode] = content[uploads[q].inode]
          BY <1>3, <4>5 DEF FileInv, LibraryType
        <4> QED BY <1>12, <4>1, <4>2, <4>3, <4>4, <4>6
      <3> QED BY <3>1, <3>2
    <2> QED BY <1>10, <2>1 DEF Progress, At, Part
  <1> QED BY <1>10, <1>11, <1>13, <1>14, <1>15, <1>17, <1>18, <1>19, <1>20, <1>21, <1>22 DEF FileInv

\* What replacing the file at a path does to the history.
LEMMA ReplaceHistory ==
  ASSUME LibraryType, NEW m, NEW inode, Replace(m, inode)
  PROVE  /\ history' \in [overlapped : SUBSET Names, drifted : BOOLEAN, killed : BOOLEAN]
         /\ history'.overlapped = history.overlapped /\ history'.killed = history.killed
         /\ history'.drifted = (history.drifted \/ Reading(m))
  <1>1. history \in [overlapped : SUBSET Names, drifted : BOOLEAN, killed : BOOLEAN]
    BY DEF LibraryType
  <1>2. Reading(m) \in BOOLEAN
    BY DEF Reading
  <1>3. history' = [history EXCEPT !.drifted = history.drifted \/ Reading(m)]
    BY DEF Replace
  <1> QED BY <1>1, <1>2, <1>3

\* The move makes a whole file the target, where uploads do not overlap.
LEMMA MoveFile ==
  ASSUME FileInv, NEW r \in DOMAIN uploads, Move(r)
  PROVE  FileInv'
  <1> DEFINE v == uploads[r]
             m == v.parts[v.at].name
             w == v.parts[v.at].version
  <1>1. v \in UploadRecord /\ InOrder(v) /\ v.pc = "write" /\ v.at \in DOMAIN v.parts
        /\ v.written = Length[w]
    BY DEF FileInv, LibraryType, UploadsInOrder, InOrder, Move, At, Part
  <1>2. m \in Names /\ w \in Versions
    BY <1>1, PartsTyped
  <1>3. v.at \in Nat \ {0} /\ v.results \in Seq(Results)
        /\ "stored" \in Results /\ "write_failed" \in Results
    BY <1>1 DEF UploadRecord, Results
  <1>4. ASSUME NEW result \in {"stored", "write_failed"},
               NEW u, u = [v EXCEPT !.pc = "cleanup", !.results = Append(v.results, result)]
        PROVE  /\ u \in UploadRecord /\ u.parts = v.parts /\ u.pc = "cleanup" /\ u.at = v.at
               /\ InOrder(u)
               /\ \A i \in DOMAIN v.results : i \in DOMAIN u.results /\ u.results[i] = v.results[i]
               /\ v.at \in DOMAIN u.results /\ u.results[v.at] = result
               /\ \A i \in DOMAIN u.parts : Unopened(u, i) => Unopened(v, i)
    <2> DEFINE results == Append(v.results, result)
    <2>1. /\ results \in Seq(Results) /\ Len(results) = v.at
          /\ v.at \in DOMAIN results /\ results[v.at] = result
          /\ \A i \in DOMAIN v.results : i \in DOMAIN results /\ results[i] = v.results[i]
      BY <1>1, <1>3, OneResult DEF InOrder
    <2>2. u = [v EXCEPT !.pc = "cleanup", !.results = results]
      BY <1>4
    <2> HIDE DEF results
    <2>3. /\ u \in UploadRecord /\ u.parts = v.parts /\ u.pc = "cleanup" /\ u.at = v.at
          /\ u.results = results /\ u.reply = v.reply
      BY <1>1, <2>1, <2>2 DEF UploadRecord
    <2>4. InOrder(u)
      BY <1>1, <2>1, <2>3 DEF InOrder, None
    <2>5. \A i \in DOMAIN u.parts : Unopened(u, i) => Unopened(v, i)
      BY <1>1, <2>3 DEF Unopened
    <2> QED BY <2>1, <2>3, <2>4, <2>5
  <1>5. CASE partial[m] = None
    <2> DEFINE u == [v EXCEPT !.pc = "cleanup", !.results = Append(v.results, "write_failed")]
    <2>1. UNCHANGED <<target, partial, content, history>> /\ Step(r, u)
      BY <1>5 DEF Move, Part
    <2>2. /\ u \in UploadRecord /\ u.parts = v.parts /\ u.pc = "cleanup" /\ u.at = v.at
          /\ InOrder(u)
          /\ \A i \in DOMAIN v.results : i \in DOMAIN u.results /\ u.results[i] = v.results[i]
          /\ \A i \in DOMAIN u.parts : Unopened(u, i) => Unopened(v, i)
      BY <1>4
    <2> HIDE DEF u
    <2> QED BY <1>1, <2>1, <2>2, Bookkeeping DEF Writing
  <1>6. CASE partial[m] # None
    <2> DEFINE u == [v EXCEPT !.pc = "cleanup", !.results = Append(v.results, "stored")]
    <2>1. /\ UNCHANGED content /\ Step(r, u) /\ Replace(m, partial[m])
          /\ partial' = [partial EXCEPT ![m] = None]
      BY <1>6 DEF Move, Part
    <2>2. /\ u \in UploadRecord /\ u.parts = v.parts /\ u.pc = "cleanup" /\ u.at = v.at
          /\ InOrder(u)
          /\ \A i \in DOMAIN v.results : i \in DOMAIN u.results /\ u.results[i] = v.results[i]
          /\ v.at \in DOMAIN u.results /\ u.results[v.at] = "stored"
          /\ \A i \in DOMAIN u.parts : Unopened(u, i) => Unopened(v, i)
      BY <1>4
    <2> HIDE DEF u
    <2>3. /\ DOMAIN uploads' = DOMAIN uploads /\ uploads'[r] = u
          /\ \A q \in DOMAIN uploads : uploads'[q].parts = uploads[q].parts
          /\ \A q \in DOMAIN uploads \ {r} : uploads'[q] = uploads[q]
          /\ uploads' \in [DOMAIN uploads' -> UploadRecord]
          /\ SentOnce'
      BY <2>1, <2>2, OneUpload
    <2>4. /\ target'[m] = partial[m] /\ partial'[m] = None
          /\ \A n \in Names \ {m} : target'[n] = target[n] /\ partial'[n] = partial[n]
          /\ target' \in [Names -> Versions \cup {None}]
          /\ partial' \in [Names -> Versions \cup {None}]
      BY <1>2, <2>1 DEF Replace, FileInv, LibraryType
    <2>5. /\ history' \in [overlapped : SUBSET Names, drifted : BOOLEAN, killed : BOOLEAN]
          /\ history'.overlapped = history.overlapped /\ history'.killed = history.killed
      BY <2>1, ReplaceHistory DEF FileInv
    <2>6. LibraryType'
      BY <2>1, <2>3, <2>4, <2>5 DEF FileInv, LibraryType
    <2>7. UploadsInOrder'
      BY <2>2, <2>3 DEF FileInv, UploadsInOrder
    <2>8. \A q \in DOMAIN uploads : uploads'[q].pc = "write" => q # r
      BY <2>2, <2>3
    <2>9. Owners'
      <3>1. \A x, n : Owned(uploads, x, n) => Owned(uploads', x, n)
        BY <2>3, OwnedKept
      <3>2. Owned(uploads, partial[m], m)
        BY <1>2, <1>6 DEF FileInv, Owners
      <3>3. \A n \in Names : target'[n] # None => Owned(uploads', target'[n], n)
        BY <2>4, <3>1, <3>2 DEF FileInv, Owners
      <3>4. \A n \in Names : partial'[n] # None => Owned(uploads', partial'[n], n)
        BY <2>4, <3>1 DEF FileInv, Owners
      <3> QED BY <2>3, <2>8, <3>1, <3>3, <3>4 DEF FileInv, Owners, At, Part
    <2>10. Fresh'
      <3>1. ASSUME NEW q \in DOMAIN uploads, NEW i \in DOMAIN uploads[q].parts, NEW n \in Names,
                   Unopened(uploads'[q], i)
            PROVE  /\ target'[n] # uploads[q].parts[i].version
                   /\ partial'[n] # uploads[q].parts[i].version
        <4>1. Unopened(uploads[q], i)
          BY <2>2, <2>3, <3>1
        <4>2. \A k \in Names : /\ target[k] # uploads[q].parts[i].version
                               /\ partial[k] # uploads[q].parts[i].version
          BY <4>1 DEF FileInv, Fresh
        <4>3. uploads[q].parts[i].version # None
          BY PartsTyped, LibraryAssumption DEF FileInv, LibraryType
        <4> QED BY <1>2, <2>4, <4>2, <4>3
      <3> QED BY <2>3, <3>1 DEF Fresh
    <2>11. \A q \in DOMAIN uploads, n \in Names : Writer(uploads'[q], n) <=> Writer(uploads[q], n)
      BY <1>1, <2>2, <2>3 DEF Writer
    <2>12. SoleWriter'
      BY <2>3, <2>5, <2>11 DEF FileInv, SoleWriter
    <2>13. Apart'
      BY <2>4, <2>5 DEF FileInv, Apart
    <2>14. PartialIsWritten'
      BY <2>3, <2>4, <2>5, <2>11 DEF FileInv, PartialIsWritten
    <2>15. Progress'
      <3>1. ASSUME NEW q \in DOMAIN uploads, uploads'[q].pc = "write",
                   uploads'[q].parts[uploads'[q].at].name \notin history.overlapped
            PROVE  /\ partial'[uploads'[q].parts[uploads'[q].at].name] = uploads'[q].inode
                   /\ content[uploads'[q].inode] =
                        [i \in 1 .. uploads'[q].written |->
                           uploads'[q].parts[uploads'[q].at].version]
        <4> DEFINE k == uploads[q].parts[uploads[q].at].name
        <4>1. q # r /\ uploads'[q] = uploads[q] /\ uploads[q].pc = "write"
              /\ k \notin history.overlapped
          BY <2>3, <2>8, <3>1
        <4>2. k \in Names
          <5>1. uploads[q] \in UploadRecord /\ uploads[q].at \in DOMAIN uploads[q].parts
            BY <4>1 DEF FileInv, LibraryType, UploadsInOrder, InOrder
          <5> QED BY <5>1, PartsTyped
        <4>3. k # m
          BY <1>1, <4>1, <4>2 DEF FileInv, SoleWriter, Writer
        <4>4. /\ partial[k] = uploads[q].inode
              /\ content[uploads[q].inode] =
                   [i \in 1 .. uploads[q].written |-> uploads[q].parts[uploads[q].at].version]
          BY <4>1 DEF FileInv, Progress, At, Part
        <4> QED BY <2>4, <4>1, <4>2, <4>3, <4>4
      <3> QED BY <2>1, <2>3, <2>5, <3>1 DEF Progress, At, Part
    <2>16. StoredWhole'
      <3>1. \A q \in DOMAIN uploads, i \in Nat, n \in Names :
              StoredAs(uploads[q], i, n) => StoredAs(uploads'[q], i, n)
        BY <2>2, <2>3 DEF StoredAs
      <3>2. ASSUME NEW n \in Names \ history.overlapped, target'[n] # None
            PROVE  \E q \in DOMAIN uploads, i \in Nat :
                     /\ StoredAs(uploads'[q], i, n)
                     /\ content[target'[n]] = Whole(uploads[q].parts[i].version)
        <4>1. CASE n = m
          <5>1. partial[m] = v.inode /\ content[v.inode] = [i \in 1 .. v.written |-> w]
            BY <1>1, <3>2, <4>1 DEF FileInv, Progress, At, Part
          <5>2. content[target'[n]] = Whole(w)
            BY <1>1, <2>4, <4>1, <5>1 DEF Whole
          <5>3. StoredAs(uploads'[r], v.at, n)
            BY <1>1, <2>2, <2>3, <4>1 DEF StoredAs
          <5> QED BY <1>3, <5>2, <5>3
        <4>2. CASE n # m
          BY <2>4, <3>1, <3>2, <4>2 DEF FileInv, StoredWhole
        <4> QED BY <4>1, <4>2
      <3> QED BY <2>1, <2>3, <2>5, <3>2 DEF StoredWhole
    <2> QED BY <2>3, <2>6, <2>7, <2>9, <2>10, <2>12, <2>13, <2>14, <2>15, <2>16 DEF FileInv
  <1> QED BY <1>5, <1>6

\* The partial file goes with its upload; a recognised source stays.
LEMMA CleanupFile ==
  ASSUME FileInv, NEW r \in DOMAIN uploads, Cleanup(r)
  PROVE  FileInv'
  <1> DEFINE v == uploads[r]
             m == v.parts[v.at].name
             next == v.at + 1
  <1>1. v \in UploadRecord /\ InOrder(v) /\ v.pc = "cleanup" /\ v.at \in DOMAIN v.parts
    BY DEF FileInv, LibraryType, UploadsInOrder, InOrder, Cleanup, At
  <1>2. m \in Names
    BY <1>1, PartsTyped
  <1>3. /\ UNCHANGED <<target, content, history>> /\ partial' = [partial EXCEPT ![m] = None]
        /\ \/ v.results[v.at] = "stored" /\ Step(r, [v EXCEPT !.pc = "sniff"])
           \/ Step(r, [v EXCEPT !.pc = "part", !.at = next, !.inode = None])
    BY DEF Cleanup, Part
  <1>4. next \in Nat \ {0} /\ next = v.at + 1 /\ v.at \in Nat \ {0}
    BY <1>1 DEF UploadRecord
  <1> HIDE DEF next
  <1>5. PICK u \in UploadRecord :
          /\ Step(r, u) /\ u.parts = v.parts /\ u.results = v.results /\ u.pc \in {"sniff", "part"}
          /\ InOrder(u) /\ u.at >= v.at /\ u.at \in Nat
          /\ u.at = v.at => u.pc = "sniff"
    <2>1. CASE v.results[v.at] = "stored" /\ Step(r, [v EXCEPT !.pc = "sniff"])
      <3> DEFINE u == [v EXCEPT !.pc = "sniff"]
      <3>1. /\ u \in UploadRecord /\ u.parts = v.parts /\ u.results = v.results /\ u.pc = "sniff"
            /\ u.at = v.at /\ u.reply = v.reply /\ Step(r, u)
        BY <1>1, <2>1 DEF UploadRecord
      <3> HIDE DEF u
      <3>2. InOrder(u)
        BY <1>1, <2>1, <3>1 DEF InOrder, None
      <3> QED BY <1>4, <3>1, <3>2
    <2>2. CASE Step(r, [v EXCEPT !.pc = "part", !.at = next, !.inode = None])
      <3> DEFINE u == [v EXCEPT !.pc = "part", !.at = next, !.inode = None]
      <3>1. /\ u \in UploadRecord /\ u.parts = v.parts /\ u.results = v.results /\ u.pc = "part"
            /\ u.at = next /\ u.reply = v.reply /\ Step(r, u)
        BY <1>1, <1>4, <2>2 DEF UploadRecord
      <3> HIDE DEF u
      <3>2. InOrder(u)
        BY <1>1, <1>4, <3>1 DEF InOrder, None
      <3> QED BY <1>4, <3>1, <3>2
    <2> QED BY <1>3, <2>1, <2>2
  <1>6. /\ DOMAIN uploads' = DOMAIN uploads /\ uploads'[r] = u
        /\ \A q \in DOMAIN uploads : uploads'[q].parts = uploads[q].parts
        /\ \A q \in DOMAIN uploads \ {r} : uploads'[q] = uploads[q]
        /\ uploads' \in [DOMAIN uploads' -> UploadRecord]
        /\ SentOnce'
    BY <1>5, OneUpload
  <1>7. /\ partial'[m] = None /\ \A n \in Names \ {m} : partial'[n] = partial[n]
        /\ partial' \in [Names -> Versions \cup {None}]
    BY <1>2, <1>3 DEF FileInv, LibraryType
  <1>8. LibraryType' /\ UploadsInOrder'
    BY <1>3, <1>5, <1>6, <1>7 DEF FileInv, LibraryType, UploadsInOrder
  <1>9. \A q \in DOMAIN uploads : uploads'[q].pc = "write" => q # r
    BY <1>5, <1>6
  <1>10. Owners'
    <2>1. \A x, n : Owned(uploads, x, n) => Owned(uploads', x, n)
      BY <1>6, OwnedKept
    <2>2. \A n \in Names : partial'[n] # None => Owned(uploads', partial'[n], n)
      BY <1>7, <2>1 DEF FileInv, Owners
    <2> QED BY <1>3, <1>6, <1>9, <2>1, <2>2 DEF FileInv, Owners, At, Part
  <1>11. Fresh'
    <2>1. ASSUME NEW q \in DOMAIN uploads, NEW i \in DOMAIN uploads[q].parts, NEW n \in Names,
                 Unopened(uploads'[q], i)
          PROVE  /\ target[n] # uploads[q].parts[i].version
                 /\ partial'[n] # uploads[q].parts[i].version
      <3>1. uploads[q].parts[i].version # None /\ i \in Nat
        BY PartsTyped, LibraryAssumption DEF FileInv, LibraryType
      <3>2. Unopened(uploads[q], i)
        BY <1>1, <1>4, <1>5, <1>6, <2>1, <3>1 DEF Unopened
      <3> QED BY <1>7, <3>1, <3>2 DEF FileInv, Fresh
    <2> QED BY <1>3, <1>6, <2>1 DEF Fresh
  <1>12. \A q \in DOMAIN uploads, n \in Names :
           Writer(uploads'[q], n) <=> q # r /\ Writer(uploads[q], n)
    BY <1>5, <1>6 DEF Writer
  <1>13. SoleWriter' /\ Apart'
    BY <1>3, <1>6, <1>7, <1>12 DEF FileInv, SoleWriter, Apart
  <1>14. PartialIsWritten'
    <2>1. \A n \in Names : Writer(v, n) => n = m
      BY DEF Writer
    <2> QED BY <1>3, <1>6, <1>7, <1>12, <2>1 DEF FileInv, PartialIsWritten
  <1>15. Progress'
    <2>1. ASSUME NEW q \in DOMAIN uploads, uploads'[q].pc = "write",
                 uploads'[q].parts[uploads'[q].at].name \notin history.overlapped
          PROVE  /\ partial'[uploads'[q].parts[uploads'[q].at].name] = uploads'[q].inode
                 /\ content[uploads'[q].inode] =
                      [i \in 1 .. uploads'[q].written |->
                         uploads'[q].parts[uploads'[q].at].version]
      <3> DEFINE k == uploads[q].parts[uploads[q].at].name
      <3>1. q # r /\ uploads'[q] = uploads[q] /\ uploads[q].pc = "write"
            /\ k \notin history.overlapped
        BY <1>6, <1>9, <2>1
      <3>2. k \in Names
        <4>1. uploads[q] \in UploadRecord /\ uploads[q].at \in DOMAIN uploads[q].parts
          BY <3>1 DEF FileInv, LibraryType, UploadsInOrder, InOrder
        <4> QED BY <4>1, PartsTyped
      <3>3. k # m
        BY <1>1, <3>1, <3>2 DEF FileInv, SoleWriter, Writer
      <3>4. /\ partial[k] = uploads[q].inode
            /\ content[uploads[q].inode] =
                 [i \in 1 .. uploads[q].written |-> uploads[q].parts[uploads[q].at].version]
        BY <3>1 DEF FileInv, Progress, At, Part
      <3> QED BY <1>7, <3>1, <3>2, <3>3, <3>4
    <2> QED BY <1>3, <1>6, <2>1 DEF Progress, At, Part
  <1>16. StoredWhole'
    <2>1. \A q \in DOMAIN uploads, i \in Nat, n \in Names :
            StoredAs(uploads[q], i, n) => StoredAs(uploads'[q], i, n)
      BY <1>5, <1>6 DEF StoredAs
    <2> QED BY <1>3, <1>6, <2>1 DEF FileInv, StoredWhole
  <1> QED BY <1>6, <1>8, <1>10, <1>11, <1>13, <1>14, <1>15, <1>16 DEF FileInv

\* A look at a stored file changes no file.
LEMMA SniffFile ==
  ASSUME FileInv, NEW r \in DOMAIN uploads, Sniff(r)
  PROVE  FileInv'
  <1> DEFINE v == uploads[r]
             next == v.at + 1
  <1>1. v \in UploadRecord /\ InOrder(v) /\ v.pc = "sniff" /\ v.at \in DOMAIN v.parts
    BY DEF FileInv, LibraryType, UploadsInOrder, InOrder, Sniff, At
  <1>2. next \in Nat \ {0} /\ next = v.at + 1 /\ v.at \in Nat \ {0}
    BY <1>1 DEF UploadRecord
  <1>3. /\ UNCHANGED <<target, partial, content, history>>
        /\ \/ Step(r, [v EXCEPT !.pc = "part", !.at = next, !.inode = None])
           \/ Step(r, [v EXCEPT !.pc = "unlink"])
    BY DEF Sniff, Part
  <1> HIDE DEF next
  <1>4. PICK u \in UploadRecord :
          /\ Step(r, u) /\ u.parts = v.parts /\ u.results = v.results /\ u.pc \in {"part", "unlink"}
          /\ InOrder(u) /\ u.at \in {v.at, next} /\ (u.at = v.at => u.pc = "unlink")
    <2>1. CASE Step(r, [v EXCEPT !.pc = "part", !.at = next, !.inode = None])
      <3> DEFINE u == [v EXCEPT !.pc = "part", !.at = next, !.inode = None]
      <3>1. /\ u \in UploadRecord /\ u.parts = v.parts /\ u.results = v.results /\ u.pc = "part"
            /\ u.at = next /\ u.reply = v.reply /\ Step(r, u)
        BY <1>1, <1>2, <2>1 DEF UploadRecord
      <3> HIDE DEF u
      <3>2. InOrder(u)
        BY <1>1, <1>2, <3>1 DEF InOrder, None
      <3> QED BY <1>2, <3>1, <3>2
    <2>2. CASE Step(r, [v EXCEPT !.pc = "unlink"])
      <3> DEFINE u == [v EXCEPT !.pc = "unlink"]
      <3>1. /\ u \in UploadRecord /\ u.parts = v.parts /\ u.results = v.results /\ u.pc = "unlink"
            /\ u.at = v.at /\ u.reply = v.reply /\ Step(r, u)
        BY <1>1, <2>2 DEF UploadRecord
      <3> HIDE DEF u
      <3>2. InOrder(u)
        BY <1>1, <3>1 DEF InOrder, None
      <3> QED BY <3>1, <3>2
    <2> QED BY <1>3, <2>1, <2>2
  <1>5. ASSUME NEW i \in DOMAIN u.parts, Unopened(u, i)
        PROVE  Unopened(v, i)
    <2>1. i \in Nat
      BY <1>4, PartsTyped
    <2> QED BY <1>1, <1>2, <1>4, <1>5, <2>1 DEF Unopened
  <1> QED BY <1>1, <1>3, <1>4, <1>5, Bookkeeping DEF Writing

\* A file no source recognised is removed, and its upload not a stored one.
LEMMA RemoveUnreadFile ==
  ASSUME FileInv, NEW r \in DOMAIN uploads, RemoveUnread(r)
  PROVE  FileInv'
  <1> DEFINE v == uploads[r]
             m == v.parts[v.at].name
             next == v.at + 1
  <1>1. v \in UploadRecord /\ InOrder(v) /\ v.pc = "unlink" /\ v.at \in DOMAIN v.parts
    BY DEF FileInv, LibraryType, UploadsInOrder, InOrder, RemoveUnread, At
  <1>2. m \in Names
    BY <1>1, PartsTyped
  <1>3. next \in Nat \ {0} /\ next = v.at + 1 /\ v.at \in Nat \ {0} /\ v.results \in Seq(Results)
        /\ v.at \in DOMAIN v.results /\ "unsupported" \in Results
    BY <1>1 DEF UploadRecord, InOrder, Results
  <1>4. UNCHANGED <<partial, content>>
    BY DEF RemoveUnread
  <1>5. /\ Step(r, [v EXCEPT !.pc = "part", !.at = next, !.results[v.at] = "unsupported"])
        /\ Replace(m, None)
    BY DEF RemoveUnread, Part
  <1> HIDE DEF next
  <1>6. FileInv'
    <2> DEFINE results == [v.results EXCEPT ![v.at] = "unsupported"]
               u == [v EXCEPT !.pc = "part", !.at = next, !.results = results]
    <2>1. /\ results \in Seq(Results) /\ Len(results) = Len(v.results)
          /\ DOMAIN results = DOMAIN v.results
          /\ \A i \in DOMAIN v.results : i # v.at => results[i] = v.results[i]
      BY <1>3
    <2>2. Step(r, u)
      BY <1>5
    <2> HIDE DEF results
    <2>3. /\ u \in UploadRecord /\ u.parts = v.parts /\ u.results = results /\ u.pc = "part"
          /\ u.at = next /\ u.reply = v.reply
      BY <1>1, <1>3, <2>1 DEF UploadRecord
    <2> HIDE DEF u
    <2>4. InOrder(u)
      BY <1>1, <1>3, <2>1, <2>3 DEF InOrder, None
    <2>5. /\ DOMAIN uploads' = DOMAIN uploads /\ uploads'[r] = u
          /\ \A q \in DOMAIN uploads : uploads'[q].parts = uploads[q].parts
          /\ \A q \in DOMAIN uploads \ {r} : uploads'[q] = uploads[q]
          /\ uploads' \in [DOMAIN uploads' -> UploadRecord]
          /\ SentOnce'
      BY <2>2, <2>3, OneUpload
    <2>6. /\ target'[m] = None /\ \A n \in Names \ {m} : target'[n] = target[n]
          /\ target' \in [Names -> Versions \cup {None}]
      BY <1>2, <1>5 DEF Replace, FileInv, LibraryType
    <2>7. /\ history' \in [overlapped : SUBSET Names, drifted : BOOLEAN, killed : BOOLEAN]
          /\ history'.overlapped = history.overlapped /\ history'.killed = history.killed
      BY <1>5, ReplaceHistory DEF FileInv
    <2>8. LibraryType' /\ UploadsInOrder'
      BY <1>4, <2>4, <2>5, <2>6, <2>7 DEF FileInv, LibraryType, UploadsInOrder
    <2>9. \A q \in DOMAIN uploads : uploads'[q].pc = "write" => q # r
      BY <2>3, <2>5
    <2>10. Owners'
      <3>1. \A x, n : Owned(uploads, x, n) => Owned(uploads', x, n)
        BY <2>5, OwnedKept
      <3>2. \A n \in Names : target'[n] # None => Owned(uploads', target'[n], n)
        BY <2>6, <3>1 DEF FileInv, Owners
      <3> QED BY <1>4, <2>5, <2>9, <3>1, <3>2 DEF FileInv, Owners, At, Part
    <2>11. Fresh'
      <3>1. ASSUME NEW q \in DOMAIN uploads, NEW i \in DOMAIN uploads[q].parts, NEW n \in Names,
                   Unopened(uploads'[q], i)
            PROVE  /\ target'[n] # uploads[q].parts[i].version
                   /\ partial[n] # uploads[q].parts[i].version
        <4>1. uploads[q].parts[i].version # None /\ i \in Nat
          BY PartsTyped, LibraryAssumption DEF FileInv, LibraryType
        <4>2. Unopened(uploads[q], i)
          BY <1>1, <1>3, <2>3, <2>5, <3>1, <4>1 DEF Unopened
        <4> QED BY <2>6, <4>1, <4>2 DEF FileInv, Fresh
      <3> QED BY <1>4, <2>5, <3>1 DEF Fresh
    <2>12. \A q \in DOMAIN uploads, n \in Names : Writer(uploads'[q], n) <=> Writer(uploads[q], n)
      BY <1>1, <2>3, <2>5 DEF Writer
    <2>13. SoleWriter' /\ Apart' /\ PartialIsWritten'
      BY <1>4, <2>5, <2>6, <2>7, <2>12 DEF FileInv, SoleWriter, Apart, PartialIsWritten
    <2>14. Progress'
      BY <1>4, <2>5, <2>7, <2>9 DEF FileInv, Progress, At, Part
    <2>15. StoredWhole'
      <3>1. \A q \in DOMAIN uploads, i \in Nat, n \in Names \ {m} :
              StoredAs(uploads[q], i, n) => StoredAs(uploads'[q], i, n)
        BY <2>1, <2>3, <2>5 DEF StoredAs
      <3> QED BY <1>4, <2>5, <2>6, <2>7, <3>1 DEF FileInv, StoredWhole
    <2> QED BY <2>5, <2>8, <2>10, <2>11, <2>13, <2>14, <2>15 DEF FileInv
  <1> QED BY <1>6

\* A kill ends every upload under way and leaves the disk.
LEMMA KillFile ==
  ASSUME FileInv, Kill
  PROVE  FileInv'
  <1>1. /\ UNCHANGED <<target, partial, content>> /\ history' = [history EXCEPT !.killed = TRUE]
        /\ uploads' = [r \in DOMAIN uploads |->
             IF uploads[r].pc \in {"sent", "replied"} THEN uploads[r]
             ELSE [uploads[r] EXCEPT !.pc = "replied", !.reply = "lost"]]
    BY DEF Kill, At
  <1>2. DOMAIN uploads' = DOMAIN uploads /\ UNCHANGED <<target, partial, content>>
    BY <1>1
  <1>3. ASSUME NEW r \in DOMAIN uploads
        PROVE  /\ uploads'[r] \in UploadRecord /\ uploads'[r].parts = uploads[r].parts
               /\ uploads'[r].results = uploads[r].results /\ uploads'[r].at = uploads[r].at
               /\ uploads'[r].pc \in {"sent", "replied"} /\ InOrder(uploads'[r])
               /\ uploads'[r].pc = "sent" => uploads[r].pc = "sent"
    <2>1. uploads[r] \in UploadRecord /\ InOrder(uploads[r])
      BY DEF FileInv, LibraryType, UploadsInOrder
    <2>2. CASE uploads[r].pc \in {"sent", "replied"}
      BY <1>1, <2>1, <2>2
    <2>3. CASE uploads[r].pc \notin {"sent", "replied"}
      <3> DEFINE u == [uploads[r] EXCEPT !.pc = "replied", !.reply = "lost"]
      <3>1. /\ u \in UploadRecord /\ u.parts = uploads[r].parts /\ u.at = uploads[r].at
            /\ u.results = uploads[r].results /\ u.pc = "replied" /\ u.reply = "lost"
        BY <2>1 DEF UploadRecord
      <3>2. uploads'[r] = u
        BY <1>1, <2>3
      <3> HIDE DEF u
      <3> QED BY <3>1, <3>2 DEF InOrder
    <2> QED BY <2>2, <2>3
  <1>4. /\ history' \in [overlapped : SUBSET Names, drifted : BOOLEAN, killed : BOOLEAN]
        /\ history'.overlapped = history.overlapped /\ history'.killed
    <2>1. history \in [overlapped : SUBSET Names, drifted : BOOLEAN, killed : BOOLEAN]
      BY DEF FileInv, LibraryType
    <2> QED BY <1>1, <2>1
  <1>5. LibraryType'
    <2>1. uploads' \in [DOMAIN uploads' -> UploadRecord]
      BY <1>1, <1>2, <1>3
    <2> QED BY <1>1, <1>4, <2>1 DEF FileInv, LibraryType
  <1>6. SentOnce' /\ UploadsInOrder'
    BY <1>2, <1>3 DEF FileInv, SentOnce, UploadsInOrder
  <1>7. Owners'
    <2>1. \A x, n : Owned(uploads, x, n) => Owned(uploads', x, n)
      BY <1>2, <1>3, OwnedKept
    <2>2. \A r \in DOMAIN uploads : uploads'[r].pc # "write"
      BY <1>3
    <2> QED BY <1>1, <1>2, <2>1, <2>2 DEF FileInv, Owners, At
  <1>8. Fresh'
    <2>1. ASSUME NEW r \in DOMAIN uploads, NEW i \in DOMAIN uploads[r].parts,
                 Unopened(uploads'[r], i)
          PROVE  Unopened(uploads[r], i)
      BY <1>3, <2>1 DEF Unopened
    <2>2. \A r \in DOMAIN uploads : uploads'[r].parts = uploads[r].parts
      BY <1>3
    <2> QED BY <1>2, <2>1, <2>2 DEF FileInv, Fresh
  <1>9. SoleWriter' /\ Apart' /\ PartialIsWritten' /\ Progress'
    <2>1. \A r \in DOMAIN uploads : uploads'[r].pc \notin {"write", "cleanup"}
      BY <1>3
    <2>2. SoleWriter' /\ Progress'
      BY <1>2, <2>1 DEF SoleWriter, Progress, Writer, At
    <2>3. Apart' /\ PartialIsWritten'
      BY <1>1, <1>4 DEF FileInv, Apart, PartialIsWritten
    <2> QED BY <2>2, <2>3
  <1>10. StoredWhole'
    <2>1. \A r \in DOMAIN uploads : /\ uploads'[r].parts = uploads[r].parts
                                    /\ uploads'[r].results = uploads[r].results
      BY <1>3
    <2>2. \A r \in DOMAIN uploads, i \in Nat, n \in Names :
            StoredAs(uploads[r], i, n) => StoredAs(uploads'[r], i, n)
      BY <2>1 DEF StoredAs
    <2> QED BY <1>2, <1>4, <2>1, <2>2 DEF FileInv, StoredWhole
  <1> QED BY <1>5, <1>6, <1>7, <1>8, <1>9, <1>10 DEF FileInv

\* Readers and deletions write nothing; a deletion unlinks.
LEMMA ReadFile ==
  ASSUME FileInv, UNCHANGED <<target, partial, content, uploads, history>>
  PROVE  FileInv'
  <1>1. LibraryType' /\ SentOnce' /\ UploadsInOrder'
    BY DEF FileInv, LibraryType, SentOnce, UploadsInOrder
  <1>2. Owners' /\ Fresh'
    BY DEF FileInv, Owners, Fresh, At, Part
  <1>3. SoleWriter' /\ Apart' /\ Progress'
    BY DEF FileInv, SoleWriter, Apart, Progress, At, Part
  <1>4. StoredWhole' /\ PartialIsWritten'
    BY DEF FileInv, StoredWhole, PartialIsWritten
  <1> QED BY <1>1, <1>2, <1>3, <1>4 DEF FileInv

\* Unlinking leaves nothing at the path, and the inode to whoever has it open.
LEMMA UnlinkFile ==
  ASSUME FileInv, NEW m, UNCHANGED <<partial, content, uploads>>, Replace(m, None)
  PROVE  FileInv'
  <1>1. /\ \A n \in Names : target'[n] \in {target[n], None}
        /\ target' \in [Names -> Versions \cup {None}]
    BY DEF Replace, FileInv, LibraryType
  <1>2. /\ history' \in [overlapped : SUBSET Names, drifted : BOOLEAN, killed : BOOLEAN]
        /\ history'.overlapped = history.overlapped /\ history'.killed = history.killed
    BY ReplaceHistory DEF FileInv
  <1>3. LibraryType' /\ SentOnce' /\ UploadsInOrder'
    BY <1>1, <1>2 DEF FileInv, LibraryType, SentOnce, UploadsInOrder
  <1>4. Owners'
    BY <1>1 DEF FileInv, Owners, At, Part
  <1>5. Fresh'
    <2>1. \A r \in DOMAIN uploads : \A i \in DOMAIN uploads[r].parts :
            uploads[r].parts[i].version # None
      BY PartsTyped, LibraryAssumption DEF FileInv, LibraryType
    <2> QED BY <1>1, <2>1 DEF FileInv, Fresh
  <1>6. SoleWriter' /\ Apart' /\ Progress'
    BY <1>1, <1>2 DEF FileInv, SoleWriter, Apart, Progress, At, Part
  <1>7. StoredWhole' /\ PartialIsWritten'
    BY <1>1, <1>2 DEF FileInv, StoredWhole, PartialIsWritten
  <1> QED BY <1>3, <1>4, <1>5, <1>6, <1>7 DEF FileInv

\* Every step keeps what is known of the files.
LEMMA NextFile ==
  ASSUME FileInv, [Next]_vars
  PROVE  FileInv'
  <1>1. ASSUME NEW r \in DOMAIN uploads, Upload(r)
        PROVE  FileInv'
    BY <1>1, ReceiveFile, RejectFile, OpenFile, WriteFile, StopFile, MoveFile, CleanupFile,
       SniffFile, RemoveUnreadFile, ReplyFile DEF Upload
  <1>2. ASSUME NEW n \in Names, HashFile(n)
        PROVE  FileInv'
    BY <1>2, ReadFile DEF HashFile
  <1>3. CASE ParseFile \/ ListRows \/ DeleteRows
    BY <1>3, ReadFile DEF ParseFile, ListRows, DeleteRows
  <1>4. ASSUME NEW p \in DOMAIN previews, Preview(p)
        PROVE  FileInv'
    <2>1. UNCHANGED <<target, partial, content, uploads, history>>
      BY <1>4 DEF Preview, FindRow, CheckFile, LookUp, Lock, Convert, ConvertFails, Render
    <2> QED BY <2>1, ReadFile
  <1>5. CASE RemoveFile
    <2>1. PICK row \in deletion.listed :
            IF target[row.name] = None THEN UNCHANGED <<target, history>>
            ELSE Replace(row.name, None)
      BY <1>5 DEF RemoveFile
    <2>2. UNCHANGED <<partial, content, uploads>>
      BY <1>5 DEF RemoveFile
    <2> QED BY <2>1, <2>2, ReadFile, UnlinkFile
  <1>6. CASE UNCHANGED vars
    BY <1>6, ReadFile DEF vars
  <1> QED BY <1>1, <1>2, <1>3, <1>4, <1>5, <1>6, KillFile DEF Next

\* As long as uploads of a name do not overlap, its path only ever holds one
\* upload's file, whole - whatever caps, failing disks and kills cut short,
\* and whatever partial files they leave behind (_store_upload).
THEOREM OnlyWholeFiles == Spec => []FilesAreWhole
  <1>1. FileInv => FilesAreWhole
    <2> SUFFICES ASSUME FileInv, NEW n \in Names \ history.overlapped, target[n] # None
                 PROVE  \E v \in Versions : content[target[n]] = Whole(v)
      BY DEF FilesAreWhole
    <2>1. PICK r \in DOMAIN uploads, i \in Nat :
            StoredAs(uploads[r], i, n) /\ content[target[n]] = Whole(uploads[r].parts[i].version)
      BY DEF FileInv, StoredWhole
    <2>2. uploads[r].parts[i].version \in Versions
      BY <2>1, PartsTyped DEF StoredAs, FileInv, LibraryType
    <2> QED BY <2>1, <2>2
  <1>2. FileInv /\ [Next]_vars => FileInv'
    BY NextFile
  <1> QED BY <1>1, <1>2, InitFile, PTL DEF Spec

\* A partial file is being written or was cut off by a kill; and no slice of
\* a batch answered with an error is under any name without overlaps: what
\* is there is of an upload that stored it (_store_upload, _upload_status).
THEOREM RefusedIsGone == Spec => []RefusedLeavesNothing
  <1>1. FileInv => RefusedLeavesNothing
    <2> SUFFICES ASSUME FileInv
                 PROVE  RefusedLeavesNothing
      OBVIOUS
    <2>1. \A n \in Names : partial[n] # None =>
            history.killed \/ \E r \in DOMAIN uploads : Writing(r) /\ Part(r).name = n
      BY DEF FileInv, PartialIsWritten, Writer, Writing, Part
    <2>2. ASSUME NEW r \in DOMAIN uploads, NEW n \in Names \ history.overlapped,
                 uploads[r].reply \in {"refused", "not_writable"}, target[n] # None,
                 NEW i \in DOMAIN uploads[r].parts, uploads[r].parts[i].version \in Slices(target[n])
          PROVE  FALSE
      <3>1. PICK q \in DOMAIN uploads, j \in Nat :
              StoredAs(uploads[q], j, n) /\ content[target[n]] = Whole(uploads[q].parts[j].version)
        BY <2>2 DEF FileInv, StoredWhole
      <3>2. \A k \in DOMAIN content[target[n]] :
              content[target[n]][k] = uploads[q].parts[j].version
        BY <3>1 DEF Whole
      <3>3. uploads[r].parts[i].version = uploads[q].parts[j].version
        BY <2>2, <3>2 DEF Slices
      <3>4. r = q
        BY <3>1, <3>3 DEF FileInv, SentOnce, StoredAs
      <3> QED BY <2>2, <3>1, <3>4 DEF StoredAs, FileInv, UploadsInOrder, InOrder
    <2> QED BY <2>1, <2>2 DEF RefusedLeavesNothing
  <1>2. FileInv /\ [Next]_vars => FileInv'
    BY NextFile
  <1> QED BY <1>1, <1>2, InitFile, PTL DEF Spec

-----------------------------------------------------------------------------
(* The readers.                                                             *)

Current(n, hash) == target[n] # None /\ content[target[n]] = hash

Looking == {"check", "cache", "lock", "convert", "render"}
Checked == {"cache", "lock", "convert", "render"}

\* A reader between two reads of a file still finds what its first one found,
\* unless the history says otherwise.
ReadInv ==
  /\ \A row \in rows \cup cache : row.name \in Names
  /\ run.pc = "parse" => run.name \in Names
  /\ \A p \in DOMAIN previews : previews[p].pc \in Looking =>
       /\ previews[p] = [pc |-> previews[p].pc, row |-> previews[p].row]
       /\ previews[p].row.name \in Names
  /\ ~history.drifted =>
       /\ run.pc = "parse" /\ run.name \notin history.overlapped => Current(run.name, run.hash)
       /\ \A p \in DOMAIN previews :
            previews[p].pc \in Checked /\ previews[p].row.name \notin history.overlapped =>
              Current(previews[p].row.name, previews[p].row.hash)
  /\ ShownIsIngested

\* Nothing is indexed, cached or looked at.
LEMMA InitRead == Init => ReadInv
  <1> SUFFICES ASSUME Init PROVE ReadInv
    OBVIOUS
  <1>1. rows = {} /\ cache = {} /\ run.pc = "idle" /\ \A p \in DOMAIN previews : previews[p].pc = "sent"
    BY DEF Init
  <1> QED BY <1>1 DEF ReadInv, ShownIsIngested, Looking, Checked

\* The file at a path nobody overlapped on is as it was, or was replaced.
Undisturbed(n) ==
  target'[n] = target[n] /\ (target[n] # None => content'[target[n]] = content[target[n]])

\* An upload changes the file at a name under nobody's reading, or the history says so.
LEMMA UploadDisturbs ==
  ASSUME FileInv, NEW r \in DOMAIN uploads, Upload(r)
  PROVE  /\ UNCHANGED <<rows, run, previews, cache>>
         /\ history.overlapped \subseteq history'.overlapped
         /\ history.drifted => history'.drifted
         /\ \A n \in Names \ history'.overlapped :
              Undisturbed(n) \/ history'.drifted \/ ~Reading(n)
  <1>1. UNCHANGED <<rows, run, previews, cache>>
    BY DEF Upload, Receive, RejectPart, OpenPartial, WriteSlice, TooLarge, WriteFails, Move,
           Cleanup, Sniff, RemoveUnread, Reply
  <1>2. CASE UNCHANGED <<target, content, history>>
    BY <1>1, <1>2 DEF Undisturbed
  <1>3. ASSUME NEW m, NEW inode, UNCHANGED content, Replace(m, inode)
        PROVE  /\ history.overlapped \subseteq history'.overlapped
               /\ history.drifted => history'.drifted
               /\ \A n \in Names : Undisturbed(n) \/ history'.drifted \/ ~Reading(n)
    <2>1. /\ history'.overlapped = history.overlapped
          /\ history'.drifted = (history.drifted \/ Reading(m))
      BY <1>3, ReplaceHistory DEF FileInv
    <2>2. \A n \in Names \ {m} : target'[n] = target[n]
      BY <1>3 DEF Replace, FileInv, LibraryType
    <2>3. \A n \in Names : n = m \/ Undisturbed(n)
      BY <1>3, <2>2 DEF Undisturbed
    <2>4. Reading(m) => history'.drifted
      BY <2>1
    <2>5. \A n \in Names : Undisturbed(n) \/ history'.drifted \/ ~Reading(n)
      <3>1. ASSUME NEW n \in Names
            PROVE  Undisturbed(n) \/ history'.drifted \/ ~Reading(n)
        <4>1. CASE n = m
          BY <2>4, <4>1
        <4>2. CASE n # m
          BY <2>3, <4>2
        <4> QED BY <4>1, <4>2
      <3> QED BY <3>1
    <2> QED BY <2>1, <2>5
  <1>4. CASE Move(r)
    <2>1. UNCHANGED content /\ (UNCHANGED <<target, history>>
                                \/ \E m, inode : Replace(m, inode))
      BY <1>4 DEF Move
    <2> QED BY <1>1, <1>2, <1>3, <2>1
  <1>5. CASE RemoveUnread(r)
    <2>1. UNCHANGED content /\ \E m, inode : Replace(m, inode)
      BY <1>5 DEF RemoveUnread
    <2> QED BY <1>1, <1>2, <1>3, <2>1
  <1>6. CASE WriteSlice(r)
    <2>1. UNCHANGED <<target, history>>
      BY <1>6 DEF WriteSlice
    <2>2. \A n \in Names \ history.overlapped :
            target[n] # None => content'[target[n]] = content[target[n]]
      BY <1>6, WriteFile
    <2> QED BY <1>1, <2>1, <2>2 DEF Undisturbed
  <1>7. CASE OpenPartial(r)
    <2>1. UNCHANGED target
      BY <1>7 DEF OpenPartial
    <2>2. \A n \in Names \ history'.overlapped :
            target[n] # None => content'[target[n]] = content[target[n]]
      BY <1>7, OpenFile
    <2>3. history.overlapped \subseteq history'.overlapped /\ history'.drifted = history.drifted
      BY <1>7 DEF OpenPartial, FileInv, LibraryType
    <2> QED BY <1>1, <2>1, <2>2, <2>3 DEF Undisturbed
  <1>8. CASE Receive(r) \/ RejectPart(r) \/ TooLarge(r) \/ WriteFails(r) \/ Cleanup(r) \/ Sniff(r)
             \/ Reply(r)
    <2>1. UNCHANGED <<target, content, history>>
      BY <1>8 DEF Receive, RejectPart, TooLarge, WriteFails, Cleanup, Sniff, Reply
    <2> QED BY <1>2, <2>1
  <1> QED BY <1>4, <1>5, <1>6, <1>7, <1>8 DEF Upload

\* A step of the files under the readers.
LEMMA ReadUndisturbed ==
  ASSUME ReadInv, UNCHANGED <<rows, run, previews, cache>>,
         history.overlapped \subseteq history'.overlapped,
         history.drifted => history'.drifted,
         \A n \in Names \ history'.overlapped : Undisturbed(n) \/ history'.drifted \/ ~Reading(n)
  PROVE  ReadInv'
  <1>1. ASSUME NEW n \in Names \ history'.overlapped, NEW hash, ~history'.drifted,
               Reading(n), Current(n, hash)
        PROVE  target'[n] # None /\ content'[target'[n]] = hash
    <2>1. Undisturbed(n)
      BY <1>1
    <2> QED BY <1>1, <2>1 DEF Undisturbed, Current
  <1>2. ~history'.drifted =>
          (run.pc = "parse" /\ run.name \notin history'.overlapped =>
             target'[run.name] # None /\ content'[target'[run.name]] = run.hash)
    <2>1. SUFFICES ASSUME ~history'.drifted, run.pc = "parse", run.name \notin history'.overlapped
                   PROVE  target'[run.name] # None /\ content'[target'[run.name]] = run.hash
      OBVIOUS
    <2>2. run.name \in Names /\ Current(run.name, run.hash)
      BY <2>1 DEF ReadInv
    <2>3. Reading(run.name)
      BY <2>1 DEF Reading
    <2> QED BY <1>1, <2>1, <2>2, <2>3
  <1>3. ASSUME NEW p \in DOMAIN previews, ~history'.drifted, previews[p].pc \in Checked,
               previews[p].row.name \notin history'.overlapped
        PROVE  /\ target'[previews[p].row.name] # None
               /\ content'[target'[previews[p].row.name]] = previews[p].row.hash
    <2>1. previews[p].row.name \in Names /\ Current(previews[p].row.name, previews[p].row.hash)
      BY <1>3 DEF ReadInv, Looking, Checked
    <2>2. Reading(previews[p].row.name)
      BY <1>3 DEF Reading, Checked
    <2> QED BY <1>1, <1>3, <2>1, <2>2
  <1>4. ShownIsIngested'
    BY DEF ReadInv, ShownIsIngested
  <1> QED BY <1>2, <1>3, <1>4 DEF ReadInv, Current
\* One preview moves on, and perhaps its conversion lands in the cache.
LEMMA PreviewStep ==
  ASSUME ReadInv, NEW p \in DOMAIN previews, NEW state, Go(p, state),
         UNCHANGED <<target, content, rows, run, history>>,
         \A pdf \in cache' : pdf.name \in Names,
         state.pc \in Looking =>
           state = [pc |-> state.pc, row |-> state.row] /\ state.row.name \in Names,
         ~history.drifted =>
           /\ state.pc \in Checked /\ state.row.name \notin history.overlapped =>
                Current(state.row.name, state.row.hash)
           /\ \A pdf \in cache' : pdf.name \notin history.overlapped => pdf.text = pdf.hash
           /\ state.pc = "shown" /\ state.row.name \notin history.overlapped =>
                state.text = state.row.hash
  PROVE  ReadInv'
  <1>1. /\ DOMAIN previews' = DOMAIN previews /\ previews'[p] = state
        /\ \A q \in DOMAIN previews \ {p} : previews'[q] = previews[q]
    BY DEF Go
  <1>2. \A row \in rows' \cup cache' : row.name \in Names
    BY DEF ReadInv
  <1>3. \A q \in DOMAIN previews : previews'[q].pc \in Looking =>
          /\ previews'[q] = [pc |-> previews'[q].pc, row |-> previews'[q].row]
          /\ previews'[q].row.name \in Names
    <2>1. ASSUME NEW q \in DOMAIN previews, previews'[q].pc \in Looking
          PROVE  /\ previews'[q] = [pc |-> previews'[q].pc, row |-> previews'[q].row]
                 /\ previews'[q].row.name \in Names
      <3>1. CASE q = p
        BY <1>1, <2>1, <3>1
      <3>2. CASE q # p
        BY <1>1, <2>1, <3>2 DEF ReadInv
      <3> QED BY <3>1, <3>2
    <2> QED BY <2>1
  <1>4. ASSUME ~history.drifted, NEW q \in DOMAIN previews, previews'[q].pc \in Checked,
               previews'[q].row.name \notin history.overlapped
        PROVE  Current(previews'[q].row.name, previews'[q].row.hash)
    <2>1. CASE q = p
      BY <1>1, <1>4, <2>1
    <2>2. CASE q # p
      BY <1>1, <1>4, <2>2 DEF ReadInv
    <2> QED BY <2>1, <2>2
  <1>5. ASSUME ~history.drifted, NEW q \in DOMAIN previews, previews'[q].pc = "shown",
               previews'[q].row.name \notin history.overlapped
        PROVE  previews'[q].text = previews'[q].row.hash
    <2>1. CASE q = p
      BY <1>1, <1>5, <2>1
    <2>2. CASE q # p
      BY <1>1, <1>5, <2>2 DEF ReadInv, ShownIsIngested
    <2> QED BY <2>1, <2>2
  <1>6. ShownIsIngested'
    <2>1. ~history.drifted =>
            \A row \in rows' \cup cache' : row.name \notin history.overlapped => row.text = row.hash
      BY DEF ReadInv, ShownIsIngested
    <2> QED BY <1>1, <1>5, <2>1 DEF ShownIsIngested
  <1>7. (run.pc = "parse" => run.name \in Names)
        /\ (~history.drifted =>
             (run.pc = "parse" /\ run.name \notin history.overlapped => Current(run.name, run.hash)))
    BY DEF ReadInv
  <1> QED BY <1>1, <1>2, <1>3, <1>4, <1>6, <1>7 DEF ReadInv, Current

\* Where a preview is while it looks at a file.
LEMMA AtFile ==
  ASSUME ReadInv, NEW p \in DOMAIN previews, previews[p].pc \in Looking, NEW pc
  PROVE  LET state == [previews[p] EXCEPT !.pc = pc] IN
           /\ state = [pc |-> pc, row |-> previews[p].row]
           /\ previews[p].row.name \in Names
  BY DEF ReadInv

\* A preview that ends without pages.
LEMMA Degraded ==
  ASSUME ReadInv, NEW p \in DOMAIN previews, Degrade(p),
         UNCHANGED <<target, content, rows, run, cache, history>>
  PROVE  ReadInv'
  <1> DEFINE state == [pc |-> "replied"]
  <1>1. state.pc = "replied" /\ Go(p, state)
    BY DEF Degrade
  <1>2. /\ \A pdf \in cache' : pdf.name \in Names
        /\ ~history.drifted =>
             \A pdf \in cache' : pdf.name \notin history.overlapped => pdf.text = pdf.hash
    BY DEF ReadInv, ShownIsIngested
  <1> HIDE DEF state
  <1> QED BY <1>1, <1>2, PreviewStep DEF Looking, Checked

\* A preview that found its file as it was indexed moves on with it.
LEMMA OnWithFile ==
  ASSUME ReadInv, NEW p \in DOMAIN previews, previews[p].pc \in Looking,
         NEW pc \in Checked, Go(p, [previews[p] EXCEPT !.pc = pc]),
         UNCHANGED <<target, content, rows, run, history>>,
         previews[p].pc \in Checked \/ Current(previews[p].row.name, previews[p].row.hash),
         \A pdf \in cache' : pdf.name \in Names,
         ~history.drifted =>
           \A pdf \in cache' : pdf.name \notin history.overlapped => pdf.text = pdf.hash
  PROVE  ReadInv'
  <1> DEFINE state == [previews[p] EXCEPT !.pc = pc]
  <1>1. /\ state = [pc |-> pc, row |-> previews[p].row]
        /\ previews[p].row.name \in Names
    BY AtFile
  <1>2. Go(p, state) /\ state.pc = pc /\ state.row = previews[p].row
    BY <1>1
  <1>3. ~history.drifted /\ previews[p].row.name \notin history.overlapped =>
          Current(previews[p].row.name, previews[p].row.hash)
    BY DEF ReadInv
  <1>4. state.pc # "shown"
    BY <1>2 DEF Checked
  <1> HIDE DEF state
  <1> QED BY <1>1, <1>2, <1>3, <1>4, PreviewStep

\* A preview found its row.
LEMMA FindRead ==
  ASSUME ReadInv, NEW p \in DOMAIN previews, FindRow(p)
  PROVE  ReadInv'
  <1>1. PICK row \in rows : Go(p, [pc |-> "check", row |-> row])
    BY DEF FindRow
  <1> DEFINE state == [pc |-> "check", row |-> row]
  <1>2. /\ Go(p, state) /\ state.pc = "check" /\ state.row = row
        /\ state = [pc |-> state.pc, row |-> state.row]
    BY <1>1
  <1>3. UNCHANGED <<target, content, rows, run, history>>
    BY DEF FindRow
  <1>4. /\ row.name \in Names /\ \A pdf \in cache' : pdf.name \in Names
        /\ ~history.drifted =>
             \A pdf \in cache' : pdf.name \notin history.overlapped => pdf.text = pdf.hash
    BY DEF FindRow, ReadInv, ShownIsIngested
  <1> HIDE DEF state
  <1> QED BY <1>2, <1>3, <1>4, PreviewStep DEF Checked

\* The cache as it is.
LEMMA CacheKept ==
  ASSUME ReadInv, UNCHANGED <<cache, history>>
  PROVE  /\ \A pdf \in cache' : pdf.name \in Names
         /\ ~history.drifted =>
              \A pdf \in cache' : pdf.name \notin history.overlapped => pdf.text = pdf.hash
  BY DEF ReadInv, ShownIsIngested

\* From here on the file was what is indexed.
LEMMA CheckRead ==
  ASSUME ReadInv, NEW p \in DOMAIN previews, CheckFile(p)
  PROVE  ReadInv'
  <1>1. previews[p].pc \in Looking /\ UNCHANGED <<target, content, rows, run, cache, history>>
    BY DEF CheckFile, Looking
  <1>2. CASE Degrade(p)
    BY <1>1, <1>2, Degraded
  <1>3. CASE ~Degrade(p)
    <2>1. PICK pc \in Checked : Go(p, [previews[p] EXCEPT !.pc = pc])
      BY <1>3 DEF CheckFile, Checked
    <2>2. Current(previews[p].row.name, previews[p].row.hash)
      BY <1>3 DEF CheckFile, Current
    <2> QED BY <1>1, <2>1, <2>2, OnWithFile, CacheKept
  <1> QED BY <1>2, <1>3

\* The cache is consulted; no file is read.
LEMMA LookRead ==
  ASSUME ReadInv, NEW p \in DOMAIN previews, LookUp(p) \/ Lock(p)
  PROVE  ReadInv'
  <1>1. /\ previews[p].pc \in Looking /\ previews[p].pc \in Checked
        /\ UNCHANGED <<target, content, rows, run, cache, history>>
    BY DEF LookUp, Lock, Looking, Checked
  <1>2. PICK pc \in Checked : Go(p, [previews[p] EXCEPT !.pc = pc])
    BY DEF LookUp, Lock, Checked
  <1> QED BY <1>1, <1>2, OnWithFile, CacheKept

\* What is converted is what was checked.
LEMMA ConvertRead ==
  ASSUME ReadInv, NEW p \in DOMAIN previews, Convert(p)
  PROVE  ReadInv'
  <1> DEFINE row == previews[p].row
             pdf == [name |-> row.name, hash |-> row.hash, text |-> content[target[row.name]]]
  <1>1. /\ previews[p].pc \in Looking /\ previews[p].pc \in Checked
        /\ UNCHANGED <<target, content, rows, run, history>>
    BY DEF Convert, Looking, Checked
  <1>2. CASE target[row.name] = None
    BY <1>1, <1>2, Degraded DEF Convert
  <1>3. CASE target[row.name] # None
    <2>1. /\ cache' = {c \in cache : Doc(c) # Doc(row)} \cup {pdf}
          /\ Go(p, [previews[p] EXCEPT !.pc = "render"])
      BY <1>3 DEF Convert
    <2>2. row.name \in Names
      BY <1>1 DEF ReadInv
    <2>3. \A c \in cache' : c.name \in Names
      BY <2>1, <2>2 DEF ReadInv
    <2>4. ASSUME ~history.drifted, NEW c \in cache', c.name \notin history.overlapped
          PROVE  c.text = c.hash
      <3>1. CASE c \in cache
        BY <2>4, <3>1 DEF ReadInv, ShownIsIngested
      <3>2. CASE c = pdf
        <4>1. Current(row.name, row.hash)
          BY <1>1, <2>4, <3>2 DEF ReadInv
        <4> QED BY <3>2, <4>1 DEF Current
      <3> QED BY <2>1, <3>1, <3>2
    <2>5. "render" \in Checked
      BY DEF Checked
    <2> HIDE DEF row, pdf
    <2> QED BY <1>1, <2>1, <2>3, <2>4, <2>5, OnWithFile
  <1> QED BY <1>2, <1>3

\* What is shown is the converted deck of its row, or the file as checked.
LEMMA RenderRead ==
  ASSUME ReadInv, NEW p \in DOMAIN previews, Render(p)
  PROVE  ReadInv'
  <1> DEFINE row == previews[p].row
             n == row.name
             pdfs == IF n \in DeckNames THEN {pdf.text : pdf \in {c \in cache : Doc(c) = Doc(row)}}
                     ELSE IF target[n] = None THEN {} ELSE {content[target[n]]}
  <1>1. /\ previews[p].pc \in Looking /\ previews[p].pc \in Checked
        /\ UNCHANGED <<target, content, rows, run, cache, history>>
    BY DEF Render, Looking, Checked
  <1>2. CASE pdfs = {}
    BY <1>1, <1>2, Degraded DEF Render
  <1>3. CASE pdfs # {}
    <2>1. PICK text \in pdfs : Go(p, [pc |-> "shown", row |-> row, text |-> text])
      BY <1>3 DEF Render
    <2>2. ~history.drifted /\ n \notin history.overlapped => text = row.hash
      <3>1. SUFFICES ASSUME ~history.drifted, n \notin history.overlapped
                     PROVE  text = row.hash
        OBVIOUS
      <3>2. CASE n \in DeckNames
        <4>1. PICK c \in cache : Doc(c) = Doc(row) /\ text = c.text
          BY <2>1, <3>2
        <4>2. c.name = n /\ c.hash = row.hash
          BY <4>1 DEF Doc
        <4> QED BY <3>1, <4>1, <4>2 DEF ReadInv, ShownIsIngested
      <3>3. CASE n \notin DeckNames
        <4>1. text = content[target[n]]
          BY <2>1, <3>3
        <4>2. Current(n, row.hash)
          BY <1>1, <3>1 DEF ReadInv
        <4> QED BY <4>1, <4>2 DEF Current
      <3> QED BY <3>2, <3>3
    <2> DEFINE state == [pc |-> "shown", row |-> row, text |-> text]
    <2>3. Go(p, state) /\ state.pc = "shown" /\ state.row = row /\ state.text = text
      BY <2>1
    <2>4. "shown" \notin Looking /\ "shown" \notin Checked
      BY DEF Looking, Checked
    <2> HIDE DEF state, row, n, pdfs
    <2> QED BY <1>1, <2>2, <2>3, <2>4, PreviewStep, CacheKept DEF n
  <1> QED BY <1>2, <1>3

\* The ingest run, the deletion and the kill leave the files alone.
LEMMA HashRead ==
  ASSUME ReadInv, NEW n \in Names, HashFile(n)
  PROVE  ReadInv'
  <1>1. /\ run' = [pc |-> "parse", name |-> n, hash |-> content[target[n]]] /\ target[n] # None
        /\ UNCHANGED <<target, content, rows, previews, cache, history>>
    BY DEF HashFile
  <1>2. run'.name = n /\ run'.hash = content[target[n]]
    BY <1>1
  <1> QED BY <1>1, <1>2 DEF ReadInv, ShownIsIngested, Current

\* What is indexed is what was hashed.
LEMMA ParseRead ==
  ASSUME ReadInv, ParseFile
  PROVE  ReadInv'
  <1> DEFINE n == run.name
             row == [name |-> n, hash |-> run.hash, text |-> content[target[n]]]
  <1>1. /\ run.pc = "parse" /\ run'.pc = "idle" /\ n \in Names
        /\ UNCHANGED <<target, content, previews, cache, history>>
    BY DEF ParseFile, ReadInv
  <1>2. ASSUME NEW other \in rows', other \notin rows
        PROVE  other = row
    BY <1>2 DEF ParseFile
  <1>3. \A other \in rows' : other.name \in Names
    BY <1>1, <1>2 DEF ReadInv
  <1>4. ASSUME ~history.drifted, NEW other \in rows', other.name \notin history.overlapped
        PROVE  other.text = other.hash
    <2>1. CASE other \in rows
      BY <1>4, <2>1 DEF ReadInv, ShownIsIngested
    <2>2. CASE other = row
      <3>1. Current(n, run.hash)
        BY <1>1, <1>4, <2>2 DEF ReadInv
      <3> QED BY <2>2, <3>1 DEF Current
    <2> QED BY <1>2, <2>1, <2>2
  <1> QED BY <1>1, <1>3, <1>4 DEF ReadInv, ShownIsIngested, Current

\* Rows go, or nothing changes.
LEMMA DeleteRead ==
  ASSUME ReadInv, rows' \subseteq rows, UNCHANGED <<target, content, run, previews, cache, history>>
  PROVE  ReadInv'
  BY DEF ReadInv, ShownIsIngested, Current

\* A deletion under a reader is in the history.
LEMMA UnlinkRead ==
  ASSUME FileInv, ReadInv, RemoveFile
  PROVE  ReadInv'
  <1>1. UNCHANGED <<content, rows, run, previews, cache>>
    BY DEF RemoveFile
  <1>2. PICK row \in deletion.listed :
          IF target[row.name] = None THEN UNCHANGED <<target, history>>
          ELSE Replace(row.name, None)
    BY DEF RemoveFile
  <1>3. CASE UNCHANGED <<target, history>>
    BY <1>1, <1>3, DeleteRead
  <1>4. CASE Replace(row.name, None)
    <2>1. /\ history'.overlapped = history.overlapped
          /\ history'.drifted = (history.drifted \/ Reading(row.name))
      BY <1>4, ReplaceHistory DEF FileInv
    <2>2. \A n \in Names \ {row.name} : target'[n] = target[n]
      BY <1>4 DEF Replace, FileInv, LibraryType
    <2>3. \A n \in Names : n = row.name \/ Undisturbed(n)
      BY <1>1, <2>2 DEF Undisturbed
    <2>4. \A n \in Names : Undisturbed(n) \/ history'.drifted \/ ~Reading(n)
      BY <2>1, <2>3
    <2> QED BY <1>1, <2>1, <2>4, ReadUndisturbed
  <1> QED BY <1>2, <1>3, <1>4

\* After a kill nobody is between two reads.
LEMMA KillRead ==
  ASSUME FileInv, ReadInv, Kill
  PROVE  ReadInv'
  <1>1. /\ UNCHANGED <<target, content, rows, cache>> /\ run'.pc = "idle"
        /\ history' = [history EXCEPT !.killed = TRUE]
        /\ previews' = [p \in DOMAIN previews |->
             IF previews[p].pc \in {"sent", "shown"} THEN previews[p] ELSE [pc |-> "replied"]]
    BY DEF Kill
  <1>2. history'.drifted = history.drifted /\ history'.overlapped = history.overlapped
    BY <1>1 DEF FileInv, LibraryType
  <1>3. DOMAIN previews' = DOMAIN previews
    BY <1>1
  <1>4. ASSUME NEW p \in DOMAIN previews
        PROVE  /\ previews'[p].pc \notin Looking /\ previews'[p].pc \notin Checked
               /\ previews'[p].pc = "shown" => previews'[p] = previews[p]
    BY <1>1 DEF Looking, Checked
  <1>5. ShownIsIngested'
    BY <1>1, <1>2, <1>3, <1>4 DEF ReadInv, ShownIsIngested
  <1> QED BY <1>1, <1>3, <1>4, <1>5 DEF ReadInv

\* Every step keeps what is known of the readers.
LEMMA NextRead ==
  ASSUME FileInv, ReadInv, [Next]_vars
  PROVE  ReadInv'
  <1>1. ASSUME NEW r \in DOMAIN uploads, Upload(r)
        PROVE  ReadInv'
    BY <1>1, UploadDisturbs, ReadUndisturbed
  <1>2. ASSUME NEW p \in DOMAIN previews, Preview(p)
        PROVE  ReadInv'
    <2>1. CASE ConvertFails(p)
      BY <2>1, Degraded DEF ConvertFails
    <2> QED BY <1>2, <2>1, FindRead, CheckRead, LookRead, ConvertRead, RenderRead DEF Preview
  <1>3. CASE ListRows \/ DeleteRows
    BY <1>3, DeleteRead DEF ListRows, DeleteRows
  <1>4. CASE UNCHANGED vars
    BY <1>4, DeleteRead DEF vars
  <1> QED BY <1>1, <1>2, <1>3, <1>4, HashRead, ParseRead, UnlinkRead, KillRead DEF Next

\* What is indexed under a content hash, converted for it and shown for it is
\* the content of that hash, unless uploads of the name overlapped or a file
\* was replaced or removed between two reads of one request (load_documents,
\* resolve_preview_source, ensure_pdf, delete_documents).
THEOREM OnlyTheIngestedIsShown == Spec => []ShownIsIngested
  <1>1. Init => FileInv /\ ReadInv
    BY InitFile, InitRead
  <1>2. FileInv /\ ReadInv /\ [Next]_vars => (FileInv /\ ReadInv)'
    BY NextFile, NextRead
  <1>3. ReadInv => ShownIsIngested
    BY DEF ReadInv
  <1> QED BY <1>1, <1>2, <1>3, PTL DEF Spec
=============================================================================
