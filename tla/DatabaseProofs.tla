--------------------------- MODULE DatabaseProofs ---------------------------
(***************************************************************************)
(* A library database in use, for every set of files, damages, edit plans  *)
(* and players: whatever the reader is given it stays inside its bytes and *)
(* everything held in memory has its type (Typing); what is edited stays a *)
(* sound library with new identifiers (DraftInv); what discovery shows as  *)
(* ready was found sound and signed (ReadyInv); what is generated for the  *)
(* engine names the audio of the document (SourceInv), is never refused by *)
(* the writer's own checks (MasterInv) and stays editable (EditableInv);   *)
(* what the reader reports as not understood is saved as it was, and it    *)
(* reports all that UnknownData names.                                     *)
(***************************************************************************)
EXTENDS RoundTripProofs

-----------------------------------------------------------------------------
(* The writer: the file.                                                   *)

\* What the operations may answer.
Reported == Errors \ {"undefined"}
Failures == [error : Reported \ {"none"}]
Outputs == Failures \cup [error : {"none"}, out : Seq(Cells)]
Readings == Failures \cup [error : {"none"}, doc : Documents]

LEMMA CheckedType ==
  ASSUME NEW error \in Reported, NEW S, Failures \subseteq S,
         NEW outcome, error = "none" => outcome \in S
  PROVE  Checked(error, outcome) \in S
<1>1. error # "none" => Failed(error) \in Failures
  BY DEF Failures, Failed
<1> QED
  BY <1>1 DEF Checked

LEMMA ReadingType ==
  ASSUME NEW w \in Seq(Cells), NEW k \in Kinds, NEW key
  PROVE  Read(w, k, key) \in Readings
<1>1. Read(w, k, key) \in Answers(w, k)
  BY ReadType
<1>2. DocumentsOf(w, k) \subseteq Documents
  BY DEF DocumentsOf, Documents
<1>3. ReadErrors \subseteq Reported
  BY DEF ReadErrors, Reported
<1> QED
  BY <1>1, <1>2, <1>3 DEF Answers, Readings, Failures

LEMMA TextsWritable ==
  ASSUME NEW m \in Model, m.master # <<>>, \A text \in Texts(m) : Encodable(text)
  PROVE  WritableModel(m)
<1>1. m.tracks \in Seq(Track) /\ m.lists \in Seq(Playlist) /\ m.master \in Seq(Playlist)
  BY DEF Model
<1>2. ASSUME NEW i \in DOMAIN m.tracks PROVE WritableTrack(m.tracks[i])
  <2>1. m.tracks[i] \in Track
    BY <1>1
  <2>2. DOMAIN m.tracks[i].text = TextTypes
    BY <2>1 DEF Track, TextOf
  <2>3. \A type \in TextTypes : m.tracks[i].text[type] \in Range(m.tracks[i].text)
    BY <2>2 DEF Range
  <2>4. \A type \in TextTypes : m.tracks[i].text[type] \in Texts(m)
    BY <2>3 DEF Texts
  <2> QED
    BY <2>1, <2>4 DEF WritableTrack
<1>3. WritablePlaylist(m.master[1])
  <2>1. m.master[1] \in Playlist
    BY <1>1
  <2>2. m.master[1].name \in Texts(m)
    BY DEF Texts
  <2> QED
    BY <2>1, <2>2 DEF WritablePlaylist
<1>4. ASSUME NEW i \in DOMAIN m.lists PROVE WritablePlaylist(m.lists[i])
  <2>1. m.lists[i] \in Playlist
    BY <1>1
  <2>2. m.lists[i].name \in Texts(m)
    BY DEF Texts
  <2> QED
    BY <2>1, <2>2 DEF WritablePlaylist
<1> QED
  BY <1>2, <1>3, <1>4 DEF WritableModel

LEMMA VerifyType ==
  ASSUME NEW key, NEW w
  PROVE  VerifyError(key, w) \in Reported
BY DEF VerifyError, HashEnvelopeError, Or, Reported, Errors

LEMMA SignedType ==
  ASSUME NEW key \in Nat, NEW w \in Seq(Cells), Len(w) >= 1
  PROVE  Signed(key, w) \in Seq(Cells)
<1>1. Hash58(key, w) \in Cells
  BY HashType
<1>2. Len(w) \in Nat /\ w \in [1 .. Len(w) -> Cells]
  BY LenProperties, ElementOfSeq
<1>3. Signed(key, w) \in [1 .. Len(w) -> Cells]
  BY <1>1, <1>2 DEF Signed
<1> QED
  BY <1>2, <1>3, FieldsAreCells

LEMMA GeneratedType ==
  ASSUME NEW out \in Seq(Cells), NEW d \in Documents, NEW key
  PROVE  Generated(out, d, key) \in Outputs
<1> DEFINE error == SelfCheckError(Read(out, d.kind, IF d.kind = "hash58" THEN key ELSE NoKey), d)
<1>1. error \in Reported
  BY DEF SelfCheckError, Reported, Errors
<1> HIDE DEF error
<1>2. [error |-> "none", out |-> out] \in Outputs /\ Failures \subseteq Outputs
  BY DEF Outputs
<1>3. Checked(error, [error |-> "none", out |-> out]) \in Outputs
  BY <1>1, <1>2, CheckedType
<1> QED
  BY <1>3 DEF Generated, error

LEMMA SerializedType ==
  ASSUME NEW d \in Documents, d.model.master # <<>>,
         NEW key \in Nat, NEW timestamp \in Cells, NEW plain,
         plain = Serialize(d.model, d.kind, timestamp)
  PROVE  Serialized(plain, d, key, timestamp) \in Outputs
<1> DEFINE error == SerializeError(d.model, d.kind, timestamp, Len(plain))
           out == IF d.kind = "hash58" THEN Signed(key, plain) ELSE plain
<1>1. error \in Reported
  BY DEF SerializeError, Reported, Errors
<1>2. ASSUME error = "none" PROVE out \in Seq(Cells)
  <2>1. ~(Len(plain) >= Width) /\ \A text \in Texts(d.model) : Encodable(text)
    BY <1>2 DEF SerializeError
  <2>2. d.kind \in Kinds /\ d.model \in Model
    BY DEF Documents
  <2>3. WritableModel(d.model)
    BY <2>1, <2>2, TextsWritable
  <2>4. Sized(plain) /\ Len(plain) \in Nat /\ Len(plain) >= Layout[d.kind].root
    BY <2>2, <2>3, SerializeSized
  <2>5. Layout[d.kind].root \in Nat /\ Layout[d.kind].root >= 8 /\ Width \in Nat
    BY <2>2, LayoutType, FormatAssumption
  <2>6. \A x, y, z \in Nat : ~(x >= y) => x < y /\ (x >= z /\ z >= 8 => x >= 1)
    OBVIOUS
  <2>7. Len(plain) < Width /\ Len(plain) >= 1
    BY <2>1, <2>4, <2>5, <2>6
  <2>8. plain \in Seq(Cells)
    BY <2>4, <2>7 DEF Sized
  <2> QED
    BY <2>7, <2>8, SignedType
<1> HIDE DEF error, out
<1>3. error = "none" => Generated(out, d, key) \in Outputs
  BY <1>2, GeneratedType
<1>4. Checked(error, Generated(out, d, key)) \in Outputs
  BY <1>1, <1>3, CheckedType DEF Outputs
<1> QED
  BY <1>4 DEF Serialized, error, out

\* Whatever document the writer is given, what it writes are cells.
LEMMA WriteType ==
  ASSUME NEW d \in Documents, NEW k \in Kinds, NEW key \in Nat, NEW timestamp \in Cells
  PROVE  Write(d, k, key, timestamp) \in Outputs
<1> DEFINE keptError == IF Len(d.original) > Layout[d.kind].maxOut THEN "resource_limit_exceeded"
                        ELSE IF d.kind = "hash58" THEN VerifyError(key, d.original) ELSE "none"
<1>1. Kept(d, key) \in Outputs
  <2>1. keptError \in Reported
    BY VerifyType DEF Reported, Errors
  <2>2. [error |-> "none", out |-> d.original] \in Outputs /\ Failures \subseteq Outputs
    BY DEF Outputs, Documents
  <2> HIDE DEF keptError
  <2>3. Checked(keptError, [error |-> "none", out |-> d.original]) \in Outputs
    BY <2>1, <2>2, CheckedType
  <2> QED
    BY <2>3 DEF Kept, keptError
<1>2. ASSUME d.kind = k, Valid(d)
      PROVE  Serialized(Serialize(d.model, k, timestamp), d, key, timestamp) \in Outputs
  <2>1. d.model.master # <<>>
    BY <1>2 DEF Valid
  <2> QED
    BY <1>2, <2>1, SerializedType
<1>3. \A e \in {"missing_device_key", "profile_mismatch", "invalid_document",
                "profile_not_writable", "opaque_dependency"} : Failed(e) \in Outputs
  BY DEF Failed, Outputs, Failures, Reported, Errors
<1> QED
  BY <1>1, <1>2, <1>3 DEF Write

LEMMA EmptyLibraryType ==
  ASSUME NEW k \in Kinds, NEW pid \in Wide, NEW masterPid \in Wide, NEW name \in Seq(Nat)
  PROVE  EmptyLibrary(k, pid, masterPid, name) \in Documents
<1>1. [pid |-> masterPid, name |-> name, kind |-> "master", members |-> <<>>] \in Playlist
  BY EmptySeq DEF Playlist
<1>2. EmptyLibrary(k, pid, masterPid, name).model \in Model
  BY <1>1, EmptySeq DEF EmptyLibrary, Model
<1> QED
  BY <1>2, EmptySeq DEF EmptyLibrary, Documents, Signatures

LEMMA CreateType ==
  ASSUME NEW k \in Kinds, NEW key \in Nat, NEW pid \in Wide, NEW masterPid \in Wide,
         NEW name \in Seq(Nat), NEW timestamp \in Cells
  PROVE  CreateEmpty(k, key, pid, masterPid, name, timestamp) \in Readings
<1> DEFINE empty == EmptyLibrary(k, pid, masterPid, name)
           answer == Write(empty, k, key, timestamp)
           error == IF k = "preserve_only" THEN "profile_not_writable"
                    ELSE IF k = "hash58" /\ key = NoKey THEN "missing_device_key"
                    ELSE IF 0 \in {pid, masterPid, timestamp} \/ pid = masterPid
                         THEN "duplicate_persistent_id" ELSE "none"
           reread == Read(answer.out, k, IF k = "hash58" THEN key ELSE NoKey)
<1>1. empty \in Documents
  BY EmptyLibraryType
<1>2. answer \in Outputs
  BY <1>1, WriteType
<1>3. error \in Reported
  BY DEF Reported, Errors
<1> HIDE DEF answer, error
<1>4. Checked(answer.error, reread) \in Readings
  <2>1. answer.error \in Reported
    BY <1>2 DEF Outputs, Failures, Reported, Errors
  <2>2. answer.error = "none" => answer.out \in Seq(Cells)
    BY <1>2 DEF Outputs, Failures
  <2>3. answer.error = "none" => reread \in Readings
    BY <2>2, ReadingType
  <2>4. Failures \subseteq Readings
    BY DEF Readings
  <2> HIDE DEF reread
  <2> QED
    BY <2>1, <2>3, <2>4, CheckedType
<1>5. Checked(error, Checked(answer.error, reread)) \in Readings
  <2>1. Failures \subseteq Readings
    BY DEF Readings
  <2> DEFINE outcome == Checked(answer.error, reread)
  <2>2. outcome \in Readings
    BY <1>4
  <2> HIDE DEF outcome
  <2>3. Checked(error, outcome) \in Readings
    BY <1>3, <2>1, <2>2, CheckedType
  <2> QED
    BY <2>3 DEF outcome
<1> QED
  BY <1>5 DEF CreateEmpty, error, answer, empty

-----------------------------------------------------------------------------
(* The operations of a plan on sequences of records.                       *)

LEMMA MaxIn ==
  ASSUME NEW S \in SUBSET Cells, S # {}
  PROVE  Max(S) \in S /\ \A x \in S : x <= Max(S)
<1> DEFINE T == {Width - 1 - x : x \in S}
<1>1. S \subseteq 0 .. Width - 1 /\ Width \in Nat
  BY FormatAssumption DEF Cells
<1>2. T \in SUBSET Nat /\ T # {}
  <2>1. \A x \in 0 .. Width - 1 : Width - 1 - x \in Nat
    BY <1>1
  <2>2. \A x \in S : Width - 1 - x \in Nat
    BY <1>1, <2>1
  <2> QED
    BY <2>2
<1>3. PICK t \in T : \A y \in T : t <= y
  <2> HIDE DEF T
  <2> QED
    BY <1>2, LeastNatural
<1>4. PICK m \in S : t = Width - 1 - m
  BY <1>3
<1>5. \A x \in S : m >= x
  <2> SUFFICES ASSUME NEW x \in S PROVE m >= x
    OBVIOUS
  <2>1. Width - 1 - x \in T
    OBVIOUS
  <2>2. Width - 1 - m <= Width - 1 - x
    BY <1>3, <1>4, <2>1
  <2>3. x \in Nat /\ m \in Nat
    BY <1>1
  <2> QED
    BY <1>1, <2>2, <2>3
<1>6. Max(S) \in S /\ \A x \in S : Max(S) >= x
  BY <1>4, <1>5 DEF Max
<1>7. \A x \in S : x \in Int
  BY <1>1
<1> QED
  BY <1>6, <1>7

LEMMA RemoveAtProperties ==
  ASSUME NEW S, NEW s \in Seq(S), NEW i \in 1 .. Len(s)
  PROVE  /\ RemoveAt(s, i) \in Seq(S) /\ Len(RemoveAt(s, i)) = Len(s) - 1
         /\ \A j \in 1 .. Len(s) - 1 : RemoveAt(s, i)[j] = IF j < i THEN s[j] ELSE s[j + 1]
<1> DEFINE n == Len(s)
           before == SubSeq(s, 1, i - 1)
           behind == SubSeq(s, i + 1, n)
<1>1. n \in Nat /\ \A j \in 1 .. n : s[j] \in S
  BY LenProperties, ElementOfSeq
<1>2. /\ before \in Seq(S) /\ Len(before) = i - 1
      /\ \A j \in 1 .. i - 1 : before[j] = s[j]
  <2>1. 1 \in Int /\ i - 1 \in Int /\ \A j \in 1 .. i - 1 : s[j] \in S
    BY <1>1
  <2> QED
    BY <1>1, <2>1, SubSeqProperties
<1>3. /\ behind \in Seq(S) /\ Len(behind) = n - i
      /\ \A j \in 1 .. n - i : behind[j] = s[i + j]
  <2>1. i + 1 \in Int /\ n \in Int /\ \A j \in i + 1 .. n : s[j] \in S
    BY <1>1
  <2> QED
    BY <1>1, <2>1, SubSeqProperties
<1>4. RemoveAt(s, i) = before \o behind
  BY DEF RemoveAt
<1> HIDE DEF before, behind
<1>5. /\ before \o behind \in Seq(S) /\ Len(before \o behind) = Len(before) + Len(behind)
      /\ \A j \in 1 .. Len(before) + Len(behind) : (before \o behind)[j] =
           IF j <= Len(before) THEN before[j] ELSE behind[j - Len(before)]
  BY <1>2, <1>3, ConcatProperties, Zenon
<1>6. Len(before) + Len(behind) = n - 1 /\ Len(before) = i - 1
  BY <1>1, <1>2, <1>3
<1>7. ASSUME NEW j \in 1 .. n - 1
      PROVE  (before \o behind)[j] = IF j < i THEN s[j] ELSE s[j + 1]
  <2>1. (before \o behind)[j] = IF j <= i - 1 THEN before[j] ELSE behind[j - (i - 1)]
    BY <1>5, <1>6
  <2>2. CASE j < i
    <3>1. j \in 1 .. i - 1 /\ j <= i - 1
      BY <1>1, <2>2
    <3> QED
      BY <1>2, <2>1, <2>2, <3>1
  <2>3. CASE ~(j < i)
    <3>1. j - (i - 1) \in 1 .. n - i /\ i + (j - (i - 1)) = j + 1 /\ ~(j <= i - 1)
      BY <1>1, <2>3
    <3> QED
      BY <1>3, <2>1, <2>3, <3>1
  <2> QED
    BY <2>2, <2>3
<1> QED
  BY <1>4, <1>5, <1>6, <1>7

LEMMA TrackAtFound ==
  ASSUME NEW m \in Model, NEW id
  PROVE  /\ TrackAt(m, id) \in 0 .. Len(m.tracks)
         /\ TrackAt(m, id) # 0 => m.tracks[TrackAt(m, id)].id = id
<1> DEFINE I == {i \in 1 .. Len(m.tracks) : m.tracks[i].id = id}
<1>1. TrackAt(m, id) = IF I # {} THEN Min(I) ELSE 0
  BY DEF TrackAt, SelectInSeq
<1>2. Len(m.tracks) \in Nat
  BY LenProperties DEF Model
<1>3. I \in SUBSET Nat
  BY <1>2
<1>4. I # {} => Min(I) \in I
  <2> HIDE DEF I
  <2> QED
    BY <1>3, MinIn
<1> QED
  BY <1>1, <1>2, <1>4

LEMMA ListAtFound ==
  ASSUME NEW m \in Model, NEW pid
  PROVE  /\ ListAt(m, pid) \in 0 .. Len(m.lists)
         /\ ListAt(m, pid) # 0 => Ordinary(m.lists[ListAt(m, pid)])
<1> DEFINE I == {i \in 1 .. Len(m.lists) : Ordinary(m.lists[i]) /\ m.lists[i].pid = pid}
<1>1. ListAt(m, pid) = IF I # {} THEN Min(I) ELSE 0
  BY DEF ListAt, SelectInSeq
<1>2. Len(m.lists) \in Nat
  BY LenProperties DEF Model
<1>3. I \in SUBSET Nat
  BY <1>2
<1>4. I # {} => Min(I) \in I
  <2> HIDE DEF I
  <2> QED
    BY <1>3, MinIn
<1> QED
  BY <1>1, <1>2, <1>4

\* Dropping an identifier drops it from the elements, and no other, and repeats
\* nothing that was not repeated.
LEMMA WithoutProperties ==
  ASSUME NEW S, NEW s \in Seq(S), NEW id
  PROVE  /\ Without(s, id) \in Seq(S)
         /\ Range(Without(s, id)) = Range(s) \ {id}
         /\ Distinct(s) => Distinct(Without(s, id))
<1> DEFINE n == Len(s)
           step(kept, i) == IF s[i] = id THEN kept ELSE Append(kept, s[i])
           IsRun(f) == f = [i \in 0 .. n |-> IF i = 0 THEN <<>> ELSE step(f[i - 1], i)]
           F == [p \in Seq(S) \X (1 .. n) |-> step(p[1], p[2])]
           state == CHOOSE f : IsRun(f)
           first(i) == {s[j] : j \in 1 .. i}
           J == [i \in 0 .. n |-> {kept \in Seq(S) :
                   /\ Range(kept) = first(i) \ {id}
                   /\ Distinct(s) => Distinct(kept)}]
<1>1. n \in Nat /\ DOMAIN s = 1 .. n /\ \A i \in 1 .. n : s[i] \in S
  BY LenProperties, ElementOfSeq
<1>2. Without(s, id) = state[n]
  BY DEF Without, Iterate
<1> HIDE DEF n
<1>3. \A kept \in Seq(S), i \in 1 .. n : step(kept, i) \in Seq(S)
  BY <1>1, AppendProperties
<1>4. PICK g : Iterates(g, F, <<>>, n) /\ \A i \in 0 .. n : g[i] \in Seq(S)
  <2>1. \A kept \in Seq(S), i \in 1 .. n : F[<<kept, i>>] \in Seq(S)
    BY <1>3
  <2>2. <<>> \in Seq(S)
    BY EmptySeq
  <2> HIDE DEF F
  <2> QED
    BY <1>1, <2>1, <2>2, IterationIn
<1>5. IsRun(g)
  <2>1. ASSUME NEW i \in 1 .. n PROVE F[<<g[i - 1], i>>] = step(g[i - 1], i)
    BY <1>1, <1>4
  <2> HIDE DEF F
  <2>2. g = [i \in 0 .. n |-> IF i = 0 THEN <<>> ELSE F[<<g[i - 1], i>>]]
    BY <1>4 DEF Iterates
  <2> HIDE DEF step
  <2>3. ASSUME NEW i \in 0 .. n PROVE g[i] = IF i = 0 THEN <<>> ELSE step(g[i - 1], i)
    <3>1. CASE i = 0
      BY <2>2, <3>1
    <3>2. CASE i # 0
      <4>1. i \in 1 .. n
        BY <1>1, <3>2
      <4>2. g[i] = F[<<g[i - 1], i>>]
        BY <2>2, <3>2
      <4> QED
        BY <2>1, <3>2, <4>1, <4>2
    <3> QED
      BY <3>1, <3>2
  <2> QED
    BY <2>2, <2>3
<1> HIDE DEF IsRun, F
<1>6. IsRun(state)
  BY <1>5
<1> HIDE DEF state
<1>7. state[0] \in J[0]
  <2>1. state[0] = <<>> /\ <<>> \in Seq(S) /\ 0 \in 0 .. n
    BY <1>1, <1>6, EmptySeq DEF IsRun
  <2>2. Range(<<>>) = {} /\ first(0) = {} /\ Distinct(<<>>)
    BY DEF Range, Distinct
  <2> HIDE DEF first
  <2> QED
    BY <2>1, <2>2
<1>8. ASSUME NEW i \in 1 .. n, state[i - 1] \in J[i - 1] PROVE state[i] \in J[i]
  <2> DEFINE kept == state[i - 1]
  <2>1. i - 1 \in 0 .. n /\ i \in 0 .. n /\ i # 0
    BY <1>1
  <2>2. /\ kept \in Seq(S) /\ Range(kept) = first(i - 1) \ {id}
        /\ Distinct(s) => Distinct(kept)
    BY <1>8, <2>1
  <2>3. state[i] = step(kept, i)
    BY <1>6, <2>1 DEF IsRun
  <2>4. first(i) = first(i - 1) \cup {s[i]}
    BY <1>1
  <2>5. Distinct(s) => s[i] \notin first(i - 1)
    BY <1>1 DEF Distinct
  <2> HIDE DEF kept, first
  <2>6. CASE s[i] = id
    BY <2>1, <2>2, <2>3, <2>4, <2>6
  <2>7. CASE s[i] # id
    <3> DEFINE longer == Append(kept, s[i])
               m == Len(kept)
    <3>1. m \in Nat /\ DOMAIN kept = 1 .. m
      BY <2>2, LenProperties
    <3>2. /\ longer \in Seq(S) /\ DOMAIN longer = 1 .. m + 1
          /\ longer[m + 1] = s[i] /\ \A j \in 1 .. m : longer[j] = kept[j]
      <4>1. longer \in Seq(S) /\ Len(longer) = m + 1
        BY <1>1, <2>2, AppendProperties
      <4>2. longer[m + 1] = s[i] /\ \A j \in 1 .. m : longer[j] = kept[j]
        BY <1>1, <2>2, AppendProperties
      <4> QED
        BY <4>1, <4>2, LenProperties
    <3> HIDE DEF longer, m
    <3>3. 1 .. m + 1 = 1 .. m \cup {m + 1}
      BY <3>1
    <3>4. Range(longer) = Range(kept) \cup {s[i]}
      BY <3>1, <3>2, <3>3 DEF Range
    <3>5. ASSUME Distinct(s) PROVE Distinct(longer)
      <4>1. s[i] \notin Range(kept) /\ Distinct(kept)
        BY <2>2, <2>5, <3>5
      <4>2. \A j \in 1 .. m : longer[j] # s[i]
        BY <3>1, <3>2, <4>1 DEF Range
      <4>3. ASSUME NEW a \in 1 .. m + 1, NEW b \in 1 .. m + 1, longer[a] = longer[b]
            PROVE  a = b
        <5>1. CASE a \in 1 .. m /\ b \in 1 .. m
          BY <3>1, <3>2, <4>1, <4>3, <5>1 DEF Distinct
        <5>2. CASE a = m + 1 \/ b = m + 1
          BY <3>2, <3>3, <4>2, <4>3, <5>2
        <5> QED
          BY <3>3, <5>1, <5>2
      <4> QED
        BY <3>2, <4>3 DEF Distinct
    <3>6. state[i] = longer
      BY <2>3, <2>7 DEF longer
    <3>7. Range(longer) = first(i) \ {id}
      BY <2>2, <2>4, <2>7, <3>4
    <3> QED
      BY <2>1, <3>2, <3>5, <3>6, <3>7
  <2> QED
    BY <2>6, <2>7
<1> HIDE DEF J, step
<1>9. state[n] \in J[n]
  <2>1. \A i \in 0 .. n : state[i] \in J[i]
    BY <1>1, <1>7, <1>8, AllOf
  <2> QED
    BY <1>1, <2>1
<1>10. first(n) = Range(s)
  BY <1>1 DEF Range
<1> HIDE DEF first
<1>11. /\ state[n] \in Seq(S) /\ Range(state[n]) = first(n) \ {id}
       /\ Distinct(s) => Distinct(state[n])
  BY <1>1, <1>9 DEF J
<1> QED
  BY <1>2, <1>10, <1>11

LEMMA ReplacedType ==
  ASSUME NEW S, NEW s \in Seq(S), NEW i, NEW v, i \in DOMAIN s => v \in S
  PROVE  [s EXCEPT ![i] = v] \in Seq(S) /\ DOMAIN [s EXCEPT ![i] = v] = DOMAIN s
<1>1. Len(s) \in Nat /\ DOMAIN s = 1 .. Len(s) /\ s \in [1 .. Len(s) -> S]
  BY LenProperties, ElementOfSeq
<1>2. [s EXCEPT ![i] = v] \in [1 .. Len(s) -> S]
  BY <1>1
<1> QED
  BY <1>1, <1>2, FieldsAreCells

LEMMA PidsType ==
  ASSUME NEW m \in Model
  PROVE  Pids(m) \subseteq Wide
<1>1. /\ m.pid \in Wide /\ \A i \in DOMAIN m.master : m.master[i].pid \in Wide
      /\ \A i \in DOMAIN m.tracks : m.tracks[i].pid \in Wide
      /\ \A i \in DOMAIN m.lists : m.lists[i].pid \in Wide
  <2>1. /\ \A i \in DOMAIN m.master : m.master[i] \in Playlist
        /\ \A i \in DOMAIN m.tracks : m.tracks[i] \in Track
        /\ \A i \in DOMAIN m.lists : m.lists[i] \in Playlist
    BY DEF Model
  <2> QED
    BY <2>1 DEF Model, Playlist, Track
<1> QED
  BY <1>1 DEF Pids

LEMMA TrackIdsType ==
  ASSUME NEW m \in Model
  PROVE  /\ TrackIds(m) \in Seq(Cells) /\ DOMAIN TrackIds(m) = DOMAIN m.tracks
         /\ Range(TrackIds(m)) \subseteq Cells
         /\ \A i \in DOMAIN m.tracks : TrackIds(m)[i] = m.tracks[i].id
<1>1. Len(m.tracks) \in Nat /\ DOMAIN m.tracks = 1 .. Len(m.tracks)
  BY LenProperties DEF Model
<1>2. \A i \in 1 .. Len(m.tracks) : m.tracks[i].id \in Cells
  <2>1. \A i \in 1 .. Len(m.tracks) : m.tracks[i] \in Track
    BY <1>1 DEF Model
  <2> QED
    BY <2>1 DEF Track
<1>3. TrackIds(m) \in [1 .. Len(m.tracks) -> Cells]
  BY <1>1, <1>2 DEF TrackIds
<1>4. Range(TrackIds(m)) \subseteq Cells
  BY <1>3 DEF Range
<1> QED
  BY <1>1, <1>3, <1>4, FieldsAreCells DEF TrackIds

\* The identifier of an added track is a new one.
LEMMA NextIdNew ==
  ASSUME NEW m \in Model, ~IdsExhausted(m), NEW id, id = (MaxId(m) + 1) % Width
  PROVE  /\ id \in Cells /\ id # 0 /\ \A i \in DOMAIN m.tracks : m.tracks[i].id # id
<1> DEFINE S == {0} \cup Range(TrackIds(m))
<1>1. S \in SUBSET Cells /\ S # {}
  BY TrackIdsType, WideZero
<1>2. MaxId(m) \in S /\ \A x \in S : x <= MaxId(m)
  <2> HIDE DEF S
  <2>1. Max(S) \in S /\ \A x \in S : x <= Max(S)
    BY <1>1, MaxIn
  <2> QED
    BY <2>1 DEF MaxId, S
<1> HIDE DEF S
<1>3. MaxId(m) \in 0 .. Width - 1 /\ MaxId(m) # Width - 1 /\ Width \in Nat
  BY <1>1, <1>2, FormatAssumption DEF IdsExhausted, Cells
<1>4. \A x, y \in Nat : x < y => x % y = x
  OBVIOUS
<1>5. id = MaxId(m) + 1
  BY <1>3, <1>4
<1>6. ASSUME NEW i \in DOMAIN m.tracks PROVE m.tracks[i].id # id
  <2>1. m.tracks[i].id \in S
    BY TrackIdsType DEF S, Range
  <2>2. m.tracks[i].id <= MaxId(m) /\ m.tracks[i].id \in 0 .. Width - 1
    BY <1>1, <1>2, <2>1 DEF Cells
  <2> QED
    BY <1>3, <1>5, <2>2
<1> QED
  BY <1>3, <1>5, <1>6 DEF Cells

LEMMA ModelChanged ==
  ASSUME NEW m \in Model, NEW T \in Seq(Track), NEW L \in Seq(Playlist), NEW M,
         m.master # <<>> => M \in Seq(Cells)
  PROVE  [m EXCEPT !.tracks = T, !.master[1].members = M, !.lists = L] \in Model
<1> DEFINE master == [m.master EXCEPT ![1] = [m.master[1] EXCEPT !.members = M]]
<1>1. m.master \in Seq(Playlist)
  BY DEF Model
<1>2. 1 \in DOMAIN m.master => m.master[1] \in Playlist /\ m.master # <<>>
  BY <1>1
<1>3. 1 \in DOMAIN m.master => [m.master[1] EXCEPT !.members = M] \in Playlist
  BY <1>2 DEF Playlist
<1>4. master \in Seq(Playlist)
  BY <1>1, <1>3, ReplacedType
<1> DEFINE new == [m EXCEPT !.tracks = T, !.master[1].members = M, !.lists = L]
<1>5. new.pid = m.pid /\ new.tracks = T /\ new.master = master /\ new.lists = L
  BY DEF Model
<1>6. new \in Model
  BY <1>4 DEF Model
<1> QED
  BY <1>6

-----------------------------------------------------------------------------
(* What the program holds has its type, and no read leaves the file.       *)

Typing == TypeOK /\ ReadsStayInside

LEMMA OperationFields ==
  ASSUME NEW o \in Operations
  PROVE  /\ o.op \in {"add_track", "remove_track", "add_playlist", "remove_playlist",
                      "rename_playlist", "replace_members"}
         /\ o.op = "add_track" => o.text \in TextOf
         /\ o.op = "add_playlist" => o.name \in Seq(Nat)
         /\ o.op = "rename_playlist" => o.name \in Seq(Nat)
         /\ o.op = "remove_track" => o.id \in Nat
         /\ o.op = "replace_members" => o.members \in Seq(Nat)
BY DEF Operations

LEMMA CurrentOperation ==
  ASSUME TypeOK, todo # <<>>
  PROVE  Head(todo) \in Operations /\ Tail(todo) \in Seq(Operations)
BY HeadTailProperties DEF TypeOK

LEMMA PidTaken ==
  ASSUME TypeOK, ~PidRefused, TakePid
  PROVE  /\ Head(spare) \in Wide /\ Head(spare) \notin known \cup {0}
         /\ spare' \in Seq(Wide) /\ known' = known \cup {Head(spare)} /\ known' \subseteq Wide
<1>1. spare \in Seq(Wide) /\ known \subseteq Wide
  BY DEF TypeOK
<1>2. spare # <<>> /\ Head(spare) \notin known \cup {0}
  BY DEF PidRefused
<1>3. Head(spare) \in Wide /\ Tail(spare) \in Seq(Wide)
  BY <1>1, <1>2, HeadTailProperties
<1> QED
  BY <1>1, <1>2, <1>3 DEF TakePid

LEMMA AddTrackType ==
  ASSUME TypeOK, AddTrack
  PROVE  draft' \in Model
<1> DEFINE id == (MaxId(draft) + 1) % Width
           track == [id |-> id, pid |-> Head(spare), text |-> Head(todo).text]
           members == Append(draft.master[1].members, id)
           tracks == Append(draft.tracks, track)
<1>1. /\ todo # <<>> /\ Head(todo).op = "add_track" /\ ~IdsExhausted(draft) /\ ~PidRefused
      /\ TakePid
  BY DEF AddTrack, Current, OperationRefused
<1>2. draft \in Model
  BY DEF TypeOK
<1>3. id \in Cells
  BY <1>1, <1>2, NextIdNew
<1>4. track \in Track
  <2>1. Head(spare) \in Wide
    BY <1>1, PidTaken
  <2>2. Head(todo).text \in TextOf
    BY <1>1, CurrentOperation, OperationFields
  <2> HIDE DEF id
  <2> QED
    BY <1>3, <2>1, <2>2 DEF Track
<1>5. draft.tracks \in Seq(Track) /\ draft.master \in Seq(Playlist) /\ draft.lists \in Seq(Playlist)
  BY <1>2 DEF Model
<1>6. draft' = [draft EXCEPT !.tracks = tracks, !.master[1].members = members]
  BY DEF AddTrack
<1> HIDE DEF id, track
<1>7. tracks \in Seq(Track)
  BY <1>4, <1>5, AppendProperties
<1>8. draft.master # <<>> => members \in Seq(Cells)
  <2>1. draft.master # <<>> => draft.master[1] \in Playlist
    BY <1>5
  <2>2. draft.master # <<>> => draft.master[1].members \in Seq(Cells)
    BY <2>1 DEF Playlist
  <2> QED
    BY <1>3, <2>2, AppendProperties
<1> HIDE DEF tracks, members
<1>9. [draft EXCEPT !.tracks = tracks, !.master[1].members = members, !.lists = draft.lists] \in Model
  BY <1>2, <1>5, <1>7, <1>8, ModelChanged
<1>10. draft' = [draft EXCEPT !.tracks = tracks, !.master[1].members = members, !.lists = draft.lists]
  BY <1>2, <1>6 DEF Model
<1> QED
  BY <1>9, <1>10

LEMMA PurgedType ==
  ASSUME NEW L \in Seq(Playlist), NEW id
  PROVE  Purged(L, id) \in Seq(Playlist)
<1>1. Len(L) \in Nat /\ DOMAIN L = 1 .. Len(L) /\ \A i \in 1 .. Len(L) : L[i] \in Playlist
  BY LenProperties, ElementOfSeq
<1>2. ASSUME NEW i \in 1 .. Len(L) PROVE [L[i] EXCEPT !.members = Without(@, id)] \in Playlist
  <2>1. L[i] \in Playlist /\ L[i].members \in Seq(Cells)
    BY <1>1 DEF Playlist
  <2>2. Without(L[i].members, id) \in Seq(Cells)
    BY <2>1, WithoutProperties
  <2> QED
    BY <2>1, <2>2 DEF Playlist
<1>3. Purged(L, id) \in [1 .. Len(L) -> Playlist]
  BY <1>1, <1>2 DEF Purged
<1> QED
  BY <1>1, <1>3, FieldsAreCells

LEMMA RemoveTrackType ==
  ASSUME TypeOK, RemoveTrack
  PROVE  draft' \in Model
<1> DEFINE id == Head(todo).id
           tracks == RemoveAt(draft.tracks, TrackAt(draft, id))
           members == Without(draft.master[1].members, id)
           lists == Purged(draft.lists, id)
<1>1. TrackAt(draft, id) # 0
  BY DEF RemoveTrack, Current, OperationRefused
<1>2. draft \in Model
  BY DEF TypeOK
<1>3. draft.tracks \in Seq(Track) /\ draft.master \in Seq(Playlist) /\ draft.lists \in Seq(Playlist)
  BY <1>2 DEF Model
<1>4. tracks \in Seq(Track)
  <2>1. TrackAt(draft, id) \in 1 .. Len(draft.tracks)
    BY <1>1, <1>2, <1>3, TrackAtFound, LenProperties
  <2> QED
    BY <1>3, <2>1, RemoveAtProperties
<1>5. draft.master # <<>> => members \in Seq(Cells)
  <2>1. draft.master # <<>> => draft.master[1] \in Playlist
    BY <1>3
  <2>2. draft.master # <<>> => draft.master[1].members \in Seq(Cells)
    BY <2>1 DEF Playlist
  <2> QED
    BY <2>2, WithoutProperties
<1>6. lists \in Seq(Playlist)
  BY <1>3, PurgedType
<1>7. draft' = [draft EXCEPT !.tracks = tracks, !.master[1].members = members, !.lists = lists]
  BY DEF RemoveTrack
<1> HIDE DEF tracks, members, lists
<1> QED
  BY <1>2, <1>4, <1>5, <1>6, <1>7, ModelChanged

LEMMA ListsChanged ==
  ASSUME NEW m \in Model, NEW L \in Seq(Playlist)
  PROVE  [m EXCEPT !.lists = L] \in Model
BY DEF Model

LEMMA AddPlaylistType ==
  ASSUME TypeOK, AddPlaylist
  PROVE  draft' \in Model
<1> DEFINE list == [pid |-> Head(spare), name |-> Head(todo).name, kind |-> "ordinary", members |-> <<>>]
<1>1. todo # <<>> /\ Head(todo).op = "add_playlist" /\ ~PidRefused /\ TakePid
  BY DEF AddPlaylist, Current, OperationRefused
<1>2. draft \in Model /\ draft.lists \in Seq(Playlist)
  BY DEF TypeOK, Model
<1>3. list \in Playlist
  <2>1. Head(spare) \in Wide /\ Head(todo).name \in Seq(Nat)
    BY <1>1, PidTaken, CurrentOperation, OperationFields
  <2> QED
    BY <2>1, EmptySeq DEF Playlist
<1>4. draft' = [draft EXCEPT !.lists = Append(draft.lists, list)]
  BY DEF AddPlaylist
<1> HIDE DEF list
<1>5. Append(draft.lists, list) \in Seq(Playlist)
  BY <1>2, <1>3, AppendProperties
<1> QED
  BY <1>2, <1>4, <1>5, ListsChanged

LEMMA OneListType ==
  ASSUME TypeOK, NEW pid, NEW i, i = ListAt(draft, pid), i # 0
  PROVE  /\ draft \in Model /\ draft.lists \in Seq(Playlist)
         /\ i \in 1 .. Len(draft.lists) /\ DOMAIN draft.lists = 1 .. Len(draft.lists)
         /\ draft.lists[i] \in Playlist /\ draft.lists[i].kind = "ordinary"
<1>1. draft \in Model /\ draft.lists \in Seq(Playlist)
  BY DEF TypeOK, Model
<1>2. Len(draft.lists) \in Nat /\ DOMAIN draft.lists = 1 .. Len(draft.lists)
  BY <1>1, LenProperties
<1>3. i \in 1 .. Len(draft.lists) /\ Ordinary(draft.lists[i])
  BY <1>1, <1>2, ListAtFound
<1> QED
  BY <1>1, <1>2, <1>3, ElementOfSeq DEF Ordinary

LEMMA RemovePlaylistType ==
  ASSUME TypeOK, RemovePlaylist
  PROVE  draft' \in Model
<1> DEFINE i == ListAt(draft, Head(todo).pid)
<1>1. i # 0
  BY DEF RemovePlaylist, Current, OperationRefused
<1>2. draft' = [draft EXCEPT !.lists = RemoveAt(draft.lists, i)]
  BY DEF RemovePlaylist
<1>3. draft \in Model /\ draft.lists \in Seq(Playlist) /\ i \in 1 .. Len(draft.lists)
  BY <1>1, OneListType
<1> HIDE DEF i
<1>4. RemoveAt(draft.lists, i) \in Seq(Playlist)
  BY <1>3, RemoveAtProperties
<1> QED
  BY <1>2, <1>3, <1>4, ListsChanged

LEMMA RenamePlaylistType ==
  ASSUME TypeOK, RenamePlaylist
  PROVE  draft' \in Model
<1> DEFINE i == ListAt(draft, Head(todo).pid)
           list == [draft.lists[i] EXCEPT !.name = Head(todo).name]
<1>1. todo # <<>> /\ Head(todo).op = "rename_playlist" /\ i # 0
  BY DEF RenamePlaylist, Current, OperationRefused
<1>2. draft' = [draft EXCEPT !.lists = [draft.lists EXCEPT ![i] = list]]
  BY DEF RenamePlaylist
<1>3. draft \in Model /\ draft.lists \in Seq(Playlist) /\ draft.lists[i] \in Playlist
  BY <1>1, OneListType
<1>4. Head(todo).name \in Seq(Nat)
  BY <1>1, CurrentOperation, OperationFields
<1>5. list \in Playlist
  BY <1>3, <1>4 DEF Playlist
<1> HIDE DEF i, list
<1>6. [draft.lists EXCEPT ![i] = list] \in Seq(Playlist)
  BY <1>3, <1>5, ReplacedType
<1> QED
  BY <1>2, <1>3, <1>6, ListsChanged

LEMMA ReplaceMembersType ==
  ASSUME TypeOK, ReplaceMembers
  PROVE  draft' \in Model
<1> DEFINE i == ListAt(draft, Head(todo).pid)
           members == Head(todo).members
           list == [draft.lists[i] EXCEPT !.members = members]
<1>1. /\ todo # <<>> /\ Head(todo).op = "replace_members" /\ i # 0
      /\ Range(members) \subseteq Range(TrackIds(draft)) \ {0}
  BY DEF ReplaceMembers, Current, OperationRefused
<1>2. draft' = [draft EXCEPT !.lists = [draft.lists EXCEPT ![i] = list]]
  BY DEF ReplaceMembers
<1>3. draft \in Model /\ draft.lists \in Seq(Playlist) /\ draft.lists[i] \in Playlist
  BY <1>1, OneListType
<1>4. members \in Seq(Cells)
  <2>1. members \in Seq(Nat)
    BY <1>1, CurrentOperation, OperationFields
  <2>2. Range(members) \subseteq Cells
    BY <1>1, <1>3, TrackIdsType
  <2> HIDE DEF members
  <2>3. Len(members) \in Nat /\ members \in [1 .. Len(members) -> Cells]
    BY <2>1, <2>2, LenProperties DEF Range
  <2> QED
    BY <2>3, FieldsAreCells
<1> HIDE DEF members
<1>5. list \in Playlist
  BY <1>3, <1>4 DEF Playlist
<1> HIDE DEF i, list
<1>6. [draft.lists EXCEPT ![i] = list] \in Seq(Playlist)
  BY <1>3, <1>5, ReplacedType
<1> QED
  BY <1>2, <1>3, <1>6, ListsChanged

LEMMA EmptyTypes ==
  /\ NoModel \in Model /\ NoDocument \in Documents /\ NotShown.model \in Model
  /\ <<>> \in Seq(Operations) /\ <<>> \in Seq(Wide)
<1>1. NoModel \in Model
  BY WideZero, EmptySeq DEF NoModel, Model
<1>2. NoDocument \in Documents
  BY <1>1, EmptySeq DEF NoDocument, Documents, Kinds, Signatures
<1> QED
  BY <1>1, <1>2, EmptySeq DEF NotShown

\* An operation of a plan changes the copy, and no more.
LEMMA EditTyping ==
  ASSUME Typing, \/ AddTrack \/ RemoveTrack \/ AddPlaylist
                 \/ RemovePlaylist \/ RenamePlaylist \/ ReplaceMembers
  PROVE  Typing'
<1>1. /\ phase = "editing" /\ todo # <<>> /\ todo' = Tail(todo)
      /\ UNCHANGED <<file, phase, doc, result, shown, edits, damages, written>>
  BY DEF AddTrack, RemoveTrack, AddPlaylist, RemovePlaylist, RenamePlaylist, ReplaceMembers, Current
<1>2. draft' \in Model
  BY AddTrackType, RemoveTrackType, AddPlaylistType, RemovePlaylistType, RenamePlaylistType,
     ReplaceMembersType DEF Typing
<1>3. todo' \in Seq(Operations)
  BY <1>1, CurrentOperation DEF Typing
<1>4. spare' \in Seq(Wide) /\ known' \subseteq Wide
  <2>1. CASE AddTrack
    BY <2>1, PidTaken DEF Typing, AddTrack, Current, OperationRefused
  <2>2. CASE AddPlaylist
    BY <2>2, PidTaken DEF Typing, AddPlaylist, Current, OperationRefused
  <2>3. CASE RemoveTrack \/ RemovePlaylist \/ RenamePlaylist \/ ReplaceMembers
    BY <2>3 DEF Typing, TypeOK, RemoveTrack, RemovePlaylist, RenamePlaylist, ReplaceMembers
  <2> QED
    BY <2>1, <2>2, <2>3
<1> QED
  BY <1>1, <1>2, <1>3, <1>4 DEF Typing, TypeOK, ReadsStayInside

LEMMA StopTyping ==
  ASSUME Typing, GiveUp \/ FinishEdit
  PROVE  Typing'
<1>1. PICK r \in {"refused", "none", "edited_invalid"} : StopEditing(r)
  BY DEF GiveUp, FinishEdit
<1>2. doc' \in Documents
  <2>1. CASE UNCHANGED doc
    BY <2>1 DEF Typing, TypeOK
  <2>2. CASE doc' = [doc EXCEPT !.model = draft, !.modified = TRUE]
    <3>1. doc \in Documents /\ draft \in Model
      BY DEF Typing, TypeOK
    <3> QED
      BY <2>2, <3>1 DEF Documents
  <2> QED
    BY <2>1, <2>2 DEF GiveUp, FinishEdit
<1>3. r \in Reported
  BY DEF Reported, Errors
<1> QED
  BY <1>1, <1>2, <1>3, EmptyTypes DEF StopEditing, Typing, TypeOK, ReadsStayInside, Reported

LEMMA OpenedTyping ==
  ASSUME Typing, phase = "closed", NEW r \in Readings, Opened(r), shown' = NotShown,
         UNCHANGED <<file, editVars, edits, damages, written>>
  PROVE  Typing'
<1>1. r.error \in Reported /\ (r.error = "none" => r.doc \in Documents)
  BY DEF Readings, Failures, Reported, Errors
<1>2. /\ result' \in Reported /\ doc' \in Documents /\ phase' \in {"closed", "open"}
      /\ phase' = "closed" => UNCHANGED doc
  BY <1>1 DEF Opened, Typing, TypeOK
<1> QED
  BY <1>2, EmptyTypes DEF Typing, TypeOK, ReadsStayInside, Reported, editVars

LEMMA SaveTyping ==
  ASSUME Typing, NEW k \in Kinds, NEW key \in {NoKey, Key}, NEW g \in Generations, Save(k, key, g)
  PROVE  Typing'
<1> DEFINE w == Write(doc, k, key, g.time)
<1>1. doc \in Documents /\ key \in Nat /\ g.time \in Cells
  BY DatabaseAssumption DEF Typing, TypeOK, NoKey
<1>2. w \in Outputs
  BY <1>1, WriteType
<1>3. phase = "open" /\ Saved(w) /\ UNCHANGED <<phase, doc, editVars, shown, edits, damages>>
  BY DEF Save
<1> HIDE DEF w
<1>4. w.error \in Reported /\ (w.error = "none" => w.out \in Seq(Cells))
  BY <1>2 DEF Outputs, Failures, Reported, Errors
<1>5. result' \in Reported /\ file' \in Seq(Cells) /\ written' \in BOOLEAN
  <2>1. CASE w.error = "none"
    <3>1. written \in BOOLEAN /\ doc.modified \in BOOLEAN
      BY DEF Typing, TypeOK, Documents
    <3> QED
      BY <1>3, <1>4, <2>1, <3>1 DEF Saved
  <2>2. CASE w.error # "none"
    BY <1>3, <1>4, <2>2 DEF Saved, Typing, TypeOK
  <2> QED
    BY <2>1, <2>2
<1> QED
  BY <1>3, <1>5 DEF Typing, TypeOK, ReadsStayInside, Reported, editVars

LEMMA StartTyping ==
  ASSUME Typing, NEW plan \in Plans, NEW g \in Generations, StartEdit(plan, g)
  PROVE  Typing'
<1>1. edits' \in 0 .. MaxEdits
  <2>1. edits' = edits + 1 /\ edits + damages < MaxEdits
    BY DEF StartEdit
  <2>2. edits \in Nat /\ damages \in Nat /\ MaxEdits \in Nat
    BY DatabaseAssumption DEF Typing, TypeOK
  <2> QED
    BY <2>1, <2>2
<1>2. CASE \E r \in {"invalid_document", "none", "profile_not_writable", "opaque_dependency"} : Answer(r)
  BY <1>1, <1>2 DEF StartEdit, Answer, editVars, Typing, TypeOK, ReadsStayInside, Errors
<1>3. CASE /\ phase' = "editing" /\ draft' = doc.model /\ todo' = plan
           /\ spare' = g.ids /\ known' = Pids(doc.model)
           /\ UNCHANGED <<file, doc, result, shown, damages, written>>
  <2>1. doc.model \in Model
    BY DEF Typing, TypeOK, Documents
  <2>2. Pids(doc.model) \subseteq Wide
    BY <2>1, PidsType
  <2>3. plan \in Seq(Operations) /\ g.ids \in Seq(Wide)
    BY DatabaseAssumption
  <2> QED
    BY <1>1, <1>3, <2>1, <2>2, <2>3 DEF Typing, TypeOK, ReadsStayInside
<1> QED
  BY <1>2, <1>3 DEF StartEdit

LEMMA InspectTyping ==
  ASSUME Typing, NEW c \in Candidates, Inspect(c)
  PROVE  Typing'
<1> DEFINE k == IF c.family = "signed" THEN "hash58" ELSE "preserve_only"
           parsed == Read(file, k, NoKey)
           verified == Read(file, k, c.key)
           verdict == IF Barred(c)[1] # "none" THEN Barred(c) ELSE Verdict(c, file, parsed, verified)
<1>1. shown' = Shown(c, verdict, parsed)
  BY DEF Inspect
<1>2. parsed \in Readings
  BY ReadingType DEF Typing, TypeOK, Kinds
<1>3. verdict[1] = "ready_read_only" => parsed.error = "none"
  <2>1. Barred(c)[1] # "ready_read_only"
    BY DEF Barred
  <2>2. \A v, checked : Judgement(parsed, v, checked)[1] = "ready_read_only" => parsed.error = "none"
    BY DEF Judgement
  <2>3. Verdict(c, file, parsed, verified)[1] = "ready_read_only" => parsed.error = "none"
    BY <2>2 DEF Verdict
  <2> QED
    BY <2>1, <2>3
<1> HIDE DEF parsed, verified, verdict
<1>4. verdict[1] = "ready_read_only" => parsed.doc.model \in Model
  BY <1>2, <1>3 DEF Readings, Failures, Documents
<1>5. shown'.model \in Model
  BY <1>1, <1>4, EmptyTypes DEF Shown
<1> QED
  BY <1>5 DEF Inspect, editVars, Typing, TypeOK, ReadsStayInside

LEMMA DamageTyping ==
  ASSUME Typing, Damage
  PROVE  Typing'
<1>1. file' \in Seq(Cells)
  <2>1. file \in Seq(Cells) /\ Len(file) \in Nat
    BY LenProperties DEF Typing, TypeOK
  <2>2. ASSUME NEW i \in DOMAIN file, NEW v \in Scribbles, file' = [file EXCEPT ![i] = v]
        PROVE  file' \in Seq(Cells)
    BY <2>1, <2>2, ReplacedType, DatabaseAssumption
  <2>3. ASSUME NEW n \in 0 .. Len(file) - 1, file' = SubSeq(file, 1, n)
        PROVE  file' \in Seq(Cells)
    <3>1. 1 \in Int /\ n \in Int /\ \A i \in 1 .. n : file[i] \in Cells
      BY <2>1, ElementOfSeq
    <3> QED
      BY <2>1, <2>3, <3>1, SubSeqProperties
  <2>4. ASSUME NEW v \in Scribbles, file' = Append(file, v)
        PROVE  file' \in Seq(Cells)
    BY <2>1, <2>4, AppendProperties, DatabaseAssumption
  <2> QED
    BY <2>2, <2>3, <2>4 DEF Damage
<1>2. damages' \in 0 .. MaxDamage
  BY DatabaseAssumption DEF Damage, Typing, TypeOK
<1> QED
  BY <1>1, <1>2, EmptyTypes DEF Damage, editVars, Typing, TypeOK, ReadsStayInside

LEMMA TypingStep == ASSUME Typing, [Next]_vars PROVE Typing'
<1>1. CASE EditStep
  BY <1>1, EditTyping, StopTyping DEF EditStep
<1>2. ASSUME NEW k \in Kinds, NEW key \in {NoKey, Key}, Open(k, key) PROVE Typing'
  <2>1. Read(file, k, key) \in Readings
    BY ReadingType DEF Typing, TypeOK
  <2> QED
    BY <1>2, <2>1, OpenedTyping DEF Open
<1>3. ASSUME NEW k \in Kinds, NEW key \in {NoKey, Key}, NEW g \in Generations, Create(k, key, g)
      PROVE  Typing'
  <2>1. key \in Nat
    BY DatabaseAssumption DEF NoKey
  <2>2. CreateEmpty(k, key, g.pid, g.master, g.name, g.time) \in Readings
    BY <2>1, CreateType, DatabaseAssumption
  <2> QED
    BY <1>3, <2>2, OpenedTyping DEF Create
<1>4. CASE Close
  BY <1>4, EmptyTypes DEF Close, editVars, Typing, TypeOK, ReadsStayInside, Errors
<1>5. CASE UNCHANGED vars
  BY <1>5 DEF vars, editVars, Typing, TypeOK, ReadsStayInside
<1> QED
  BY <1>1, <1>2, <1>3, <1>4, <1>5, SaveTyping, StartTyping, InspectTyping, DamageTyping DEF Next

LEMMA TypingInit == Init => Typing
<1> SUFFICES ASSUME Init PROVE Typing
  OBVIOUS
<1>1. file \in Seq(Cells)
  BY DatabaseAssumption DEF Init
<1>2. 0 \in 0 .. MaxEdits /\ 0 \in 0 .. MaxDamage
  BY DatabaseAssumption
<1> QED
  BY <1>1, <1>2, EmptyTypes DEF Init, Typing, TypeOK, ReadsStayInside, Errors

LEMMA TypingAlways == Spec => []Typing
<1> QED
  BY TypingInit, TypingStep, PTL DEF Spec

\* Everything the program holds of a database has its type: for every file,
\* damage, plan and player, whatever the writer generates consists of cells.
THEOREM EverythingIsTyped == Spec => []TypeOK
<1>1. Typing => TypeOK
  BY DEF Typing
<1> QED
  BY <1>1, TypingAlways, PTL

\* No reading of any file, however damaged, under any profile and any key, looks
\* at a byte outside of it; nor do the readings the writer makes of its own output.
THEOREM ReaderStaysInside == Spec => []ReadsStayInside
<1>1. Typing => ReadsStayInside
  BY DEF Typing
<1> QED
  BY <1>1, TypingAlways, PTL

-----------------------------------------------------------------------------
(* The model being edited is sound after every operation.                  *)

SoundModel(m) == ValidTracks(m) /\ m.master # <<>> /\ ValidMaster(m) /\ ValidLists(m)

\* The editor knows every identifier the model has or had.
DraftInv ==
  phase = "editing" => /\ SoundModel(draft)
                       /\ Pids(draft) \cup Pids(doc.model) \subseteq known \cup {0}

LEMMA Appended ==
  ASSUME NEW S, NEW s \in Seq(S), NEW e \in S
  PROVE  /\ Append(s, e) \in Seq(S) /\ Append(s, e)[Len(s) + 1] = e
         /\ DOMAIN s = 1 .. Len(s) /\ Len(s) \in Nat /\ Len(Append(s, e)) = Len(s) + 1
         /\ DOMAIN Append(s, e) = DOMAIN s \cup {Len(s) + 1} /\ Len(s) + 1 \notin DOMAIN s
         /\ \A i \in DOMAIN s : Append(s, e)[i] = s[i]
<1>1. /\ Append(s, e) \in Seq(S) /\ Len(Append(s, e)) = Len(s) + 1
      /\ Append(s, e)[Len(s) + 1] = e /\ \A i \in 1 .. Len(s) : Append(s, e)[i] = s[i]
  BY AppendProperties
<1>2. /\ Len(s) \in Nat /\ DOMAIN s = 1 .. Len(s)
      /\ DOMAIN Append(s, e) = 1 .. Len(Append(s, e))
  BY <1>1, LenProperties
<1>3. \A n \in Nat : 1 .. n + 1 = 1 .. n \cup {n + 1} /\ n + 1 \notin 1 .. n
  OBVIOUS
<1> QED
  BY <1>1, <1>2, <1>3

LEMMA AppendedDistinct ==
  ASSUME NEW S, NEW s \in Seq(S), NEW e \in S
  PROVE  /\ Range(Append(s, e)) = Range(s) \cup {e}
         /\ Distinct(s) /\ e \notin Range(s) => Distinct(Append(s, e))
<1> DEFINE longer == Append(s, e)
           n == Len(s) + 1
<1>1. /\ longer[n] = e /\ DOMAIN longer = DOMAIN s \cup {n} /\ n \notin DOMAIN s
      /\ \A i \in DOMAIN s : longer[i] = s[i]
  BY Appended
<1> HIDE DEF longer, n
<1>2. Range(longer) = Range(s) \cup {e}
  BY <1>1 DEF Range
<1>3. Distinct(s) /\ e \notin Range(s) => Distinct(longer)
  BY <1>1 DEF Range, Distinct
<1> QED
  BY <1>2, <1>3 DEF longer

\* Where the element at j comes from when the one at k is removed.
Origin(k, j) == IF j < k THEN j ELSE j + 1

LEMMA Removed ==
  ASSUME NEW S, NEW s \in Seq(S), NEW k \in 1 .. Len(s), NEW r, r = RemoveAt(s, k)
  PROVE  /\ r \in Seq(S) /\ Len(r) = Len(s) - 1
         /\ \A j \in DOMAIN r : Origin(k, j) \in DOMAIN s \ {k} /\ r[j] = s[Origin(k, j)]
         /\ \A i \in DOMAIN s \ {k} : \E j \in DOMAIN r : Origin(k, j) = i
         /\ \A i, j \in DOMAIN r : Origin(k, i) = Origin(k, j) => i = j
<1>1. /\ r \in Seq(S) /\ Len(r) = Len(s) - 1
      /\ \A j \in 1 .. Len(s) - 1 : r[j] = IF j < k THEN s[j] ELSE s[j + 1]
  BY RemoveAtProperties
<1>2. /\ DOMAIN r = 1 .. Len(s) - 1 /\ DOMAIN s = 1 .. Len(s) /\ Len(s) \in Nat
  BY <1>1, LenProperties
<1>3. \A j \in DOMAIN r : Origin(k, j) \in DOMAIN s \ {k}
  BY <1>2 DEF Origin
<1>4. \A j \in DOMAIN r : r[j] = s[Origin(k, j)]
  BY <1>1, <1>2 DEF Origin
<1>5. ASSUME NEW i \in DOMAIN s \ {k} PROVE \E j \in DOMAIN r : Origin(k, j) = i
  <2>1. CASE i < k
    <3>1. i \in DOMAIN r /\ Origin(k, i) = i
      BY <1>2, <2>1 DEF Origin
    <3> QED
      BY <3>1
  <2>2. CASE ~(i < k)
    <3>1. i - 1 \in DOMAIN r /\ Origin(k, i - 1) = i
      BY <1>2, <2>2 DEF Origin
    <3> QED
      BY <3>1
  <2> QED
    BY <2>1, <2>2
<1>6. \A i, j \in DOMAIN r : Origin(k, i) = Origin(k, j) => i = j
  BY <1>2 DEF Origin
<1> QED
  BY <1>1, <1>3, <1>4, <1>5, <1>6

\* What the validator asks of the tracks, in terms of their fields.
TracksDiffer(T) ==
  /\ \A i, j \in DOMAIN T : T[i].id = T[j].id => i = j
  /\ \A i \in DOMAIN T : T[i].id # 0
  /\ \A i, j \in DOMAIN T : T[i].pid = T[j].pid /\ T[i].pid # 0 => i = j
IdsOf(T) == {T[i].id : i \in DOMAIN T}

ListFits(p, masterPid, ids) ==
  /\ p.kind # "master" /\ p.pid \notin {0, masterPid}
  /\ p.kind = "ordinary" => Range(p.members) \subseteq ids
ListsFit(L, masterPid, ids) ==
  /\ \A i \in DOMAIN L : ListFits(L[i], masterPid, ids)
  /\ \A i, j \in DOMAIN L : L[i].pid = L[j].pid => i = j

LEMMA Soundness ==
  ASSUME NEW m \in Model
  PROVE  SoundModel(m) <=>
           /\ TracksDiffer(m.tracks) /\ m.master # <<>>
           /\ Distinct(m.master[1].members) /\ Range(m.master[1].members) = IdsOf(m.tracks)
           /\ ListsFit(m.lists, m.master[1].pid, IdsOf(m.tracks))
<1>1. /\ DOMAIN TrackIds(m) = DOMAIN m.tracks
      /\ \A i \in DOMAIN m.tracks : TrackIds(m)[i] = m.tracks[i].id
  BY DEF TrackIds
<1>2. Range(TrackIds(m)) = IdsOf(m.tracks)
  BY <1>1 DEF Range, IdsOf
<1>3. 0 \notin IdsOf(m.tracks) <=> \A i \in DOMAIN m.tracks : m.tracks[i].id # 0
  BY DEF IdsOf
<1>4. ValidTracks(m) <=> TracksDiffer(m.tracks)
  BY <1>1, <1>2, <1>3 DEF ValidTracks, TracksDiffer, Distinct
<1>5. ValidLists(m) <=> ListsFit(m.lists, m.master[1].pid, IdsOf(m.tracks))
  BY <1>2 DEF ValidLists, ListsFit, ListFits
<1> QED
  BY <1>2, <1>4, <1>5 DEF SoundModel, ValidMaster

\* The fields of a model whose tracks, members of the master and playlists change.
Changed(m, T, M, L) == [m EXCEPT !.tracks = T, !.master[1].members = M, !.lists = L]

LEMMA ChangedFields ==
  ASSUME NEW m \in Model, m.master # <<>>, NEW T, NEW M, NEW L, NEW new, new = Changed(m, T, M, L)
  PROVE  /\ new.pid = m.pid /\ new.tracks = T /\ new.lists = L
         /\ DOMAIN new.master = DOMAIN m.master
         /\ \A i \in DOMAIN m.master : new.master[i].pid = m.master[i].pid
         /\ new.master # <<>> /\ new.master[1].members = M
         /\ new.master[1].pid = m.master[1].pid /\ new.master[1].name = m.master[1].name
<1> DEFINE master == [m.master EXCEPT ![1] = [m.master[1] EXCEPT !.members = M]]
<1>1. m.master \in Seq(Playlist)
  BY DEF Model
<1>2. 1 \in DOMAIN m.master /\ \A i \in DOMAIN m.master : m.master[i] \in Playlist
  BY <1>1, EmptySeq
<1>3. new.pid = m.pid /\ new.tracks = T /\ new.lists = L /\ new.master = master
  BY DEF Model, Changed
<1>4. /\ DOMAIN master = DOMAIN m.master /\ master[1].members = M
      /\ master[1].name = m.master[1].name
      /\ \A i \in DOMAIN m.master : master[i].pid = m.master[i].pid
  BY <1>2 DEF Playlist
<1> HIDE DEF master
<1>5. 1 \in DOMAIN master
  BY <1>2, <1>4
<1>6. master # <<>>
  BY <1>5
<1> QED
  BY <1>2, <1>3, <1>4, <1>6

LEMMA TrackAdded ==
  ASSUME NEW T \in Seq(Track), NEW t \in Track, TracksDiffer(T), t.id # 0,
         \A i \in DOMAIN T : T[i].id # t.id /\ T[i].pid # t.pid
  PROVE  TracksDiffer(Append(T, t)) /\ IdsOf(Append(T, t)) = IdsOf(T) \cup {t.id}
<1> DEFINE longer == Append(T, t)
           n == Len(T) + 1
<1>1. /\ longer[n] = t /\ DOMAIN longer = DOMAIN T \cup {n} /\ n \notin DOMAIN T
      /\ \A i \in DOMAIN T : longer[i] = T[i]
  BY Appended
<1> HIDE DEF longer, n
<1>2. IdsOf(longer) = IdsOf(T) \cup {t.id}
  BY <1>1 DEF IdsOf
<1>3. TracksDiffer(longer)
  <2>1. \A i, j \in DOMAIN longer : longer[i].id = longer[j].id => i = j
    BY <1>1 DEF TracksDiffer
  <2>2. \A i \in DOMAIN longer : longer[i].id # 0
    BY <1>1 DEF TracksDiffer
  <2>3. \A i, j \in DOMAIN longer : longer[i].pid = longer[j].pid /\ longer[i].pid # 0 => i = j
    BY <1>1 DEF TracksDiffer
  <2> QED
    BY <2>1, <2>2, <2>3 DEF TracksDiffer
<1> QED
  BY <1>2, <1>3 DEF longer

LEMMA TrackRemoved ==
  ASSUME NEW T \in Seq(Track), TracksDiffer(T), NEW k \in 1 .. Len(T)
  PROVE  /\ TracksDiffer(RemoveAt(T, k)) /\ IdsOf(RemoveAt(T, k)) = IdsOf(T) \ {T[k].id}
         /\ {RemoveAt(T, k)[i].pid : i \in DOMAIN RemoveAt(T, k)} \subseteq {T[i].pid : i \in DOMAIN T}
<1> DEFINE r == RemoveAt(T, k)
<1>1. /\ \A j \in DOMAIN r : Origin(k, j) \in DOMAIN T \ {k} /\ r[j] = T[Origin(k, j)]
      /\ \A i \in DOMAIN T \ {k} : \E j \in DOMAIN r : Origin(k, j) = i
      /\ \A i, j \in DOMAIN r : Origin(k, i) = Origin(k, j) => i = j
  BY Removed
<1>2. k \in DOMAIN T
  BY LenProperties
<1> HIDE DEF r
<1>3. TracksDiffer(r)
  <2>1. \A i, j \in DOMAIN r : r[i].id = r[j].id => i = j
    BY <1>1 DEF TracksDiffer
  <2>2. \A i \in DOMAIN r : r[i].id # 0
    BY <1>1 DEF TracksDiffer
  <2>3. \A i, j \in DOMAIN r : r[i].pid = r[j].pid /\ r[i].pid # 0 => i = j
    BY <1>1 DEF TracksDiffer
  <2> QED
    BY <2>1, <2>2, <2>3 DEF TracksDiffer
<1>4. IdsOf(r) = IdsOf(T) \ {T[k].id}
  <2>1. \A j \in DOMAIN r : r[j].id \in IdsOf(T) \ {T[k].id}
    BY <1>1, <1>2 DEF TracksDiffer, IdsOf
  <2>2. \A i \in DOMAIN T : T[i].id # T[k].id => T[i].id \in IdsOf(r)
    <3> SUFFICES ASSUME NEW i \in DOMAIN T, T[i].id # T[k].id PROVE T[i].id \in IdsOf(r)
      OBVIOUS
    <3>1. PICK j \in DOMAIN r : Origin(k, j) = i
      BY <1>1
    <3> QED
      BY <1>1, <3>1 DEF IdsOf
  <2> QED
    BY <2>1, <2>2 DEF IdsOf
<1>5. {r[i].pid : i \in DOMAIN r} \subseteq {T[i].pid : i \in DOMAIN T}
  BY <1>1
<1> QED
  BY <1>3, <1>4, <1>5 DEF r

LEMMA AddTrackSound ==
  ASSUME TypeOK, DraftInv, AddTrack
  PROVE  /\ SoundModel(draft') /\ Pids(draft') \subseteq known' \cup {0}
         /\ draft'.tracks[Len(draft'.tracks)].pid \notin known \cup {0}
         /\ draft'.lists = draft.lists
<1> DEFINE id == (MaxId(draft) + 1) % Width
           track == [id |-> id, pid |-> Head(spare), text |-> Head(todo).text]
           members == Append(draft.master[1].members, id)
           tracks == Append(draft.tracks, track)
<1>1. /\ todo # <<>> /\ Head(todo).op = "add_track" /\ ~IdsExhausted(draft) /\ ~PidRefused
      /\ TakePid /\ phase = "editing"
  BY DEF AddTrack, Current, OperationRefused
<1>2. draft \in Model /\ draft' \in Model
  BY AddTrackType DEF TypeOK
<1>3. /\ TracksDiffer(draft.tracks) /\ draft.master # <<>>
      /\ Distinct(draft.master[1].members) /\ Range(draft.master[1].members) = IdsOf(draft.tracks)
      /\ ListsFit(draft.lists, draft.master[1].pid, IdsOf(draft.tracks))
      /\ Pids(draft) \subseteq known \cup {0}
  BY <1>1, <1>2, Soundness DEF DraftInv
<1>4. /\ Head(spare) \in Wide /\ Head(spare) \notin known \cup {0}
      /\ known' = known \cup {Head(spare)}
  BY <1>1, PidTaken
<1>5. id \in Cells /\ id # 0 /\ \A i \in DOMAIN draft.tracks : draft.tracks[i].id # id
  BY <1>1, <1>2, NextIdNew
<1> HIDE DEF id
<1>6. Head(todo).text \in TextOf
  BY <1>1, CurrentOperation, OperationFields
<1>7. track \in Track /\ track.id = id /\ track.pid = Head(spare)
  BY <1>4, <1>5, <1>6 DEF Track
<1>8. draft.tracks \in Seq(Track) /\ draft.master \in Seq(Playlist) /\ draft.lists \in Seq(Playlist)
  BY <1>2 DEF Model
<1>9. draft' = [draft EXCEPT !.tracks = tracks, !.master[1].members = members]
  BY DEF AddTrack, id
<1>10. draft' = [draft EXCEPT !.tracks = tracks, !.master[1].members = members, !.lists = draft.lists]
  BY <1>2, <1>9 DEF Model
<1> HIDE DEF track
<1>11. \A i \in DOMAIN draft.tracks : draft.tracks[i].pid # Head(spare)
  BY <1>3, <1>4 DEF Pids
<1>12. TracksDiffer(tracks) /\ IdsOf(tracks) = IdsOf(draft.tracks) \cup {id}
  BY <1>3, <1>5, <1>7, <1>8, <1>11, TrackAdded
<1>13. Distinct(members) /\ Range(members) = IdsOf(tracks)
  <2>1. draft.master[1] \in Playlist
    BY <1>3, <1>8, EmptySeq
  <2>2. draft.master[1].members \in Seq(Cells)
    BY <2>1 DEF Playlist
  <2>3. id \notin IdsOf(draft.tracks)
    BY <1>5 DEF IdsOf
  <2> QED
    BY <1>3, <1>5, <1>12, <2>2, <2>3, AppendedDistinct
<1>14. /\ tracks[Len(tracks)] = track /\ DOMAIN tracks = DOMAIN draft.tracks \cup {Len(tracks)}
       /\ \A i \in DOMAIN draft.tracks : tracks[i] = draft.tracks[i]
  BY <1>7, <1>8, Appended
<1> HIDE DEF tracks, members
<1>15. /\ draft'.pid = draft.pid /\ draft'.tracks = tracks /\ draft'.lists = draft.lists
       /\ DOMAIN draft'.master = DOMAIN draft.master
       /\ \A i \in DOMAIN draft.master : draft'.master[i].pid = draft.master[i].pid
       /\ draft'.master # <<>> /\ draft'.master[1].members = members
       /\ draft'.master[1].pid = draft.master[1].pid
  <2>1. draft' = Changed(draft, tracks, members, draft.lists)
    BY <1>10 DEF Changed
  <2> QED
    BY <1>2, <1>3, <2>1, ChangedFields
<1>16. ListsFit(draft.lists, draft.master[1].pid, IdsOf(tracks))
  BY <1>3, <1>12 DEF ListsFit, ListFits
<1>17. SoundModel(draft')
  <2> SUFFICES /\ TracksDiffer(draft'.tracks) /\ draft'.master # <<>>
               /\ Distinct(draft'.master[1].members)
               /\ Range(draft'.master[1].members) = IdsOf(draft'.tracks)
               /\ ListsFit(draft'.lists, draft'.master[1].pid, IdsOf(draft'.tracks))
    BY <1>2, Soundness
  <2> QED
    BY <1>12, <1>13, <1>15, <1>16
<1>18. Pids(draft') \subseteq Pids(draft) \cup {Head(spare)}
  <2>1. {tracks[i].pid : i \in DOMAIN tracks}
          \subseteq {draft.tracks[i].pid : i \in DOMAIN draft.tracks} \cup {Head(spare)}
    BY <1>7, <1>14
  <2>2. {draft'.master[i].pid : i \in DOMAIN draft'.master}
          \subseteq {draft.master[i].pid : i \in DOMAIN draft.master}
    BY <1>15
  <2>3. draft'.lists = draft.lists /\ draft'.pid = draft.pid
    BY <1>15
  <2>4. draft'.tracks = tracks
    BY <1>15
  <2> QED
    BY <2>1, <2>2, <2>3, <2>4 DEF Pids
<1> QED
  BY <1>3, <1>4, <1>7, <1>14, <1>15, <1>17, <1>18

LEMMA RemoveTrackSound ==
  ASSUME TypeOK, DraftInv, RemoveTrack
  PROVE  /\ SoundModel(draft') /\ Pids(draft') \subseteq known' \cup {0}
         /\ Len(draft'.tracks) <= Len(draft.tracks) /\ Len(draft'.lists) <= Len(draft.lists)
<1> DEFINE id == Head(todo).id
           k == TrackAt(draft, id)
           tracks == RemoveAt(draft.tracks, k)
           members == Without(draft.master[1].members, id)
           lists == Purged(draft.lists, id)
<1>1. phase = "editing" /\ k # 0
  BY DEF RemoveTrack, Current, OperationRefused
<1>2. draft \in Model /\ draft' \in Model
  BY RemoveTrackType DEF TypeOK
<1>3. /\ TracksDiffer(draft.tracks) /\ draft.master # <<>>
      /\ Distinct(draft.master[1].members) /\ Range(draft.master[1].members) = IdsOf(draft.tracks)
      /\ ListsFit(draft.lists, draft.master[1].pid, IdsOf(draft.tracks))
      /\ Pids(draft) \subseteq known \cup {0}
  BY <1>1, <1>2, Soundness DEF DraftInv
<1>4. draft.tracks \in Seq(Track) /\ draft.master \in Seq(Playlist) /\ draft.lists \in Seq(Playlist)
  BY <1>2 DEF Model
<1>5. k \in 1 .. Len(draft.tracks) /\ draft.tracks[k].id = id
  BY <1>1, <1>2, <1>4, TrackAtFound, LenProperties
<1>6. draft' = Changed(draft, tracks, members, lists) /\ known' = known
  BY DEF RemoveTrack, Changed
<1> HIDE DEF k, id
<1>7. /\ TracksDiffer(tracks) /\ IdsOf(tracks) = IdsOf(draft.tracks) \ {id}
      /\ {tracks[i].pid : i \in DOMAIN tracks} \subseteq {draft.tracks[i].pid : i \in DOMAIN draft.tracks}
  BY <1>3, <1>4, <1>5, TrackRemoved
<1>8. Len(tracks) <= Len(draft.tracks)
  <2>1. Len(tracks) = Len(draft.tracks) - 1 /\ Len(draft.tracks) \in Nat
    BY <1>4, <1>5, RemoveAtProperties, LenProperties
  <2> QED
    BY <2>1
<1>9. Distinct(members) /\ Range(members) = IdsOf(tracks)
  <2>1. draft.master[1] \in Playlist
    BY <1>3, <1>4, EmptySeq
  <2>2. draft.master[1].members \in Seq(Cells)
    BY <2>1 DEF Playlist
  <2> QED
    BY <1>3, <1>7, <2>2, WithoutProperties
<1>10. /\ DOMAIN lists = DOMAIN draft.lists
       /\ \A i \in DOMAIN draft.lists :
            /\ lists[i].kind = draft.lists[i].kind /\ lists[i].pid = draft.lists[i].pid
            /\ Ordinary(draft.lists[i]) => Range(lists[i].members) = Range(draft.lists[i].members) \ {id}
  <2>1. ASSUME NEW i \in DOMAIN draft.lists
        PROVE  /\ lists[i].kind = draft.lists[i].kind /\ lists[i].pid = draft.lists[i].pid
               /\ Ordinary(draft.lists[i]) =>
                    Range(lists[i].members) = Range(draft.lists[i].members) \ {id}
    <3>1. draft.lists[i] \in Playlist
      BY <1>4
    <3>2. draft.lists[i].members \in Seq(Cells)
      BY <3>1 DEF Playlist
    <3>3. lists[i] = IF Ordinary(draft.lists[i])
                     THEN [draft.lists[i] EXCEPT !.members = Without(draft.lists[i].members, id)]
                     ELSE draft.lists[i]
      BY DEF Purged
    <3>4. Range(Without(draft.lists[i].members, id)) = Range(draft.lists[i].members) \ {id}
      BY <3>2, WithoutProperties
    <3> HIDE DEF lists
    <3> QED
      BY <3>1, <3>3, <3>4 DEF Playlist
  <2>2. DOMAIN lists = DOMAIN draft.lists
    BY DEF Purged
  <2> QED
    BY <2>1, <2>2
<1>11. lists \in Seq(Playlist) /\ Len(lists) = Len(draft.lists)
  <2>1. lists \in Seq(Playlist)
    BY <1>4, PurgedType
  <2>2. 1 .. Len(lists) = 1 .. Len(draft.lists) /\ Len(lists) \in Nat /\ Len(draft.lists) \in Nat
    BY <1>4, <1>10, <2>1, LenProperties
  <2> HIDE DEF lists
  <2>3. Len(lists) = Len(draft.lists)
    BY <2>2
  <2> QED
    BY <2>1, <2>3
<1> HIDE DEF tracks, members, lists
<1>12. /\ draft'.pid = draft.pid /\ draft'.tracks = tracks /\ draft'.lists = lists
       /\ DOMAIN draft'.master = DOMAIN draft.master
       /\ \A i \in DOMAIN draft.master : draft'.master[i].pid = draft.master[i].pid
       /\ draft'.master # <<>> /\ draft'.master[1].members = members
       /\ draft'.master[1].pid = draft.master[1].pid
  BY <1>2, <1>3, <1>6, ChangedFields
<1>13. ListsFit(lists, draft.master[1].pid, IdsOf(tracks))
  <2>1. ASSUME NEW i \in DOMAIN lists
        PROVE  ListFits(lists[i], draft.master[1].pid, IdsOf(tracks))
    BY <1>3, <1>7, <1>10 DEF ListsFit, ListFits, Ordinary
  <2> QED
    BY <1>3, <1>10, <2>1 DEF ListsFit
<1>14. SoundModel(draft')
  <2> SUFFICES /\ TracksDiffer(draft'.tracks) /\ draft'.master # <<>>
               /\ Distinct(draft'.master[1].members)
               /\ Range(draft'.master[1].members) = IdsOf(draft'.tracks)
               /\ ListsFit(draft'.lists, draft'.master[1].pid, IdsOf(draft'.tracks))
    BY <1>2, Soundness
  <2> QED
    BY <1>7, <1>9, <1>12, <1>13
<1>15. Pids(draft') \subseteq Pids(draft)
  <2>1. {draft'.master[i].pid : i \in DOMAIN draft'.master}
          \subseteq {draft.master[i].pid : i \in DOMAIN draft.master}
    BY <1>12
  <2>2. {lists[i].pid : i \in DOMAIN lists} \subseteq {draft.lists[i].pid : i \in DOMAIN draft.lists}
    BY <1>10
  <2>3. {tracks[i].pid : i \in DOMAIN tracks}
          \subseteq {draft.tracks[i].pid : i \in DOMAIN draft.tracks}
    BY <1>7
  <2>4. draft'.tracks = tracks /\ draft'.lists = lists /\ draft'.pid = draft.pid
    BY <1>12
  <2> QED
    BY <2>1, <2>2, <2>3, <2>4 DEF Pids
<1>16. Len(draft.lists) <= Len(draft.lists)
  BY <1>4, LenProperties
<1> QED
  BY <1>3, <1>6, <1>8, <1>11, <1>12, <1>14, <1>15, <1>16

\* An operation on the playlists alone.
Relisted(m, L) == [m EXCEPT !.lists = L]

LEMMA RelistedSound ==
  ASSUME NEW m \in Model, SoundModel(m), NEW L \in Seq(Playlist),
         ListsFit(L, m.master[1].pid, IdsOf(m.tracks)), NEW new, new = Relisted(m, L)
  PROVE  /\ SoundModel(new) /\ new.tracks = m.tracks /\ new.lists = L
         /\ Pids(new) \subseteq Pids(m) \cup {L[i].pid : i \in DOMAIN L}
<1>1. new \in Model
  BY DEF Model, Relisted
<1>2. new.pid = m.pid /\ new.tracks = m.tracks /\ new.lists = L /\ new.master = m.master
  BY DEF Model, Relisted
<1>3. SoundModel(new)
  BY <1>1, <1>2, Soundness
<1>4. Pids(new) \subseteq Pids(m) \cup {L[i].pid : i \in DOMAIN L}
  BY <1>2 DEF Pids
<1> QED
  BY <1>2, <1>3, <1>4

LEMMA AddPlaylistSound ==
  ASSUME TypeOK, DraftInv, AddPlaylist
  PROVE  /\ SoundModel(draft') /\ Pids(draft') \subseteq known' \cup {0}
         /\ draft'.tracks = draft.tracks
         /\ draft'.lists[Len(draft'.lists)].pid \notin known \cup {0}
<1> DEFINE list == [pid |-> Head(spare), name |-> Head(todo).name, kind |-> "ordinary", members |-> <<>>]
           L == Append(draft.lists, list)
           n == Len(draft.lists) + 1
<1>1. todo # <<>> /\ Head(todo).op = "add_playlist" /\ ~PidRefused /\ TakePid /\ phase = "editing"
  BY DEF AddPlaylist, Current, OperationRefused
<1>2. draft \in Model /\ draft.lists \in Seq(Playlist)
  BY DEF TypeOK, Model
<1>3. /\ SoundModel(draft) /\ draft.master # <<>> /\ Pids(draft) \subseteq known \cup {0}
      /\ ListsFit(draft.lists, draft.master[1].pid, IdsOf(draft.tracks))
  BY <1>1, <1>2, Soundness DEF DraftInv
<1>4. /\ Head(spare) \in Wide /\ Head(spare) \notin known \cup {0}
      /\ known' = known \cup {Head(spare)}
  BY <1>1, PidTaken
<1>5. Head(todo).name \in Seq(Nat)
  BY <1>1, CurrentOperation, OperationFields
<1>6. /\ list \in Playlist /\ list.pid = Head(spare) /\ list.kind = "ordinary"
      /\ Range(list.members) = {}
  BY <1>4, <1>5, EmptySeq DEF Playlist, Range
<1>7. draft' = Relisted(draft, L)
  BY DEF AddPlaylist, Relisted
<1> HIDE DEF list
<1>8. /\ L \in Seq(Playlist) /\ L[n] = list /\ DOMAIN L = DOMAIN draft.lists \cup {n}
      /\ n \notin DOMAIN draft.lists /\ \A i \in DOMAIN draft.lists : L[i] = draft.lists[i]
      /\ Len(L) = n
  BY <1>2, <1>6, Appended
<1> HIDE DEF L, n
<1>9. 1 \in DOMAIN draft.master
  BY <1>2, <1>3, EmptySeq DEF Model
<1>10. Head(spare) # draft.master[1].pid /\ \A i \in DOMAIN draft.lists : draft.lists[i].pid # Head(spare)
  BY <1>3, <1>4, <1>9 DEF Pids
<1>11. ListsFit(L, draft.master[1].pid, IdsOf(draft.tracks))
  <2>1. ListFits(list, draft.master[1].pid, IdsOf(draft.tracks))
    BY <1>4, <1>6, <1>10 DEF ListFits
  <2>2. \A i \in DOMAIN L : ListFits(L[i], draft.master[1].pid, IdsOf(draft.tracks))
    BY <1>3, <1>8, <2>1 DEF ListsFit
  <2>3. \A i, j \in DOMAIN L : L[i].pid = L[j].pid => i = j
    BY <1>3, <1>6, <1>8, <1>10 DEF ListsFit
  <2> QED
    BY <2>2, <2>3 DEF ListsFit
<1>12. /\ SoundModel(draft') /\ draft'.tracks = draft.tracks /\ draft'.lists = L
       /\ Pids(draft') \subseteq Pids(draft) \cup {L[i].pid : i \in DOMAIN L}
  BY <1>2, <1>3, <1>7, <1>8, <1>11, RelistedSound
<1>13. {L[i].pid : i \in DOMAIN L} \subseteq Pids(draft) \cup {Head(spare)}
  BY <1>6, <1>8 DEF Pids
<1> QED
  BY <1>3, <1>4, <1>6, <1>8, <1>12, <1>13

LEMMA RemovePlaylistSound ==
  ASSUME TypeOK, DraftInv, RemovePlaylist
  PROVE  /\ SoundModel(draft') /\ Pids(draft') \subseteq known' \cup {0}
         /\ draft'.tracks = draft.tracks /\ Len(draft'.lists) <= Len(draft.lists)
<1> DEFINE k == ListAt(draft, Head(todo).pid)
           L == RemoveAt(draft.lists, k)
<1>1. k # 0 /\ phase = "editing"
  BY DEF RemovePlaylist, Current, OperationRefused
<1>2. draft' = Relisted(draft, L) /\ known' = known
  BY DEF RemovePlaylist, Relisted
<1>3. draft \in Model /\ draft.lists \in Seq(Playlist) /\ k \in 1 .. Len(draft.lists)
  BY <1>1, OneListType
<1>4. /\ SoundModel(draft) /\ Pids(draft) \subseteq known \cup {0}
      /\ ListsFit(draft.lists, draft.master[1].pid, IdsOf(draft.tracks))
  BY <1>1, <1>3, Soundness DEF DraftInv
<1> HIDE DEF k
<1>5. /\ L \in Seq(Playlist) /\ Len(L) = Len(draft.lists) - 1
      /\ \A j \in DOMAIN L : Origin(k, j) \in DOMAIN draft.lists \ {k} /\ L[j] = draft.lists[Origin(k, j)]
      /\ \A i, j \in DOMAIN L : Origin(k, i) = Origin(k, j) => i = j
  BY <1>3, Removed
<1> HIDE DEF L
<1>6. ListsFit(L, draft.master[1].pid, IdsOf(draft.tracks))
  <2>1. \A i \in DOMAIN L : ListFits(L[i], draft.master[1].pid, IdsOf(draft.tracks))
    BY <1>4, <1>5 DEF ListsFit
  <2>2. \A i, j \in DOMAIN L : L[i].pid = L[j].pid => i = j
    BY <1>4, <1>5 DEF ListsFit
  <2> QED
    BY <2>1, <2>2 DEF ListsFit
<1>7. /\ SoundModel(draft') /\ draft'.tracks = draft.tracks /\ draft'.lists = L
      /\ Pids(draft') \subseteq Pids(draft) \cup {L[i].pid : i \in DOMAIN L}
  BY <1>2, <1>3, <1>4, <1>5, <1>6, RelistedSound
<1>8. {L[i].pid : i \in DOMAIN L} \subseteq Pids(draft)
  BY <1>5 DEF Pids
<1>9. Len(L) <= Len(draft.lists)
  BY <1>3, <1>5, LenProperties
<1> QED
  BY <1>2, <1>4, <1>7, <1>8, <1>9

\* One ordinary playlist is changed, and stays itself.
LEMMA OneListSound ==
  ASSUME NEW m \in Model, SoundModel(m), NEW k \in DOMAIN m.lists, NEW p \in Playlist,
         p.pid = m.lists[k].pid, p.kind = "ordinary", m.lists[k].kind = "ordinary",
         Range(p.members) \subseteq IdsOf(m.tracks),
         NEW new, new = Relisted(m, [m.lists EXCEPT ![k] = p])
  PROVE  /\ SoundModel(new) /\ new.tracks = m.tracks /\ Len(new.lists) = Len(m.lists)
         /\ Pids(new) \subseteq Pids(m)
<1> DEFINE L == [m.lists EXCEPT ![k] = p]
<1>1. m.lists \in Seq(Playlist)
  BY DEF Model
<1>2. /\ L \in Seq(Playlist) /\ DOMAIN L = DOMAIN m.lists /\ L[k] = p
      /\ \A i \in DOMAIN m.lists : i # k => L[i] = m.lists[i]
  BY <1>1, ReplacedType
<1> HIDE DEF L
<1>3. ListsFit(m.lists, m.master[1].pid, IdsOf(m.tracks))
  BY Soundness
<1>4. ListsFit(L, m.master[1].pid, IdsOf(m.tracks))
  <2>1. ListFits(p, m.master[1].pid, IdsOf(m.tracks))
    BY <1>3 DEF ListsFit, ListFits
  <2>2. \A i \in DOMAIN L : ListFits(L[i], m.master[1].pid, IdsOf(m.tracks))
    BY <1>2, <1>3, <2>1 DEF ListsFit
  <2>3. \A i, j \in DOMAIN L : L[i].pid = L[j].pid => i = j
    BY <1>2, <1>3 DEF ListsFit
  <2> QED
    BY <2>2, <2>3 DEF ListsFit
<1>5. new = Relisted(m, L)
  BY DEF L
<1>6. /\ SoundModel(new) /\ new.tracks = m.tracks /\ new.lists = L
      /\ Pids(new) \subseteq Pids(m) \cup {L[i].pid : i \in DOMAIN L}
  BY <1>2, <1>4, <1>5, RelistedSound
<1>7. {L[i].pid : i \in DOMAIN L} \subseteq Pids(m)
  BY <1>2 DEF Pids
<1>8. Len(L) = Len(m.lists)
  <2>1. 1 .. Len(L) = 1 .. Len(m.lists) /\ Len(L) \in Nat /\ Len(m.lists) \in Nat
    BY <1>1, <1>2, LenProperties
  <2> QED
    BY <2>1
<1> QED
  BY <1>6, <1>7, <1>8

LEMMA ChangePlaylistSound ==
  ASSUME TypeOK, DraftInv, RenamePlaylist \/ ReplaceMembers
  PROVE  /\ SoundModel(draft') /\ Pids(draft') \subseteq known' \cup {0}
         /\ draft'.tracks = draft.tracks /\ Len(draft'.lists) = Len(draft.lists)
<1> DEFINE k == ListAt(draft, Head(todo).pid)
           list == draft.lists[k]
           renamed == [list EXCEPT !.name = Head(todo).name]
           refilled == [list EXCEPT !.members = Head(todo).members]
<1>1. k # 0 /\ phase = "editing" /\ todo # <<>> /\ known' = known
  BY DEF RenamePlaylist, ReplaceMembers, Current, OperationRefused
<1>2. /\ draft \in Model /\ draft.lists \in Seq(Playlist) /\ k \in DOMAIN draft.lists
      /\ list \in Playlist /\ list.kind = "ordinary"
  BY <1>1, OneListType
<1>3. /\ SoundModel(draft) /\ Pids(draft) \subseteq known \cup {0}
      /\ ListsFit(draft.lists, draft.master[1].pid, IdsOf(draft.tracks))
  BY <1>1, <1>2, Soundness DEF DraftInv
<1>4. draft' \in Model
  BY RenamePlaylistType, ReplaceMembersType
<1>5. CASE RenamePlaylist
  <2>1. draft' = Relisted(draft, [draft.lists EXCEPT ![k] = renamed])
    BY <1>5 DEF RenamePlaylist, Relisted
  <2>2. Head(todo).op = "rename_playlist"
    BY <1>5 DEF RenamePlaylist, Current
  <2>3. Head(todo).name \in Seq(Nat)
    BY <1>1, <2>2, CurrentOperation, OperationFields
  <2> HIDE DEF k
  <2>4. /\ renamed \in Playlist /\ renamed.pid = draft.lists[k].pid /\ renamed.kind = "ordinary"
        /\ renamed.members = draft.lists[k].members
    BY <1>2, <2>3 DEF Playlist
  <2> HIDE DEF renamed
  <2>5. Range(renamed.members) \subseteq IdsOf(draft.tracks)
    BY <1>2, <1>3, <2>4 DEF ListsFit, ListFits
  <2> QED
    BY <1>1, <1>2, <1>3, <2>1, <2>4, <2>5, OneListSound
<1>6. CASE ReplaceMembers
  <2>1. draft' = Relisted(draft, [draft.lists EXCEPT ![k] = refilled])
    BY <1>6 DEF ReplaceMembers, Relisted
  <2>2. /\ Head(todo).op = "replace_members"
        /\ Range(Head(todo).members) \subseteq Range(TrackIds(draft)) \ {0}
    BY <1>6 DEF ReplaceMembers, Current, OperationRefused
  <2>3. Range(TrackIds(draft)) = IdsOf(draft.tracks)
    BY DEF TrackIds, Range, IdsOf
  <2> DEFINE members == Head(todo).members
  <2>4. members \in Seq(Cells)
    <3>1. members \in Seq(Nat)
      BY <1>1, <2>2, CurrentOperation, OperationFields
    <3>2. Range(members) \subseteq Cells
      BY <1>2, <2>2, TrackIdsType
    <3> HIDE DEF members
    <3>3. Len(members) \in Nat /\ members \in [1 .. Len(members) -> Cells]
      BY <3>1, <3>2, LenProperties DEF Range
    <3> QED
      BY <3>3, FieldsAreCells
  <2> HIDE DEF k
  <2>5. /\ refilled \in Playlist /\ refilled.pid = draft.lists[k].pid /\ refilled.kind = "ordinary"
        /\ refilled.members = members
    BY <1>2, <2>4 DEF Playlist
  <2> HIDE DEF refilled
  <2>6. Range(refilled.members) \subseteq IdsOf(draft.tracks)
    BY <2>2, <2>3, <2>5
  <2> QED
    BY <1>1, <1>2, <1>3, <2>1, <2>5, <2>6, OneListSound
<1> QED
  BY <1>5, <1>6

LEMMA EditPhases ==
  ASSUME Typing, [Next]_vars, phase' = "editing"
  PROVE  \/ \E plan \in Plans, g \in Generations : StartEdit(plan, g)
         \/ AddTrack \/ RemoveTrack \/ AddPlaylist
         \/ RemovePlaylist \/ RenamePlaylist \/ ReplaceMembers
         \/ UNCHANGED vars
<1>1. ASSUME NEW k, NEW key, Open(k, key) PROVE FALSE
  BY <1>1 DEF Open, Opened
<1>2. ASSUME NEW k, NEW key, NEW g, Create(k, key, g) PROVE FALSE
  BY <1>2 DEF Create, Opened
<1>3. ASSUME NEW k, NEW key, NEW g, Save(k, key, g) PROVE FALSE
  BY <1>3 DEF Save
<1>4. ~Close /\ ~Damage /\ ~GiveUp /\ ~FinishEdit
  BY DEF Close, Damage, GiveUp, FinishEdit, StopEditing
<1>5. ASSUME NEW c, Inspect(c) PROVE FALSE
  BY <1>5 DEF Inspect
<1> QED
  BY <1>1, <1>2, <1>3, <1>4, <1>5 DEF Next, EditStep

LEMMA DraftStep == ASSUME Typing, DraftInv, [Next]_vars PROVE DraftInv'
<1> SUFFICES ASSUME phase' = "editing"
             PROVE  /\ SoundModel(draft')
                    /\ Pids(draft') \cup Pids(doc'.model) \subseteq known' \cup {0}
  BY DEF DraftInv
<1>1. ASSUME NEW plan \in Plans, NEW g \in Generations, StartEdit(plan, g)
      PROVE  /\ SoundModel(draft')
             /\ Pids(draft') \cup Pids(doc'.model) \subseteq known' \cup {0}
  <2>1. /\ Valid(doc) /\ draft' = doc.model /\ doc' = doc
        /\ known' = Pids(doc.model)
    BY <1>1 DEF StartEdit, Answer
  <2>2. SoundModel(doc.model)
    BY <2>1 DEF Valid, SoundModel
  <2> QED
    BY <2>1, <2>2
<1>2. ASSUME AddTrack \/ RemoveTrack \/ AddPlaylist
               \/ RemovePlaylist \/ RenamePlaylist \/ ReplaceMembers
      PROVE  /\ SoundModel(draft')
             /\ Pids(draft') \cup Pids(doc'.model) \subseteq known' \cup {0}
  <2>1. phase = "editing" /\ doc' = doc
    BY <1>2 DEF AddTrack, RemoveTrack, AddPlaylist, RemovePlaylist, RenamePlaylist,
                ReplaceMembers, Current
  <2>2. TypeOK
    BY DEF Typing
  <2>3. SoundModel(draft') /\ Pids(draft') \subseteq known' \cup {0}
    BY <1>2, <2>2, AddTrackSound, RemoveTrackSound, AddPlaylistSound, RemovePlaylistSound,
       ChangePlaylistSound
  <2>4. known \subseteq known'
    BY <1>2 DEF AddTrack, RemoveTrack, AddPlaylist, RemovePlaylist, RenamePlaylist,
                ReplaceMembers, TakePid
  <2>5. Pids(doc'.model) \subseteq known \cup {0}
    BY <2>1 DEF DraftInv
  <2> QED
    BY <2>3, <2>4, <2>5
<1>3. CASE UNCHANGED vars
  BY <1>3 DEF vars, editVars, DraftInv
<1> QED
  BY <1>1, <1>2, <1>3, EditPhases

LEMMA DraftAlways == Spec => [](Typing /\ DraftInv)
<1>1. Init => Typing /\ DraftInv
  BY TypingInit DEF Init, DraftInv
<1>2. Typing /\ DraftInv /\ [Next]_vars => (Typing /\ DraftInv)'
  BY TypingStep, DraftStep
<1> QED
  BY <1>1, <1>2, PTL DEF Spec

\* For every library and every plan: between any two operations the master holds
\* every track once, no ordinary playlist names a track that is gone, and no two
\* identifiers of a kind are the same.
THEOREM DraftsAreSound == Spec => []DraftSound
<1>1. DraftInv => DraftSound
  BY DEF DraftInv, DraftSound, SoundModel
<1> QED
  BY <1>1, DraftAlways, PTL

LEMMA NewIdStep ==
  ASSUME Typing, DraftInv, [Next]_vars, phase = "editing", phase' = "editing"
  PROVE  /\ Pids(draft) \cup Pids(doc.model) \subseteq known \cup {0}
         /\ known \subseteq known'
         /\ Len(draft'.tracks) > Len(draft.tracks) =>
              draft'.tracks[Len(draft'.tracks)].pid \in known' \ (known \cup {0})
         /\ Len(draft'.lists) > Len(draft.lists) =>
              draft'.lists[Len(draft'.lists)].pid \in known' \ (known \cup {0})
<1> DEFINE newTrack == draft'.tracks[Len(draft'.tracks)].pid
           newList == draft'.lists[Len(draft'.lists)].pid
<1>1. TypeOK /\ DraftInv' /\ draft \in Model /\ draft' \in Model
  BY TypingStep, DraftStep DEF Typing, TypeOK
<1>2. Pids(draft) \cup Pids(doc.model) \subseteq known \cup {0}
  BY DEF DraftInv
<1>3. /\ Len(draft.tracks) \in Nat /\ DOMAIN draft'.tracks = 1 .. Len(draft'.tracks)
      /\ Len(draft.lists) \in Nat /\ DOMAIN draft'.lists = 1 .. Len(draft'.lists)
      /\ Len(draft'.tracks) \in Nat /\ Len(draft'.lists) \in Nat
  BY <1>1, LenProperties DEF Model
<1>4. /\ Len(draft'.tracks) > Len(draft.tracks) /\ newTrack # 0 => newTrack \in Pids(draft')
      /\ Len(draft'.lists) > Len(draft.lists) => newList \in Pids(draft')
  <2>1. \A m, n \in Nat : n > m => n \in 1 .. n
    OBVIOUS
  <2>2. /\ Len(draft'.tracks) > Len(draft.tracks) => Len(draft'.tracks) \in DOMAIN draft'.tracks
        /\ Len(draft'.lists) > Len(draft.lists) => Len(draft'.lists) \in DOMAIN draft'.lists
    BY <1>3, <2>1
  <2> QED
    BY <2>2 DEF Pids
<1>5. Pids(draft') \subseteq known' \cup {0}
  BY <1>1 DEF DraftInv
<1> HIDE DEF newTrack, newList
<1>6. SUFFICES /\ known \subseteq known'
               /\ Len(draft'.tracks) > Len(draft.tracks) => newTrack \notin known \cup {0}
               /\ Len(draft'.lists) > Len(draft.lists) => newList \notin known \cup {0}
  BY <1>2, <1>4, <1>5 DEF newTrack, newList
<1>7. CASE AddTrack
  BY <1>1, <1>3, <1>7, AddTrackSound DEF AddTrack, TakePid, newTrack
<1>8. CASE AddPlaylist
  BY <1>1, <1>3, <1>8, AddPlaylistSound DEF AddPlaylist, TakePid, newList
<1>9. CASE RemoveTrack
  BY <1>1, <1>3, <1>9, RemoveTrackSound DEF RemoveTrack
<1>10. CASE RemovePlaylist
  BY <1>1, <1>3, <1>10, RemovePlaylistSound DEF RemovePlaylist
<1>11. CASE RenamePlaylist \/ ReplaceMembers
  BY <1>1, <1>3, <1>11, ChangePlaylistSound DEF RenamePlaylist, ReplaceMembers
<1>12. CASE UNCHANGED vars
  BY <1>3, <1>12 DEF vars, editVars
<1>13. ASSUME NEW plan \in Plans, NEW g \in Generations, StartEdit(plan, g) PROVE FALSE
  BY <1>13 DEF StartEdit
<1> QED
  BY <1>7, <1>8, <1>9, <1>10, <1>11, <1>12, <1>13, EditPhases

\* For every stock of identifiers: what a plan adds has one that nothing in the
\* database has, and that nothing had since the plan began, what the plan removed
\* and what it added and removed again included.
THEOREM AddedIdsAreNew == Spec => GeneratedIdsAreNew
<1>1. Typing /\ DraftInv /\ [Next]_vars =>
        [phase = "editing" /\ phase' = "editing" =>
           /\ Pids(draft) \cup Pids(doc.model) \subseteq known \cup {0}
           /\ known \subseteq known'
           /\ Len(draft'.tracks) > Len(draft.tracks) =>
                draft'.tracks[Len(draft'.tracks)].pid \in known' \ (known \cup {0})
           /\ Len(draft'.lists) > Len(draft.lists) =>
                draft'.lists[Len(draft'.lists)].pid \in known' \ (known \cup {0})]_vars
  BY NewIdStep
<1> QED
  BY <1>1, DraftAlways, PTL DEF Spec, GeneratedIdsAreNew

-----------------------------------------------------------------------------
(* What an edit leaves alone.                                              *)

Smart(L) == {L[i] : i \in {j \in DOMAIN L : ~Ordinary(L[j])}}

LEMMA SameSmart ==
  ASSUME NEW L, NEW M, DOMAIN L = DOMAIN M,
         \A i \in DOMAIN L : (Ordinary(L[i]) /\ Ordinary(M[i])) \/ L[i] = M[i]
  PROVE  Smart(L) = Smart(M)
<1>1. ASSUME NEW i \in DOMAIN L, ~Ordinary(L[i]) PROVE L[i] \in Smart(M)
  <2>1. L[i] = M[i]
    BY <1>1
  <2> QED
    BY <1>1, <2>1 DEF Smart
<1>2. ASSUME NEW i \in DOMAIN M, ~Ordinary(M[i]) PROVE M[i] \in Smart(L)
  <2>1. L[i] = M[i]
    BY <1>2
  <2> QED
    BY <1>2, <2>1 DEF Smart
<1>3. Smart(L) \subseteq Smart(M) /\ Smart(M) \subseteq Smart(L)
  BY <1>1, <1>2 DEF Smart
<1> QED
  BY <1>3

\* What a model m and what is made of it by editing have in common.
SameHeader(m, n) ==
  n.pid = m.pid /\ n.master[1].pid = m.master[1].pid /\ n.master[1].name = m.master[1].name
OldOrNew(m, n, used) ==
  \A j \in DOMAIN n.tracks : n.tracks[j] \in Range(m.tracks) \/ n.tracks[j].pid \notin used
KeepsTheRest(m, n) ==
  SameHeader(m, n) /\ Smart(n.lists) = Smart(m.lists) /\ OldOrNew(m, n, Pids(m) \cup {0})

RestInv == phase = "editing" => KeepsTheRest(doc.model, draft)

LEMMA AddTrackKeeps ==
  ASSUME TypeOK, DraftInv, AddTrack
  PROVE  /\ SameHeader(draft, draft') /\ Smart(draft'.lists) = Smart(draft.lists)
         /\ OldOrNew(draft, draft', known \cup {0})
<1> DEFINE id == (MaxId(draft) + 1) % Width
           track == [id |-> id, pid |-> Head(spare), text |-> Head(todo).text]
           tracks == Append(draft.tracks, track)
           members == Append(draft.master[1].members, id)
<1>1. /\ todo # <<>> /\ Head(todo).op = "add_track" /\ ~IdsExhausted(draft) /\ ~PidRefused
      /\ TakePid /\ phase = "editing"
  BY DEF AddTrack, Current, OperationRefused
<1>2. draft \in Model /\ draft.master # <<>>
  BY <1>1 DEF TypeOK, DraftInv, SoundModel
<1>3. Head(spare) \in Wide /\ Head(spare) \notin known \cup {0}
  BY <1>1, PidTaken
<1>4. id \in Cells
  BY <1>1, <1>2, NextIdNew DEF DraftInv, SoundModel
<1>5. draft' = Changed(draft, tracks, members, draft.lists)
  BY <1>2 DEF AddTrack, Changed, Model
<1>6. Head(todo).text \in TextOf
  BY <1>1, CurrentOperation, OperationFields
<1> HIDE DEF id
<1>7. track \in Track /\ track.pid = Head(spare)
  BY <1>3, <1>4, <1>6 DEF Track
<1>8. draft.tracks \in Seq(Track)
  BY <1>2 DEF Model
<1> HIDE DEF track, members
<1>9. \A j \in DOMAIN tracks : tracks[j] \in Range(draft.tracks) \/ tracks[j] = track
  BY <1>7, <1>8, Appended DEF Range
<1> HIDE DEF tracks
<1>10. /\ SameHeader(draft, draft') /\ draft'.tracks = tracks /\ draft'.lists = draft.lists
  BY <1>2, <1>5, ChangedFields DEF SameHeader
<1> QED
  BY <1>3, <1>7, <1>9, <1>10 DEF OldOrNew

LEMMA RemoveTrackKeeps ==
  ASSUME TypeOK, DraftInv, RemoveTrack
  PROVE  /\ SameHeader(draft, draft') /\ Smart(draft'.lists) = Smart(draft.lists)
         /\ OldOrNew(draft, draft', known \cup {0})
<1> DEFINE id == Head(todo).id
           k == TrackAt(draft, id)
           tracks == RemoveAt(draft.tracks, k)
           members == Without(draft.master[1].members, id)
           lists == Purged(draft.lists, id)
<1>1. phase = "editing" /\ k # 0
  BY DEF RemoveTrack, Current, OperationRefused
<1>2. draft \in Model /\ draft.master # <<>>
  BY <1>1 DEF TypeOK, DraftInv, SoundModel
<1>3. draft.tracks \in Seq(Track) /\ draft.lists \in Seq(Playlist)
  BY <1>2 DEF Model
<1>4. k \in 1 .. Len(draft.tracks)
  BY <1>1, <1>2, <1>3, TrackAtFound, LenProperties
<1>5. draft' = Changed(draft, tracks, members, lists)
  BY DEF RemoveTrack, Changed
<1> HIDE DEF k, id
<1>6. \A j \in DOMAIN tracks : tracks[j] \in Range(draft.tracks)
  BY <1>3, <1>4, Removed DEF Range
<1>7. DOMAIN lists = DOMAIN draft.lists
  BY DEF Purged
<1>8. \A i \in DOMAIN lists :
        (Ordinary(lists[i]) /\ Ordinary(draft.lists[i])) \/ lists[i] = draft.lists[i]
  <2> SUFFICES ASSUME NEW i \in DOMAIN lists
               PROVE  (Ordinary(lists[i]) /\ Ordinary(draft.lists[i])) \/ lists[i] = draft.lists[i]
    OBVIOUS
  <2>1. draft.lists[i] \in Playlist
    BY <1>3, <1>7
  <2>2. lists[i] = IF Ordinary(draft.lists[i])
                   THEN [draft.lists[i] EXCEPT !.members = Without(draft.lists[i].members, id)]
                   ELSE draft.lists[i]
    BY <1>7 DEF Purged
  <2> HIDE DEF lists
  <2> QED
    BY <2>1, <2>2 DEF Playlist, Ordinary
<1> HIDE DEF tracks, members, lists
<1>9. Smart(lists) = Smart(draft.lists)
  BY <1>7, <1>8, SameSmart
<1>10. /\ SameHeader(draft, draft') /\ draft'.tracks = tracks /\ draft'.lists = lists
  BY <1>2, <1>5, ChangedFields DEF SameHeader
<1> QED
  BY <1>6, <1>9, <1>10 DEF OldOrNew

\* An operation on the playlists moves no smart one.
LEMMA PlaylistsKeep ==
  ASSUME TypeOK, DraftInv, AddPlaylist \/ RemovePlaylist \/ RenamePlaylist \/ ReplaceMembers
  PROVE  /\ SameHeader(draft, draft') /\ Smart(draft'.lists) = Smart(draft.lists)
         /\ OldOrNew(draft, draft', known \cup {0})
<1>1. draft \in Model /\ draft.lists \in Seq(Playlist)
  BY DEF TypeOK, Model
<1>2. ASSUME NEW L, draft' = Relisted(draft, L), Smart(L) = Smart(draft.lists)
      PROVE  /\ SameHeader(draft, draft') /\ Smart(draft'.lists) = Smart(draft.lists)
             /\ OldOrNew(draft, draft', known \cup {0})
  <2>1. /\ draft'.pid = draft.pid /\ draft'.master = draft.master
        /\ draft'.tracks = draft.tracks /\ draft'.lists = L
    BY <1>1, <1>2 DEF Relisted, Model
  <2> QED
    BY <1>2, <2>1 DEF SameHeader, OldOrNew, Range
<1>3. CASE AddPlaylist
  <2> DEFINE list == [pid |-> Head(spare), name |-> Head(todo).name, kind |-> "ordinary",
                      members |-> <<>>]
             L == Append(draft.lists, list)
  <2>1. /\ todo # <<>> /\ Head(todo).op = "add_playlist" /\ ~PidRefused /\ TakePid
        /\ phase = "editing"
    BY <1>3 DEF AddPlaylist, Current, OperationRefused
  <2>2. Head(spare) \in Wide /\ Head(todo).name \in Seq(Nat)
    BY <2>1, PidTaken, CurrentOperation, OperationFields
  <2>3. list \in Playlist /\ Ordinary(list)
    BY <2>2, EmptySeq DEF Playlist, Ordinary
  <2>4. draft' = Relisted(draft, L)
    BY <1>3 DEF AddPlaylist, Relisted
  <2> HIDE DEF list
  <2>5. /\ L[Len(draft.lists) + 1] = list /\ DOMAIN L = DOMAIN draft.lists \cup {Len(draft.lists) + 1}
        /\ Len(draft.lists) + 1 \notin DOMAIN draft.lists
        /\ \A i \in DOMAIN draft.lists : L[i] = draft.lists[i]
    BY <1>1, <2>3, Appended
  <2> HIDE DEF L
  <2>6. Smart(L) = Smart(draft.lists)
    BY <2>3, <2>5 DEF Smart
  <2> QED
    BY <1>2, <2>4, <2>6
<1>4. CASE RemovePlaylist
  <2> DEFINE k == ListAt(draft, Head(todo).pid)
             L == RemoveAt(draft.lists, k)
  <2>1. k # 0 /\ phase = "editing" /\ draft' = Relisted(draft, L)
    BY <1>4 DEF RemovePlaylist, Current, OperationRefused, Relisted
  <2>2. k \in 1 .. Len(draft.lists) /\ k \in DOMAIN draft.lists /\ Ordinary(draft.lists[k])
    BY <2>1, OneListType DEF Ordinary
  <2> HIDE DEF k
  <2>3. /\ \A j \in DOMAIN L : /\ Origin(k, j) \in DOMAIN draft.lists \ {k}
                              /\ L[j] = draft.lists[Origin(k, j)]
        /\ \A i \in DOMAIN draft.lists \ {k} : \E j \in DOMAIN L : Origin(k, j) = i
    BY <1>1, <2>2, Removed
  <2> HIDE DEF L
  <2>4. Smart(L) \subseteq Smart(draft.lists)
    BY <2>3 DEF Smart
  <2>5. Smart(draft.lists) \subseteq Smart(L)
    <3> SUFFICES ASSUME NEW i \in DOMAIN draft.lists, ~Ordinary(draft.lists[i])
                 PROVE  draft.lists[i] \in Smart(L)
      BY DEF Smart
    <3>1. PICK j \in DOMAIN L : Origin(k, j) = i
      BY <2>2, <2>3
    <3> QED
      BY <2>3, <3>1 DEF Smart
  <2>6. Smart(L) = Smart(draft.lists)
    BY <2>4, <2>5
  <2> QED
    BY <1>2, <2>1, <2>6
<1>5. CASE RenamePlaylist \/ ReplaceMembers
  <2> DEFINE k == ListAt(draft, Head(todo).pid)
             list == draft.lists[k]
  <2>1. k # 0 /\ phase = "editing"
    BY <1>5 DEF RenamePlaylist, ReplaceMembers, Current, OperationRefused
  <2>2. k \in DOMAIN draft.lists /\ list \in Playlist /\ Ordinary(list)
    BY <2>1, OneListType DEF Ordinary
  <2>3. PICK p : Ordinary(p) /\ draft' = Relisted(draft, [draft.lists EXCEPT ![k] = p])
    <3>1. CASE RenamePlaylist
      <4> DEFINE p == [list EXCEPT !.name = Head(todo).name]
      <4>1. draft' = Relisted(draft, [draft.lists EXCEPT ![k] = p])
        BY <3>1 DEF RenamePlaylist, Relisted
      <4>2. Ordinary(p)
        BY <2>2 DEF Ordinary, Playlist
      <4> QED
        BY <4>1, <4>2
    <3>2. CASE ReplaceMembers
      <4> DEFINE p == [list EXCEPT !.members = Head(todo).members]
      <4>1. draft' = Relisted(draft, [draft.lists EXCEPT ![k] = p])
        BY <3>2 DEF ReplaceMembers, Relisted
      <4>2. Ordinary(p)
        BY <2>2 DEF Ordinary, Playlist
      <4> QED
        BY <4>1, <4>2
    <3> QED
      BY <1>5, <3>1, <3>2
  <2> DEFINE L == [draft.lists EXCEPT ![k] = p]
  <2> HIDE DEF k
  <2>4. /\ DOMAIN L = DOMAIN draft.lists /\ L[k] = p
        /\ \A i \in DOMAIN draft.lists : i # k => L[i] = draft.lists[i]
    BY <2>2
  <2> HIDE DEF L
  <2>5. Smart(L) = Smart(draft.lists)
    BY <2>2, <2>3, <2>4, SameSmart
  <2>6. draft' = Relisted(draft, L)
    BY <2>3 DEF L
  <2> QED
    BY <1>2, <2>5, <2>6
<1> QED
  BY <1>3, <1>4, <1>5

LEMMA RestStep == ASSUME Typing, DraftInv, RestInv, [Next]_vars PROVE RestInv'
<1> SUFFICES ASSUME phase' = "editing" PROVE KeepsTheRest(doc'.model, draft')
  BY DEF RestInv
<1>1. ASSUME NEW plan \in Plans, NEW g \in Generations, StartEdit(plan, g)
      PROVE  KeepsTheRest(doc'.model, draft')
  <2>1. draft' = doc.model /\ doc' = doc
    BY <1>1 DEF StartEdit, Answer
  <2> QED
    BY <2>1 DEF KeepsTheRest, SameHeader, OldOrNew, Range
<1>2. ASSUME AddTrack \/ RemoveTrack \/ AddPlaylist
               \/ RemovePlaylist \/ RenamePlaylist \/ ReplaceMembers
      PROVE  KeepsTheRest(doc'.model, draft')
  <2>1. phase = "editing" /\ doc' = doc
    BY <1>2 DEF AddTrack, RemoveTrack, AddPlaylist, RemovePlaylist, RenamePlaylist,
                ReplaceMembers, Current
  <2>2. /\ SameHeader(draft, draft') /\ Smart(draft'.lists) = Smart(draft.lists)
        /\ OldOrNew(draft, draft', known \cup {0})
    BY <1>2, AddTrackKeeps, RemoveTrackKeeps, PlaylistsKeep DEF Typing
  <2>3. KeepsTheRest(doc.model, draft) /\ Pids(doc.model) \subseteq known \cup {0}
    BY <2>1 DEF RestInv, DraftInv
  <2>4. OldOrNew(doc.model, draft', Pids(doc.model) \cup {0})
    <3> SUFFICES ASSUME NEW j \in DOMAIN draft'.tracks,
                        draft'.tracks[j].pid \in Pids(doc.model) \cup {0}
                 PROVE  draft'.tracks[j] \in Range(doc.model.tracks)
      BY DEF OldOrNew
    <3>1. draft'.tracks[j] \in Range(draft.tracks)
      BY <2>2, <2>3 DEF OldOrNew
    <3>2. PICK i \in DOMAIN draft.tracks : draft'.tracks[j] = draft.tracks[i]
      BY <3>1 DEF Range
    <3> QED
      BY <2>3, <3>2 DEF KeepsTheRest, OldOrNew
  <2> QED
    BY <2>1, <2>2, <2>3, <2>4 DEF KeepsTheRest, SameHeader
<1>3. CASE UNCHANGED vars
  BY <1>3 DEF vars, editVars, RestInv
<1> QED
  BY <1>1, <1>2, <1>3, EditPhases

\* For every library and every plan: between any two operations of an edit, and in
\* the document an edit leaves behind, the smart playlists, the identifier of the
\* library and the name and identifier of the master are what they were, and a
\* track with an identifier that was in use is the track that had it, with every
\* field as it was.
THEOREM EditsKeepTheRest ==
  Spec => /\ [](phase = "editing" => KeepsTheRest(doc.model, draft))
          /\ [][phase = "editing" /\ doc' # doc => KeepsTheRest(doc.model, doc'.model)]_vars
<1>1. Init => RestInv
  BY DEF Init, RestInv
<1>2. Typing /\ DraftInv /\ RestInv /\ [Next]_vars => RestInv'
  BY RestStep
<1>3. Typing /\ RestInv /\ [Next]_vars =>
        [phase = "editing" /\ doc' # doc => KeepsTheRest(doc.model, doc'.model)]_vars
  <2> SUFFICES ASSUME Typing, RestInv, Next, phase = "editing", doc' # doc
               PROVE  KeepsTheRest(doc.model, doc'.model)
    BY DEF vars
  <2>1. FinishEdit
    <3>1. ASSUME NEW k, NEW key PROVE ~Open(k, key)
      BY DEF Open
    <3>2. ASSUME NEW k, NEW key, NEW g PROVE ~Create(k, key, g) /\ ~Save(k, key, g)
      BY DEF Create, Save
    <3>3. ASSUME NEW plan, NEW g PROVE ~StartEdit(plan, g)
      BY DEF StartEdit
    <3>4. ASSUME NEW c PROVE ~Inspect(c)
      BY DEF Inspect
    <3>5. ~Close /\ ~Damage
      BY DEF Close, Damage
    <3>6. ~AddTrack /\ ~RemoveTrack /\ ~AddPlaylist /\ ~RemovePlaylist
          /\ ~RenamePlaylist /\ ~ReplaceMembers /\ ~GiveUp
      BY DEF AddTrack, RemoveTrack, AddPlaylist, RemovePlaylist, RenamePlaylist,
             ReplaceMembers, Current, GiveUp
    <3> QED
      BY <3>1, <3>2, <3>3, <3>4, <3>5, <3>6 DEF Next, EditStep
  <2>2. doc' = [doc EXCEPT !.model = draft, !.modified = TRUE]
    BY <2>1 DEF FinishEdit
  <2>3. doc'.model = draft
    BY <2>2 DEF Typing, TypeOK, Documents
  <2> QED
    BY <2>3 DEF RestInv
<1> QED
  BY <1>1, <1>2, <1>3, DraftAlways, PTL DEF Spec, RestInv

-----------------------------------------------------------------------------
(* What discovery publishes.                                               *)

\* What a successful reading says of itself.
LEMMA ReadContents ==
  ASSUME NEW w \in Seq(Cells), NEW k \in Kinds, NEW key, Read(w, k, key).error = "none"
  PROVE  /\ Read(w, k, key).doc.kind = k
         /\ Read(w, k, key).doc.original = w
         /\ Read(w, k, key).doc.signature = SignatureState(w, k, key)
<1> DEFINE found == Datasets(w, k)
           one == Chosen(found.sets, <<1>>)
           two == Chosen(found.sets, <<2, 3>>)
           t == IF one = <<>> THEN NoTracks ELSE Tracks(w, one[1], k)
           p == IF two = <<>> THEN NoPlaylists ELSE Playlists(w, two[1], k)
           error == Or(found.error,
                   IF k = "hash58" /\ ~IsPrefix(<<4, 1, 3, 2>>,
                                                [i \in DOMAIN found.sets |-> found.sets[i].type])
                   THEN "unsupported_signed_profile" ELSE "none")
<1>1. Read(w, k, key) = Checked(RootError(w, k), Checked(error, Document(w, k, key, found, t, p)))
  BY DEF Read, Contents
<1> HIDE DEF found, one, two, t, p, error
<1>2. \A e, outcome : Checked(e, outcome).error = "none" => Checked(e, outcome) = outcome
  BY DEF Checked, Failed
<1>3. Read(w, k, key) = Document(w, k, key, found, t, p)
  BY <1>1, <1>2
<1>4. Document(w, k, key, found, t, p).error = "none"
  BY <1>3
<1> QED
  BY <1>2, <1>3, <1>4 DEF Document

\* Two sequences without repetition that hold the same are as long.
LEMMA SameLength ==
  ASSUME NEW S, NEW r \in Seq(S), NEW s \in Seq(S),
         Distinct(r), Distinct(s), Range(r) = Range(s)
  PROVE  Len(r) = Len(s)
<1> DEFINE T == Range(r)
<1>1. ASSUME NEW q \in Seq(S), Distinct(q), Range(q) = T
      PROVE  Cardinality(T) = Len(q)
  <2>1. Len(q) \in Nat /\ DOMAIN q = 1 .. Len(q) /\ q = [i \in 1 .. Len(q) |-> q[i]]
    BY LenProperties
  <2>2. q \in Surjection(1 .. Len(q), T)
    BY <1>1, <2>1 DEF Surjection, Range
  <2>3. q \in Injection(1 .. Len(q), T)
    BY <1>1, <2>1, <2>2 DEF Surjection, Injection, IsInjective, Distinct
  <2>4. IsFiniteSet(1 .. Len(q)) /\ Cardinality(1 .. Len(q)) = Len(q)
    <3>1. \A n \in Nat : IsFiniteSet(1 .. n) /\ Cardinality(1 .. n) = IF 1 > n THEN 0 ELSE n - 1 + 1
      BY FS_Interval
    <3>2. \A n \in Nat : n = IF 1 > n THEN 0 ELSE n - 1 + 1
      OBVIOUS
    <3> QED
      BY <2>1, <3>1, <3>2
  <2> QED
    BY <2>2, <2>3, <2>4, FS_Surjection
<1> QED
  BY <1>1

\* What ReadyIsSound asks of the model is what the validator asked.
LEMMA SoundModelShown ==
  ASSUME NEW m \in Model, SoundModel(m)
  PROVE  LET ids == TrackIds(m)
             master == m.master[1].members
         IN /\ Len(master) = Len(ids) /\ \A i \in DOMAIN ids : \E j \in DOMAIN master : master[j] = ids[i]
            /\ \A i \in DOMAIN ids, j \in DOMAIN ids : i < j => ids[i] # ids[j]
            /\ \A i \in DOMAIN m.lists : m.lists[i].kind = "ordinary" =>
                 Range(m.lists[i].members) \subseteq Range(ids)
<1> DEFINE ids == TrackIds(m)
           master == m.master[1].members
<1>1. ids \in Seq(Cells)
  BY TrackIdsType
<1>2. master \in Seq(Cells)
  <2>1. m.master # <<>> /\ m.master \in Seq(Playlist)
    BY DEF SoundModel, Model
  <2>2. m.master[1] \in Playlist
    BY <2>1, ElementOfSeq, LenProperties, EmptySeq
  <2> QED
    BY <2>2 DEF Playlist
<1>3. Distinct(ids) /\ Distinct(master) /\ Range(master) = Range(ids)
  BY DEF SoundModel, ValidTracks, ValidMaster
<1>4. Len(master) = Len(ids)
  BY <1>1, <1>2, <1>3, SameLength
<1>5. \A i \in DOMAIN ids : \E j \in DOMAIN master : master[j] = ids[i]
  BY <1>3 DEF Range
<1>6. \A i \in DOMAIN ids, j \in DOMAIN ids : i < j => ids[i] # ids[j]
  <2>1. DOMAIN ids = 1 .. Len(ids) /\ Len(ids) \in Nat
    BY <1>1, LenProperties
  <2> HIDE DEF ids
  <2> QED
    BY <1>3, <2>1 DEF Distinct
<1>7. \A i \in DOMAIN m.lists : m.lists[i].kind = "ordinary" =>
        Range(m.lists[i].members) \subseteq Range(ids)
  BY DEF SoundModel, ValidLists
<1> QED
  BY <1>4, <1>5, <1>6, <1>7

\* Nothing is shown while a document is open: opening and writing the file are
\* never behind the back of what is shown.
ReadyInv ==
  /\ phase # "closed" => shown = NotShown
  /\ shown.status = "ready_read_only" =>
       /\ SoundModel(shown.model)
       /\ shown.signed => Cell(file, 22) = Hash58(Key, file)

LEMMA InspectReady ==
  ASSUME Typing, NEW c \in Candidates, Inspect(c)
  PROVE  shown'.status = "ready_read_only" =>
           /\ SoundModel(shown'.model)
           /\ shown'.signed => Cell(file, 22) = Hash58(Key, file)
<1> DEFINE k == IF c.family = "signed" THEN "hash58" ELSE "preserve_only"
           parsed == Read(file, k, NoKey)
           verified == Read(file, k, c.key)
           verdict == IF Barred(c)[1] # "none" THEN Barred(c) ELSE Verdict(c, file, parsed, verified)
           checked == c.family = "signed" /\ c.key # NoKey
<1>1. shown' = Shown(c, verdict, parsed)
  BY DEF Inspect
<1>2. k \in Kinds /\ file \in Seq(Cells)
  BY DEF Typing, TypeOK, Kinds
<1>3. shown'.status = verdict[1] /\ shown'.signed = checked
      /\ (verdict[1] = "ready_read_only" => shown'.model = parsed.doc.model)
  <2> HIDE DEF verdict, parsed
  <2> QED
    BY <1>1 DEF Shown
<1>4. verdict[1] = "ready_read_only" =>
        /\ Valid(parsed.doc)
        /\ checked => verified.error = "none" /\ verified.doc.signature = "valid"
  <2> HIDE DEF parsed, verified
  <2>1. Barred(c)[1] # "ready_read_only"
    BY DEF Barred
  <2>2. \A b \in BOOLEAN : Judgement(parsed, verified, b)[1] = "ready_read_only" =>
           /\ Valid(parsed.doc)
           /\ b => verified.error = "none" /\ verified.doc.signature = "valid"
    BY DEF Judgement
  <2>3. Verdict(c, file, parsed, verified)[1] = "ready_read_only" =>
           /\ Valid(parsed.doc)
           /\ checked => verified.error = "none" /\ verified.doc.signature = "valid"
    BY <2>2 DEF Verdict
  <2> QED
    BY <2>1, <2>3
<1>5. verdict[1] = "ready_read_only" => SoundModel(parsed.doc.model)
  BY <1>4 DEF Valid, SoundModel
<1>6. checked /\ verified.error = "none" /\ verified.doc.signature = "valid" =>
        Cell(file, 22) = Hash58(Key, file)
  <2> SUFFICES ASSUME checked, verified.error = "none", verified.doc.signature = "valid"
               PROVE  Cell(file, 22) = Hash58(Key, file)
    OBVIOUS
  <2>1. c.key = Key
    BY DatabaseAssumption
  <2>2. \A key : Read(file, k, key).error = "none" =>
            Read(file, k, key).doc.signature = SignatureState(file, k, key)
    <3> HIDE DEF k
    <3> QED
      BY <1>2, ReadContents
  <2>3. SignatureState(file, k, Key) = "valid"
    BY <2>1, <2>2
  <2>4. VerifyError(Key, file) = "none"
    BY <2>3 DEF SignatureState
  <2> QED
    BY <2>4 DEF VerifyError, Or
<1> QED
  <2> HIDE DEF verdict, parsed, verified, checked
  <2> QED
    BY <1>3, <1>4, <1>5, <1>6

LEMMA ReadyStep == ASSUME Typing, ReadyInv, [Next]_vars PROVE ReadyInv'
<1>1. ASSUME NEW k, NEW key, Open(k, key) PROVE ReadyInv'
  BY <1>1 DEF Open, ReadyInv, NotShown
<1>2. ASSUME NEW k, NEW key, NEW g, Create(k, key, g) PROVE ReadyInv'
  BY <1>2 DEF Create, ReadyInv, NotShown
<1>3. ASSUME NEW k, NEW key, NEW g, Save(k, key, g) PROVE ReadyInv'
  BY <1>3 DEF Save, ReadyInv, NotShown
<1>4. ASSUME NEW plan, NEW g, StartEdit(plan, g) PROVE ReadyInv'
  BY <1>4 DEF StartEdit, Answer, ReadyInv
<1>5. CASE EditStep
  BY <1>5 DEF EditStep, AddTrack, RemoveTrack, AddPlaylist, RemovePlaylist, RenamePlaylist,
              ReplaceMembers, Current, GiveUp, FinishEdit, StopEditing, ReadyInv
<1>6. CASE Close
  BY <1>6 DEF Close, ReadyInv
<1>7. ASSUME NEW c \in Candidates, Inspect(c) PROVE ReadyInv'
  BY <1>7, InspectReady DEF Inspect, ReadyInv
<1>8. CASE Damage
  BY <1>8 DEF Damage, ReadyInv, NotShown
<1>9. CASE UNCHANGED vars
  BY <1>9 DEF vars, ReadyInv
<1> QED
  BY <1>1, <1>2, <1>3, <1>4, <1>5, <1>6, <1>7, <1>8, <1>9 DEF Next

\* For every player and every file: a library is shown as ready only when the
\* validator found its playlists to hold its own tracks and, with a key at hand,
\* its signature was made with that key over the bytes that are there now.
THEOREM ReadyLibrariesAreSound == Spec => []ReadyIsSound
<1>1. Init => ReadyInv
  BY DEF Init, ReadyInv, NotShown
<1>2. Typing /\ ReadyInv /\ [Next]_vars => ReadyInv'
  BY ReadyStep
<1>3. Typing /\ ReadyInv => ReadyIsSound
  <2> SUFFICES ASSUME Typing, ReadyInv, shown.status = "ready_read_only"
               PROVE  ReadyIsSound
    BY DEF ReadyIsSound
  <2>1. shown.model \in Model /\ SoundModel(shown.model)
    BY DEF Typing, TypeOK, ReadyInv
  <2>2. shown.signed => Cell(file, 22) = Hash58(Key, file)
    BY DEF ReadyInv
  <2> QED
    BY <2>1, <2>2, SoundModelShown DEF ReadyIsSound
<1> QED
  BY <1>1, <1>2, <1>3, TypingAlways, PTL DEF Spec

-----------------------------------------------------------------------------
(* What the transaction engine is told of a database the writer generated. *)

LEMMA NothingReads ==
  ASSUME NEW k \in Kinds, NEW key
  PROVE  Read(<<>>, k, key).error # "none"
<1>1. Len(<<>>) = 0
  BY EmptySeq
<1>2. ~Fits(0, 3, Len(<<>>)) /\ ~(Len(<<>>) >= 4)
  BY <1>1 DEF Fits
<1>3. EnvelopeError(<<>>, 0, Len(<<>>), 8, mhbd) = "truncated_input"
  BY <1>2 DEF EnvelopeError
<1>4. RootError(<<>>, k) # "none"
  BY <1>2, <1>3 DEF RootError, Or
<1> QED
  BY <1>4 DEF Read, Checked, Failed

LEMMA CheckedError ==
  ASSUME NEW error, NEW outcome
  PROVE  /\ Checked(error, outcome).error = IF error # "none" THEN error ELSE outcome.error
         /\ error = "none" => Checked(error, outcome) = outcome
BY DEF Checked, Failed

\* What writing without an error has been through.
Keeps(d, k) == k = "preserve_only" \/ (~d.modified /\ d.original # <<>>)

LEMMA WriteSucceeds ==
  ASSUME NEW d, NEW k, NEW key, NEW timestamp, NEW answer, answer = Write(d, k, key, timestamp),
         answer.error = "none"
  PROVE  /\ d.kind = k /\ Valid(d) /\ (k = "hash58" => key # NoKey)
         /\ Keeps(d, k) => answer = [error |-> "none", out |-> d.original] /\ ~d.modified
         /\ ~Keeps(d, k) =>
              /\ ~d.opaque /\ k # "preserve_only"
              /\ answer = Serialized(Serialize(d.model, k, timestamp), d, key, timestamp)
<1>1. /\ answer # Failed("missing_device_key") /\ answer # Failed("profile_mismatch")
      /\ answer # Failed("invalid_document") /\ answer # Failed("profile_not_writable")
      /\ answer # Failed("opaque_dependency")
  BY DEF Failed
<1> DEFINE plain == Serialize(d.model, k, timestamp)
<1>2. answer = IF k = "hash58" /\ key = NoKey THEN Failed("missing_device_key")
               ELSE IF d.kind # k THEN Failed("profile_mismatch")
               ELSE IF ~Valid(d) THEN Failed("invalid_document")
               ELSE IF k = "preserve_only" /\ d.modified THEN Failed("profile_not_writable")
               ELSE IF Keeps(d, k) THEN Kept(d, key)
               ELSE IF d.opaque THEN Failed("opaque_dependency")
               ELSE Serialized(plain, d, key, timestamp)
  BY DEF Write, Keeps
<1> HIDE DEF plain
<1>3. Keeps(d, k) => answer = Kept(d, key) /\ ~d.modified
  BY <1>1, <1>2 DEF Keeps
<1>4. answer = Kept(d, key) => answer = [error |-> "none", out |-> d.original]
  BY CheckedError DEF Kept
<1>5. ~Keeps(d, k) => /\ ~d.opaque /\ k # "preserve_only"
                      /\ answer = Serialized(plain, d, key, timestamp)
  BY <1>1, <1>2 DEF Keeps
<1> QED
  BY <1>1, <1>2, <1>3, <1>4, <1>5 DEF plain

\* What writing without an error amounts to: the bytes that were read, or bytes
\* that are read again as the same library.
LEMMA WriteAnswer ==
  ASSUME NEW d, NEW k, NEW key, NEW timestamp, Write(d, k, key, timestamp).error = "none"
  PROVE  LET out == Write(d, k, key, timestamp).out
             reread == Read(out, k, IF k = "hash58" THEN key ELSE NoKey)
         IN /\ d.kind = k /\ Valid(d) /\ (k = "hash58" => key # NoKey)
            /\ \/ out = d.original /\ ~d.modified /\ (k = "preserve_only" \/ d.original # <<>>)
               \/ /\ k # "preserve_only"
                  /\ reread.error = "none" /\ Valid(reread.doc) /\ reread.doc.model = d.model
<1> DEFINE answer == Write(d, k, key, timestamp)
           plain == Serialize(d.model, k, timestamp)
           bytes == IF d.kind = "hash58" THEN Signed(key, plain) ELSE plain
           reread == Read(bytes, d.kind, IF d.kind = "hash58" THEN key ELSE NoKey)
<1>1. d.kind = k /\ Valid(d) /\ (k = "hash58" => key # NoKey)
  BY WriteSucceeds
<1>2. CASE Keeps(d, k)
  <2>1. answer = [error |-> "none", out |-> d.original] /\ ~d.modified
    BY <1>2, WriteSucceeds
  <2> QED
    BY <1>1, <1>2, <2>1 DEF Keeps
<1>3. CASE ~Keeps(d, k)
  <2>1. k # "preserve_only" /\ answer = Serialized(plain, d, key, timestamp)
    BY <1>3, WriteSucceeds
  <2> HIDE DEF plain, answer
  <2>2. answer.error = "none"
    BY DEF answer
  <2>3. answer = Generated(bytes, d, key)
    BY <2>1, <2>2, CheckedError DEF Serialized
  <2>4. answer = Checked(SelfCheckError(reread, d), [error |-> "none", out |-> bytes])
    BY <2>3 DEF Generated
  <2> HIDE DEF bytes, reread
  <2>5. SelfCheckError(reread, d) = "none" /\ answer.out = bytes
    BY <2>2, <2>4, CheckedError
  <2>6. reread.error = "none" /\ Valid(reread.doc) /\ reread.doc.model = d.model
    BY <2>5 DEF SelfCheckError
  <2> QED
    BY <1>1, <2>1, <2>5, <2>6 DEF answer, reread
<1> QED
  BY <1>2, <1>3

\* A document comes from somewhere: while there is no file it was made for an
\* empty library, and its own bytes say again what it says.
SourceInv ==
  /\ phase # "closed" => doc.original # <<>>
  /\ phase # "closed" /\ file = <<>> =>
       /\ doc.kind # "preserve_only"
       /\ ~doc.modified => LET again == Read(doc.original, doc.kind, KeyOf(doc.kind))
                           IN again.error = "none" /\ again.doc = doc

LEMMA CreateSource ==
  ASSUME Typing, NEW k \in Kinds, NEW key \in {NoKey, Key}, NEW g \in Generations,
         Create(k, key, g), phase' # "closed"
  PROVE  SourceInv'
<1> DEFINE answer == Write(EmptyLibrary(k, g.pid, g.master, g.name), k, key, g.time)
           used == IF k = "hash58" THEN key ELSE NoKey
           again == Read(answer.out, k, used)
<1>1. /\ CreateEmpty(k, key, g.pid, g.master, g.name, g.time).error = "none"
      /\ doc' = CreateEmpty(k, key, g.pid, g.master, g.name, g.time).doc
  BY DEF Create, Opened
<1>2. \A e, outcome : Checked(e, outcome).error = "none" => e = "none" /\ Checked(e, outcome) = outcome
  BY DEF Checked, Failed
<1>3. /\ answer.error = "none" /\ again.error = "none" /\ doc' = again.doc
      /\ k # "preserve_only" /\ (k = "hash58" => key # NoKey)
  <2> HIDE DEF answer
  <2>1. Checked(answer.error, again).error = "none"
        /\ doc' = Checked(answer.error, again).doc
        /\ k # "preserve_only" /\ (k = "hash58" => key # NoKey)
    BY <1>1, <1>2 DEF CreateEmpty, answer
  <2> QED
    BY <1>2, <2>1
<1>4. used = KeyOf(k)
  BY <1>3 DEF Create, KeyOf
<1>5. answer.out \in Seq(Cells)
  <2>1. key \in Nat /\ g.pid \in Wide /\ g.master \in Wide /\ g.name \in Seq(Nat) /\ g.time \in Cells
    BY DatabaseAssumption DEF NoKey
  <2>2. EmptyLibrary(k, g.pid, g.master, g.name) \in Documents
    BY <2>1, EmptyLibraryType
  <2>3. answer \in Outputs
    BY <2>1, <2>2, WriteType
  <2> HIDE DEF answer
  <2> QED
    BY <1>3, <2>3 DEF Outputs, Failures
<1> HIDE DEF answer, used
<1>6. doc'.kind = k /\ doc'.original = answer.out
  <2>1. \A w \in Seq(Cells) : Read(w, k, used).error = "none" =>
           Read(w, k, used).doc.kind = k /\ Read(w, k, used).doc.original = w
    BY ReadContents
  <2> QED
    BY <1>3, <1>5, <2>1
<1>7. answer.out # <<>>
  BY <1>3, NothingReads
<1> QED
  BY <1>3, <1>4, <1>6, <1>7 DEF SourceInv

LEMMA SourceStep == ASSUME Typing, SourceInv, [Next]_vars PROVE SourceInv'
<1>1. ASSUME NEW k \in Kinds, NEW key \in {NoKey, Key}, Open(k, key) PROVE SourceInv'
  <2>1. CASE phase' = "closed"
    BY <2>1 DEF SourceInv
  <2>2. CASE phase' # "closed"
    <3>1. Read(file, k, key).error = "none" /\ doc' = Read(file, k, key).doc /\ file' = file
      BY <1>1, <2>2 DEF Open, Opened
    <3>2. file # <<>>
      BY <3>1, NothingReads
    <3>3. file \in Seq(Cells)
      BY DEF Typing, TypeOK
    <3>4. Read(file, k, key).doc.original = file
      BY <3>1, <3>3, ReadContents
    <3> QED
      BY <3>1, <3>2, <3>4 DEF SourceInv
  <2> QED
    BY <2>1, <2>2
<1>2. ASSUME NEW k \in Kinds, NEW key \in {NoKey, Key}, NEW g \in Generations, Create(k, key, g)
      PROVE  SourceInv'
  <2>1. CASE phase' = "closed"
    BY <2>1 DEF SourceInv
  <2> QED
    BY <1>2, <2>1, CreateSource
<1>3. ASSUME NEW k \in Kinds, NEW key \in {NoKey, Key}, NEW g \in Generations, Save(k, key, g)
      PROVE  SourceInv'
  <2>1. phase # "closed" /\ UNCHANGED <<phase, doc>>
    BY <1>3 DEF Save
  <2>2. CASE file' = file
    BY <2>1, <2>2 DEF SourceInv
  <2>3. CASE file' # file
    <3> DEFINE answer == Write(doc, k, key, g.time)
    <3>1. answer.error = "none" /\ file' = answer.out
      BY <1>3, <2>3 DEF Save, Saved
    <3>2. answer.out = doc.original
          \/ Read(answer.out, k, IF k = "hash58" THEN key ELSE NoKey).error = "none"
      BY <3>1, WriteAnswer
    <3> HIDE DEF answer
    <3>3. file' # <<>>
      BY <2>1, <3>1, <3>2, NothingReads DEF SourceInv
    <3> QED
      BY <2>1, <3>3 DEF SourceInv
  <2> QED
    BY <2>2, <2>3
<1>4. ASSUME NEW plan, NEW g, StartEdit(plan, g) PROVE SourceInv'
  BY <1>4 DEF StartEdit, Answer, SourceInv
<1>5. CASE AddTrack \/ RemoveTrack \/ AddPlaylist \/ RemovePlaylist \/ RenamePlaylist
             \/ ReplaceMembers \/ GiveUp
  BY <1>5 DEF AddTrack, RemoveTrack, AddPlaylist, RemovePlaylist, RenamePlaylist,
              ReplaceMembers, Current, GiveUp, StopEditing, SourceInv
<1>6. CASE FinishEdit
  <2>1. phase # "closed" /\ file' = file
    BY <1>6 DEF FinishEdit, StopEditing
  <2>2. doc' = doc \/ doc' = [doc EXCEPT !.model = draft, !.modified = TRUE]
    BY <1>6 DEF FinishEdit
  <2>3. doc' = doc \/ (doc'.original = doc.original /\ doc'.kind = doc.kind /\ doc'.modified)
    BY <2>2 DEF Typing, TypeOK, Documents
  <2> QED
    BY <2>1, <2>3 DEF SourceInv
<1>7. CASE Close
  BY <1>7 DEF Close, SourceInv
<1>8. ASSUME NEW c, Inspect(c) PROVE SourceInv'
  BY <1>8 DEF Inspect, SourceInv
<1>9. CASE Damage
  BY <1>9 DEF Damage, SourceInv
<1>10. CASE UNCHANGED vars
  BY <1>10 DEF vars, SourceInv
<1> QED
  BY <1>1, <1>2, <1>3, <1>4, <1>5, <1>6, <1>7, <1>8, <1>9, <1>10 DEF Next, EditStep

LEMMA PathUnits ==
  ASSUME NEW l \in Seq(Nat), l # <<>>
  PROVE  /\ Converted(l) \in Seq(Nat) /\ Len(Converted(l)) + 1 = Len(l)
         /\ \A i \in DOMAIN Converted(l) :
              Converted(l)[i] = IF l[i + 1] = Colon THEN Slash ELSE l[i + 1]
<1> DEFINE rest == Tail(l)
           unit(i) == IF rest[i] = Colon THEN Slash ELSE rest[i]
<1>1. /\ rest \in Seq(Nat) /\ Len(rest) \in Nat /\ Len(rest) = Len(l) - 1 /\ Len(l) \in Nat
      /\ DOMAIN rest = 1 .. Len(rest) /\ \A i \in 1 .. Len(rest) : rest[i] = l[i + 1]
  BY HeadTailProperties, LenProperties
<1>2. \A i \in 1 .. Len(rest) : unit(i) \in Nat
  BY <1>1, ElementOfSeq DEF Slash
<1>3. Converted(l) = [i \in 1 .. Len(rest) |-> unit(i)]
  BY <1>1 DEF Converted
<1> HIDE DEF rest
<1>4. [i \in 1 .. Len(rest) |-> unit(i)] \in Seq(Nat)
  BY <1>1, <1>2
<1>5. Len([i \in 1 .. Len(rest) |-> unit(i)]) = Len(rest)
  BY <1>1
<1>6. DOMAIN Converted(l) = 1 .. Len(rest) /\ \A i \in 1 .. Len(rest) : Converted(l)[i] = unit(i)
  BY <1>3
<1> QED
  BY <1>1, <1>3, <1>4, <1>5, <1>6

\* On locations with a colon in front, a location names a path exactly if it is
\* converted to it; the audio of the player has no colons.
LEMMA NamedIsConverted ==
  ASSUME NEW l \in Seq(Nat), NEW p \in Seq(Nat), SafePath(p)
  PROVE  Names(l, p) <=> l # <<>> /\ Head(l) = Colon /\ Converted(l) = p
<1>1. /\ Len(p) \in Nat /\ DOMAIN p = 1 .. Len(p) /\ Len(p) # 0
      /\ Len(l) \in Nat /\ (l # <<>> <=> Len(l) # 0)
      /\ \A i \in DOMAIN p : p[i] # Colon
  BY LenProperties, EmptySeq DEF SafePath
<1>2. l # <<>> => Head(l) = l[1]
  OBVIOUS
<1>3. ASSUME Names(l, p) PROVE l # <<>> /\ Head(l) = Colon /\ Converted(l) = p
  <2>1. l # <<>> /\ Head(l) = Colon
    BY <1>1, <1>2, <1>3 DEF Names
  <2>2. /\ Converted(l) \in Seq(Nat) /\ Len(Converted(l)) + 1 = Len(l)
        /\ \A i \in DOMAIN Converted(l) :
             Converted(l)[i] = IF l[i + 1] = Colon THEN Slash ELSE l[i + 1]
    BY <2>1, PathUnits
  <2>3. Len(Converted(l)) \in Nat /\ DOMAIN Converted(l) = 1 .. Len(Converted(l))
    BY <2>2, LenProperties
  <2>4. Len(Converted(l)) = Len(p)
    <3>1. Len(l) = Len(p) + 1
      BY <1>3 DEF Names
    <3>2. \A m \in Nat, n \in Nat : m + 1 = n + 1 => m = n
      OBVIOUS
    <3> QED
      BY <1>1, <2>2, <2>3, <3>1, <3>2
  <2>5. \A i \in DOMAIN p : l[i + 1] = p[i] \/ (l[i + 1] = Colon /\ p[i] = Slash)
    BY <1>3 DEF Names
  <2>6. ASSUME NEW i \in 1 .. Len(Converted(l)) PROVE Converted(l)[i] = p[i]
    <3>1. i \in DOMAIN p /\ i \in DOMAIN Converted(l)
      BY <1>1, <2>3, <2>4
    <3>2. p[i] # Colon /\ (l[i + 1] = p[i] \/ (l[i + 1] = Colon /\ p[i] = Slash))
      BY <1>1, <2>5, <3>1
    <3>3. Converted(l)[i] = IF l[i + 1] = Colon THEN Slash ELSE l[i + 1]
      BY <2>2, <3>1
    <3> QED
      BY <3>2, <3>3
  <2> QED
    BY <2>1, <2>2, <2>4, <2>6, SeqEqual
<1>4. ASSUME l # <<>>, Head(l) = Colon, Converted(l) = p PROVE Names(l, p)
  <2>1. /\ Len(p) + 1 = Len(l)
        /\ \A i \in DOMAIN p : p[i] = IF l[i + 1] = Colon THEN Slash ELSE l[i + 1]
    BY <1>4, PathUnits
  <2>2. Len(l) = Len(p) + 1 /\ l[1] = Colon
    BY <1>1, <1>2, <1>4, <2>1
  <2> QED
    BY <2>1, <2>2 DEF Names
<1> QED
  BY <1>3, <1>4

\* A safe path has no part that leads upwards.
LEMMA SafeStaysBelow ==
  ASSUME NEW p \in Seq(Nat), SafePath(p), IsPrefix(MusicRoot, p)
  PROVE  BelowMusic(p)
<1>1. Len(p) \in Nat /\ DOMAIN p = 1 .. Len(p)
  BY LenProperties
<1>2. ASSUME NEW i \in 1 .. Len(p) - 2, p[i + 2] = Dot
      PROVE  i + 3 <= Len(p) /\ p[i + 3] # Slash
  <2>1. i + 2 \in DOMAIN p /\ i + 2 + 1 = i + 3
    BY <1>1
  <2>2. ~PartEnds(p, i + 2)
    BY <1>2, <2>1 DEF SafePath
  <2>3. i + 2 # Len(p) /\ p[i + 3] # Slash
    BY <2>1, <2>2 DEF PartEnds
  <2>4. i + 3 <= Len(p)
    <3>1. \A n \in Nat : \A j \in 1 .. n - 2 : j + 2 # n => j + 3 <= n
      OBVIOUS
    <3> QED
      BY <1>1, <2>3, <3>1
  <2> QED
    BY <2>3, <2>4
<1> QED
  BY <1>2 DEF BelowMusic

\* Of the tracks of a library: the engine takes what they name.
SeesAudio(w, k, tracks) ==
  LET locations == {tracks[i].text[2] : i \in DOMAIN tracks}
      Named(p) == \E l \in locations : Names(l, p)
  IN /\ (\A l \in locations : \E p \in Audio : Names(l, p)) => Accepts(w, k)
     /\ Accepts(w, k) => /\ \A p \in Audio : p \in References(w, k) <=> Named(p)
                         /\ \A p \in References(w, k) : Named(p) /\ BelowMusic(p)

\* What a file has to answer for the engine to see the audio of a library.
LEMMA AudioSeen ==
  ASSUME NEW w, NEW k, NEW m \in Model, k # "preserve_only",
         Read(w, k, KeyOf(k)).error = "none", Valid(Read(w, k, KeyOf(k)).doc),
         Read(w, k, KeyOf(k)).doc.model = m
  PROVE  SeesAudio(w, k, m.tracks)
<1> DEFINE r == Read(w, k, KeyOf(k))
           locations == {m.tracks[i].text[2] : i \in DOMAIN m.tracks}
           Named(p) == \E l \in locations : Names(l, p)
<1>1. r.error = "none" /\ Valid(r.doc) /\ r.doc.model = m
  OBVIOUS
<1>2. Accepts(w, k) <=> Usable(r)
  BY DEF Accepts
<1>3. References(w, k) = Paths(r.doc.model.tracks)
  BY DEF References
<1> HIDE DEF r
<1>4. Accepts(w, k) <=> \A l \in locations : Playable(l)
  BY <1>1, <1>2 DEF Usable
<1>5. References(w, k) = {Converted(l) : l \in locations}
  BY <1>1, <1>3 DEF Paths
<1>6. locations \subseteq Seq(Nat)
  <2>1. ASSUME NEW i \in DOMAIN m.tracks PROVE m.tracks[i].text[2] \in Seq(Nat)
    <3>1. m.tracks[i] \in Track
      BY DEF Model
    <3>2. m.tracks[i].text \in TextOf /\ 2 \in TextTypes
      BY <3>1 DEF Track, TextTypes
    <3> QED
      BY <3>2 DEF TextOf
  <2> QED
    BY <2>1
<1>7. \A p \in Audio : p \in Seq(Nat) /\ SafePath(p) /\ IsPrefix(MusicRoot, p)
  BY AudioAssumption
<1> HIDE DEF locations
<1>8. ASSUME \A l \in locations : \E p \in Audio : Names(l, p) PROVE Accepts(w, k)
  <2>1. ASSUME NEW l \in locations PROVE Playable(l)
    <3>1. PICK p \in Audio : Names(l, p)
      BY <1>8
    <3>2. l # <<>> /\ Head(l) = Colon /\ Converted(l) = p
      BY <1>6, <1>7, <3>1, NamedIsConverted
    <3> QED
      BY <1>7, <3>2 DEF Playable
  <2> QED
    BY <1>4, <2>1
<1>9. ASSUME Accepts(w, k)
      PROVE  /\ \A p \in Audio : p \in References(w, k) <=> Named(p)
             /\ \A p \in References(w, k) : Named(p) /\ BelowMusic(p)
  <2>1. ASSUME NEW l \in locations
        PROVE  /\ Converted(l) \in Seq(Nat) /\ SafePath(Converted(l)) /\ l # <<>> /\ Head(l) = Colon
               /\ IsPrefix(MusicRoot, Converted(l))
    <3>1. Playable(l) /\ l \in Seq(Nat)
      BY <1>4, <1>6, <1>9
    <3> QED
      BY <3>1, PathUnits DEF Playable
  <2>2. ASSUME NEW p \in Audio PROVE p \in References(w, k) <=> Named(p)
    BY <1>5, <1>6, <1>7, <2>1, NamedIsConverted
  <2>3. ASSUME NEW p \in References(w, k) PROVE Named(p) /\ BelowMusic(p)
    <3>1. PICK l \in locations : p = Converted(l)
      BY <1>5
    <3>2. Names(l, p)
      BY <1>6, <2>1, <3>1, NamedIsConverted
    <3> QED
      BY <2>1, <3>1, <3>2, SafeStaysBelow
  <2> QED
    BY <2>2, <2>3
<1> QED
  BY <1>8, <1>9 DEF SeesAudio, locations

LEMMA SaveSeen ==
  ASSUME Typing, SourceInv, NEW k \in Kinds, NEW key \in {NoKey, Key}, NEW g \in Generations,
         Save(k, key, g), file' # file, written'
  PROVE  /\ doc.kind # "preserve_only"
         /\ LET r == Read(file', doc.kind, KeyOf(doc.kind))
            IN r.error = "none" /\ Valid(r.doc) /\ r.doc.model = doc.model
<1> DEFINE answer == Write(doc, k, key, g.time)
           used == IF k = "hash58" THEN key ELSE NoKey
           reread == Read(answer.out, k, used)
<1>1. answer.error = "none" /\ file' = answer.out /\ phase # "closed"
  BY DEF Save, Saved
<1>2. doc.modified \/ file = <<>>
  BY <1>1 DEF Save, Saved
<1>3. /\ doc.kind = k /\ Valid(doc) /\ (k = "hash58" => key # NoKey)
      /\ \/ answer.out = doc.original /\ ~doc.modified
         \/ /\ k # "preserve_only"
            /\ reread.error = "none" /\ Valid(reread.doc) /\ reread.doc.model = doc.model
  BY <1>1, WriteAnswer
<1>4. used = KeyOf(k)
  BY <1>3 DEF Save, KeyOf
<1> HIDE DEF answer, used
<1>5. CASE answer.out = doc.original /\ ~doc.modified
  <2>1. file = <<>>
    BY <1>2, <1>5
  <2>2. /\ doc.kind # "preserve_only"
        /\ Read(doc.original, doc.kind, KeyOf(doc.kind)).error = "none"
        /\ Read(doc.original, doc.kind, KeyOf(doc.kind)).doc = doc
    BY <1>1, <1>5, <2>1 DEF SourceInv
  <2> QED
    BY <1>1, <1>3, <1>5, <2>2
<1>6. CASE /\ k # "preserve_only"
           /\ reread.error = "none" /\ Valid(reread.doc) /\ reread.doc.model = doc.model
  BY <1>1, <1>3, <1>4, <1>6
<1> QED
  BY <1>3, <1>5, <1>6

LEMMA FileChanged ==
  ASSUME [Next]_vars, file' # file
  PROVE  Damage \/ \E k \in Kinds, key \in {NoKey, Key}, g \in Generations : Save(k, key, g)
<1>1. ASSUME NEW k, NEW key, Open(k, key) PROVE FALSE
  BY <1>1 DEF Open
<1>2. ASSUME NEW k, NEW key, NEW g, Create(k, key, g) PROVE FALSE
  BY <1>2 DEF Create
<1>3. ASSUME NEW plan, NEW g, StartEdit(plan, g) PROVE FALSE
  BY <1>3 DEF StartEdit, Answer
<1>4. ~EditStep
  BY DEF EditStep, AddTrack, RemoveTrack, AddPlaylist, RemovePlaylist, RenamePlaylist,
         ReplaceMembers, Current, GiveUp, FinishEdit, StopEditing
<1>5. ASSUME NEW c, Inspect(c) PROVE FALSE
  BY <1>5 DEF Inspect
<1>6. ~Close /\ ~UNCHANGED vars
  BY DEF Close, vars
<1> QED
  BY <1>1, <1>2, <1>3, <1>4, <1>5, <1>6 DEF Next

LEMMA GeneratedSeen ==
  ASSUME Typing, SourceInv, [Next]_vars, file' # file, written'
  PROVE  SeesAudio(file', doc.kind, doc.model.tracks)
<1>1. \E k \in Kinds, key \in {NoKey, Key}, g \in Generations : Save(k, key, g)
  BY FileChanged DEF Damage
<1>2. /\ doc.kind # "preserve_only"
      /\ LET r == Read(file', doc.kind, KeyOf(doc.kind))
         IN r.error = "none" /\ Valid(r.doc) /\ r.doc.model = doc.model
  BY <1>1, SaveSeen
<1>3. doc.model \in Model
  BY DEF Typing, TypeOK, Documents
<1> QED
  BY <1>2, <1>3, AudioSeen

\* For every library and every player: the engine accepts a generated database
\* whose tracks name audio of the player, and takes for referenced the files below
\* the music that they name, although what it reads is the file, what was written
\* is the document, and its paths are the locations with other separators.
THEOREM AudioIsSeen == Spec => EngineSeesTheAudio
<1>1. Init => SourceInv
  BY DEF Init, SourceInv
<1>2. Typing /\ SourceInv /\ [Next]_vars => SourceInv'
  BY SourceStep
<1>3. Typing /\ SourceInv /\ [Next]_vars =>
        [file' # file /\ written' => SeesAudio(file', doc.kind, doc.model.tracks)]_vars
  BY GeneratedSeen
<1>4. [file' # file /\ written' => SeesAudio(file', doc.kind, doc.model.tracks)]_vars =>
      [file' # file /\ written'
       => LET tracks == doc.model.tracks
              locations == {tracks[i].text[2] : i \in DOMAIN tracks}
              Named(p) == \E l \in locations : Names(l, p)
          IN /\ (\A l \in locations : \E p \in Audio : Names(l, p))
                  => Accepts(file', doc.kind)
             /\ Accepts(file', doc.kind) =>
                  /\ \A p \in Audio : p \in References(file', doc.kind) <=> Named(p)
                  /\ \A p \in References(file', doc.kind) : Named(p) /\ BelowMusic(p)]_vars
  BY DEF SeesAudio
<1> QED
  BY <1>1, <1>2, <1>3, <1>4, TypingAlways, PTL DEF Spec, EngineSeesTheAudio

-----------------------------------------------------------------------------
(* The writer's checks of its own output.                                  *)

\* What the writer generates for a library with one master playlist is read again
\* as that library, with nothing to keep blindly and, if signed, signed.
LEMMA OutputBack ==
  ASSUME NEW d \in Documents, Valid(d), Len(d.model.master) = 1, NEW key \in Nat,
         d.kind = "hash58" => key # NoKey, NEW timestamp \in Cells, NEW plain,
         plain = Serialize(d.model, d.kind, timestamp),
         SerializeError(d.model, d.kind, timestamp, Len(plain)) = "none",
         NEW out, out = IF d.kind = "hash58" THEN Signed(key, plain) ELSE plain,
         NEW used, used = IF d.kind = "hash58" THEN key ELSE NoKey
  PROVE  /\ out \in Seq(Cells) /\ ReadsBack(out, d.kind, used, d.model)
         /\ SignatureState(out, d.kind, used) # "invalid"
<1> DEFINE m == d.model
           k == d.kind
           body == Written(m, k, timestamp)
<1>1. k \in Kinds /\ m \in Model /\ m.master # <<>> /\ m.master[1].kind = "master" /\ Len(m.master) = 1
  BY DEF Documents, Valid
<1>2. /\ \A text \in Texts(m) : Encodable(text)
      /\ \A i \in DOMAIN m.lists : m.lists[i].kind = "ordinary"
      /\ k = "hash58" => m.tracks = <<>>
      /\ ~(Len(plain) > Layout[k].maxOut) /\ ~(Len(plain) >= Width)
  BY DEF SerializeError
<1> HIDE DEF m, k
<1>3. Accepted(m, k)
  BY <1>1, <1>2, TextsWritable DEF Accepted
<1>4. plain = Serialize(m, k, timestamp) /\ Len(plain) \in Nat
  <2>1. plain = Serialize(m, k, timestamp)
    BY DEF m, k
  <2>2. WritableModel(m)
    BY <1>3 DEF Accepted
  <2> QED
    BY <1>1, <2>1, <2>2, SerializeSized
<1>5. Len(plain) < Width /\ Len(plain) <= Layout[k].maxIn
  <2>1. Layout[k].maxOut <= Layout[k].maxIn /\ Layout[k].maxOut \in Nat /\ Layout[k].maxIn \in Nat
    BY <1>1, ProfileAssumption, FormatAssumption
  <2> QED
    BY SMTT(30), <1>2, <1>4, <2>1, FormatAssumption
<1>6. plain \in Seq(Cells) /\ RootStands(plain, m, k, body) /\ body \in Seq(Nat)
  BY <1>1, <1>3, <1>4, <1>5, SerializeStands
<1> HIDE DEF body
<1>7. CASE k = "hash58"
  <2>1. out = Signed(key, plain) /\ used = key /\ key # NoKey
    BY <1>7 DEF k
  <2>2. /\ out \in Seq(Cells) /\ Len(out) = Len(plain) /\ RootStands(out, m, k, body)
        /\ VerifyError(key, out) = "none"
    BY <1>1, <1>6, <1>7, <2>1, SignedStands
  <2>3. ReadsBack(out, k, used, m)
    <3>1. RootStands(out, m, k, Written(m, k, timestamp)) /\ Len(out) <= Layout[k].maxIn
      BY <1>5, <2>2 DEF body
    <3> QED
      BY <1>1, <1>3, <1>7, <2>2, <3>1, SignedBack
  <2>4. SignatureState(out, k, used) = "valid"
    BY <1>7, <2>1, <2>2 DEF SignatureState
  <2> QED
    BY <2>2, <2>3, <2>4 DEF m, k
<1>8. CASE k # "hash58"
  <2>1. out = plain
    BY <1>8 DEF k
  <2>2. RootStands(out, m, k, Written(m, k, timestamp)) /\ Len(out) <= Layout[k].maxIn /\ out \in Seq(Cells)
    BY <1>5, <1>6, <2>1 DEF body
  <2>3. ReadsBack(out, k, used, m)
    BY <1>1, <1>3, <1>8, <2>2, UnsignedBack
  <2>4. SignatureState(out, k, used) = "not_applicable"
    BY <1>8 DEF SignatureState
  <2> QED
    BY <2>2, <2>3, <2>4 DEF m, k
<1> QED
  BY <1>7, <1>8

\* So the writer never refuses its own output.
LEMMA SelfCheckPasses ==
  ASSUME NEW d, Valid(d), NEW out, NEW used, ReadsBack(out, d.kind, used, d.model),
         SignatureState(out, d.kind, used) # "invalid"
  PROVE  SelfCheckError(Read(out, d.kind, used), d) = "none"
<1> DEFINE again == [kind |-> d.kind, original |-> out, modified |-> FALSE, opaque |-> FALSE,
                     signature |-> SignatureState(out, d.kind, used), model |-> d.model]
<1>1. Read(out, d.kind, used) = [error |-> "none", doc |-> again]
  BY DEF ReadsBack
<1>2. again.kind = d.kind /\ again.model = d.model /\ again.signature # "invalid"
  OBVIOUS
<1> HIDE DEF again
<1>3. Valid(again)
  <2> DEFINE Library(k, m) == /\ m.master # <<>> /\ m.master[1].kind = "master"
                              /\ k \in {"unsigned", "hash58"} => m.pid # 0
                              /\ ValidTracks(m) /\ m.master[1].pid # 0 /\ ValidMaster(m) /\ ValidLists(m)
  <2>1. Library(d.kind, d.model)
    BY DEF Valid
  <2>2. Library(again.kind, again.model) /\ again.signature # "invalid" => Valid(again)
    BY DEF Valid
  <2> HIDE DEF Library
  <2> QED
    BY <1>2, <2>1, <2>2
<1> QED
  BY <1>1, <1>2, <1>3 DEF SelfCheckError

\* What the writer answers when its own checks fail.
Refusals == {"generated_output_invalid", "comparison_mismatch"}

LEMMA OnlyMaster ==
  ASSUME NEW d, Valid(d), d.model.master \in Masters
  PROVE  Len(d.model.master) = 1
<1>1. d.model.master # <<>> /\ d.model.master \in Seq(Playlist) /\ Len(d.model.master) <= 1
  BY DEF Valid, Masters
<1>2. Len(d.model.master) \in Nat /\ Len(d.model.master) # 0
  BY <1>1, LenProperties, EmptySeq
<1>3. \A x \in Nat : x <= 1 /\ x # 0 => x = 1
  OBVIOUS
<1> QED
  BY <1>1, <1>2, <1>3

LEMMA SerializedAccepted ==
  ASSUME NEW d \in Documents, Valid(d), d.model.master \in Masters, NEW key \in Nat,
         d.kind = "hash58" => key # NoKey, NEW timestamp \in Cells, NEW plain,
         plain = Serialize(d.model, d.kind, timestamp)
  PROVE  Serialized(plain, d, key, timestamp).error \notin Refusals
<1> DEFINE error == SerializeError(d.model, d.kind, timestamp, Len(plain))
           out == IF d.kind = "hash58" THEN Signed(key, plain) ELSE plain
           used == IF d.kind = "hash58" THEN key ELSE NoKey
<1>1. error \notin Refusals
  BY DEF SerializeError, Refusals
<1>2. ASSUME error = "none" PROVE SelfCheckError(Read(out, d.kind, used), d) = "none"
  <2>1. Len(d.model.master) = 1
    BY OnlyMaster
  <2>2. ReadsBack(out, d.kind, used, d.model) /\ SignatureState(out, d.kind, used) # "invalid"
    BY <1>2, <2>1, OutputBack
  <2> HIDE DEF out, used
  <2> QED
    BY <2>2, SelfCheckPasses
<1>3. Serialized(plain, d, key, timestamp) = Checked(error, Generated(out, d, key))
  BY DEF Serialized
<1>4. Generated(out, d, key)
       = Checked(SelfCheckError(Read(out, d.kind, used), d), [error |-> "none", out |-> out])
  BY DEF Generated
<1> HIDE DEF error, out, used
<1>5. error = "none" => Generated(out, d, key).error = "none"
  BY <1>2, <1>4, CheckedError
<1> QED
  BY <1>1, <1>3, <1>5, CheckedError DEF Refusals

LEMMA WriteAccepted ==
  ASSUME NEW d \in Documents, d.model.master \in Masters, NEW k \in Kinds, NEW key \in Nat,
         NEW timestamp \in Cells
  PROVE  Write(d, k, key, timestamp).error \notin Refusals
<1>1. Kept(d, key).error \notin Refusals
  BY CheckedError DEF Kept, VerifyError, HashEnvelopeError, Or, Refusals
<1>2. ASSUME d.kind = k, Valid(d), ~(k = "hash58" /\ key = NoKey)
      PROVE  Serialized(Serialize(d.model, k, timestamp), d, key, timestamp).error \notin Refusals
  BY <1>2, SerializedAccepted
<1>3. \A e \in {"missing_device_key", "profile_mismatch", "invalid_document",
                "profile_not_writable", "opaque_dependency"} : Failed(e).error \notin Refusals
  BY DEF Failed, Refusals
<1> QED
  BY <1>1, <1>2, <1>3 DEF Write

\* What create_empty answers: a reading of what was generated for an empty library.
LEMMA CreateAnswer ==
  ASSUME NEW k \in Kinds, NEW key \in Nat, NEW pid \in Wide, NEW masterPid \in Wide,
         NEW name \in Seq(Nat), NEW timestamp \in Cells, NEW created, NEW answer, NEW used,
         created = CreateEmpty(k, key, pid, masterPid, name, timestamp),
         answer = Write(EmptyLibrary(k, pid, masterPid, name), k, key, timestamp),
         used = IF k = "hash58" THEN key ELSE NoKey
  PROVE  /\ created.error \notin Refusals
         /\ created.error = "none" =>
              /\ answer.error = "none" /\ answer.out \in Seq(Cells)
              /\ created = Read(answer.out, k, used) /\ created.error = "none"
              /\ k # "preserve_only" /\ (k = "hash58" => key # NoKey)
<1> DEFINE error == IF k = "preserve_only" THEN "profile_not_writable"
                    ELSE IF k = "hash58" /\ key = NoKey THEN "missing_device_key"
                    ELSE IF 0 \in {pid, masterPid, timestamp} \/ pid = masterPid
                         THEN "duplicate_persistent_id" ELSE "none"
           empty == EmptyLibrary(k, pid, masterPid, name)
           reread == Read(answer.out, k, used)
<1>1. created = Checked(error, Checked(answer.error, reread))
  BY DEF CreateEmpty
<1>2. error \notin Refusals /\ (error = "none" => k # "preserve_only" /\ (k = "hash58" => key # NoKey))
  BY DEF Refusals
<1>3. empty \in Documents /\ empty.model.master \in Masters
  <2>1. empty \in Documents
    BY EmptyLibraryType
  <2> DEFINE master == [pid |-> masterPid, name |-> name, kind |-> "master", members |-> <<>>]
  <2>2. master \in Playlist
    BY EmptySeq DEF Playlist
  <2>3. empty.model.master = <<master>>
    BY DEF EmptyLibrary
  <2> HIDE DEF master, empty
  <2> QED
    BY <2>1, <2>2, <2>3, MastersType
<1>4. answer \in Outputs /\ answer.error \notin Refusals
  <2> HIDE DEF empty
  <2>1. answer = Write(empty, k, key, timestamp)
    BY DEF empty
  <2> QED
    BY <1>3, <2>1, WriteType, WriteAccepted
<1>5. answer.error = "none" => answer.out \in Seq(Cells)
  BY <1>4 DEF Outputs, Failures
<1>6. answer.error = "none" => reread.error \notin Refusals
  <2>1. answer.error = "none" => reread \in Answers(answer.out, k)
    BY <1>5, ReadType
  <2> HIDE DEF reread
  <2> QED
    BY <2>1 DEF Answers, ReadErrors, Refusals
<1> HIDE DEF error, empty, reread
<1>7. created.error \notin Refusals
  BY <1>1, <1>2, <1>4, <1>6, CheckedError
<1>8. ASSUME created.error = "none"
      PROVE  error = "none" /\ answer.error = "none" /\ created = reread
  BY <1>1, <1>8, CheckedError
<1> QED
  BY <1>2, <1>5, <1>7, <1>8 DEF reread

-----------------------------------------------------------------------------
(* There is never more than one master playlist.                           *)

MasterInv == doc.model.master \in Masters /\ draft.master \in Masters

LEMMA ReadMaster ==
  ASSUME NEW w \in Seq(Cells), NEW k \in Kinds, NEW key
  PROVE  /\ Read(w, k, key).error = "none" => Read(w, k, key).doc.model.master \in Masters
         /\ Read(w, k, key).error \notin Refusals
<1>1. Read(w, k, key) \in Answers(w, k)
  BY ReadType
<1> QED
  BY <1>1 DEF Answers, DocumentsOf, ReadErrors, Refusals

LEMMA SameMasters ==
  ASSUME NEW s \in Masters, NEW t \in Seq(Playlist), DOMAIN t = DOMAIN s
  PROVE  t \in Masters
<1>1. Len(s) \in Nat /\ Len(t) \in Nat /\ DOMAIN s = 1 .. Len(s) /\ DOMAIN t = 1 .. Len(t) /\ Len(s) <= 1
  BY LenProperties DEF Masters
<1>2. Len(t) <= 1
  <2> SUFFICES ASSUME Len(t) > 1 PROVE FALSE
    BY <1>1
  <2>1. 2 \in 1 .. Len(t) /\ 2 \notin 1 .. Len(s)
    BY <1>1
  <2> QED
    BY <1>1, <2>1
<1> QED
  BY <1>2 DEF Masters

LEMMA MasterStep == ASSUME Typing, MasterInv, [Next]_vars PROVE MasterInv'
<1>1. Typing'
  BY TypingStep
<1>2. /\ draft \in Model /\ draft' \in Model /\ doc \in Documents /\ file \in Seq(Cells)
      /\ draft'.master \in Seq(Playlist)
  BY <1>1 DEF Typing, TypeOK, Model
<1>3. ASSUME NEW k \in Kinds, NEW key \in {NoKey, Key}, Open(k, key) PROVE MasterInv'
  <2>1. draft' = draft /\ (doc' = doc \/ (Read(file, k, key).error = "none" /\ doc' = Read(file, k, key).doc))
    BY <1>3 DEF Open, Opened, editVars
  <2> QED
    BY <1>2, <2>1, ReadMaster DEF MasterInv
<1>4. ASSUME NEW k \in Kinds, NEW key \in {NoKey, Key}, NEW g \in Generations, Create(k, key, g)
      PROVE  MasterInv'
  <2> DEFINE created == CreateEmpty(k, key, g.pid, g.master, g.name, g.time)
             answer == Write(EmptyLibrary(k, g.pid, g.master, g.name), k, key, g.time)
             used == IF k = "hash58" THEN key ELSE NoKey
  <2>1. draft' = draft /\ (doc' = doc \/ (created.error = "none" /\ doc' = created.doc))
    BY <1>4 DEF Create, Opened, editVars
  <2>2. key \in Nat /\ g.pid \in Wide /\ g.master \in Wide /\ g.name \in Seq(Nat) /\ g.time \in Cells
    BY DatabaseAssumption DEF NoKey
  <2>3. created.error = "none" => answer.out \in Seq(Cells) /\ created = Read(answer.out, k, used)
    <3>1. /\ created = CreateEmpty(k, key, g.pid, g.master, g.name, g.time)
          /\ answer = Write(EmptyLibrary(k, g.pid, g.master, g.name), k, key, g.time)
          /\ used = IF k = "hash58" THEN key ELSE NoKey
      OBVIOUS
    <3> HIDE DEF created, answer, used
    <3> QED
      BY <2>2, <3>1, CreateAnswer
  <2> HIDE DEF created, answer, used
  <2> QED
    BY <2>1, <2>3, ReadMaster DEF MasterInv
<1>5. ASSUME NEW k, NEW key, NEW g, Save(k, key, g) PROVE MasterInv'
  BY <1>5 DEF Save, editVars, MasterInv
<1>6. ASSUME NEW plan, NEW g, StartEdit(plan, g) PROVE MasterInv'
  BY <1>6 DEF StartEdit, Answer, editVars, MasterInv
<1>7. ASSUME DOMAIN draft'.master = DOMAIN draft.master, doc' = doc PROVE MasterInv'
  BY <1>2, <1>7, SameMasters DEF MasterInv
<1>8. CASE AddTrack \/ RemoveTrack
  <2>1. doc' = doc
    BY <1>8 DEF AddTrack, RemoveTrack, Current
  <2>2. ASSUME NEW T, NEW M, draft' = [draft EXCEPT !.tracks = T, !.master[1].members = M]
        PROVE  DOMAIN draft'.master = DOMAIN draft.master
    BY <1>2, <2>2 DEF Model
  <2>3. ASSUME NEW T, NEW M, NEW L,
               draft' = [draft EXCEPT !.tracks = T, !.master[1].members = M, !.lists = L]
        PROVE  DOMAIN draft'.master = DOMAIN draft.master
    BY <1>2, <2>3 DEF Model
  <2>4. CASE AddTrack
    <3> DEFINE id == (MaxId(draft) + 1) % Width
               T == Append(draft.tracks, [id |-> id, pid |-> Head(spare), text |-> Head(todo).text])
               M == Append(draft.master[1].members, id)
    <3>1. draft' = [draft EXCEPT !.tracks = T, !.master[1].members = M]
      BY <2>4, Zenon DEF AddTrack
    <3> HIDE DEF T, M
    <3> QED
      BY <1>7, <2>1, <2>2, <3>1
  <2>5. CASE RemoveTrack
    <3> DEFINE T == RemoveAt(draft.tracks, TrackAt(draft, Head(todo).id))
               M == Without(draft.master[1].members, Head(todo).id)
               L == Purged(draft.lists, Head(todo).id)
    <3>1. draft' = [draft EXCEPT !.tracks = T, !.master[1].members = M, !.lists = L]
      BY <2>5, Zenon DEF RemoveTrack
    <3> HIDE DEF T, M, L
    <3> QED
      BY <1>7, <2>1, <2>3, <3>1
  <2> QED
    BY <1>8, <2>4, <2>5
<1>9. CASE AddPlaylist \/ RemovePlaylist \/ RenamePlaylist \/ ReplaceMembers
  <2>1. doc' = doc
    BY <1>9 DEF AddPlaylist, RemovePlaylist, RenamePlaylist, ReplaceMembers, Current
  <2>2. DOMAIN draft'.master = DOMAIN draft.master
    BY <1>2, <1>9 DEF AddPlaylist, RemovePlaylist, RenamePlaylist, ReplaceMembers, Model
  <2> QED
    BY <1>7, <2>1, <2>2
<1>10. NoModel.master \in Masters
  BY MastersType DEF NoModel
<1>11. CASE GiveUp
  BY <1>10, <1>11 DEF GiveUp, StopEditing, MasterInv
<1>12. CASE FinishEdit
  <2>1. draft' = NoModel /\ (doc' = doc \/ doc' = [doc EXCEPT !.model = draft, !.modified = TRUE])
    BY <1>12 DEF FinishEdit, StopEditing
  <2>2. doc' = doc \/ doc'.model = draft
    BY <1>2, <2>1 DEF Documents
  <2> QED
    BY <1>10, <2>1, <2>2 DEF MasterInv
<1>13. CASE Close
  BY <1>10, <1>13 DEF Close, NoDocument, editVars, MasterInv
<1>14. ASSUME NEW c, Inspect(c) PROVE MasterInv'
  BY <1>14 DEF Inspect, editVars, MasterInv
<1>15. CASE Damage
  BY <1>15 DEF Damage, editVars, MasterInv
<1>16. CASE UNCHANGED vars
  BY <1>16 DEF vars, editVars, MasterInv
<1> QED
  BY <1>3, <1>4, <1>5, <1>6, <1>8, <1>9, <1>11, <1>12, <1>13, <1>14, <1>15, <1>16 DEF Next, EditStep

LEMMA AcceptedStep == ASSUME Typing, MasterInv, OutputAccepted, [Next]_vars PROVE OutputAccepted'
<1>1. /\ doc \in Documents /\ doc.model.master \in Masters /\ file \in Seq(Cells)
      /\ result \notin Refusals
  BY DEF Typing, TypeOK, MasterInv, OutputAccepted, Refusals
<1>2. \A key \in {NoKey, Key}, g \in Generations :
        key \in Nat /\ g.pid \in Wide /\ g.master \in Wide /\ g.name \in Seq(Nat) /\ g.time \in Cells
  BY DatabaseAssumption DEF NoKey
<1> SUFFICES result' \notin Refusals
  BY DEF OutputAccepted, Refusals
<1>3. ASSUME NEW k \in Kinds, NEW key \in {NoKey, Key}, Open(k, key) PROVE result' \notin Refusals
  BY <1>1, <1>3, ReadMaster DEF Open, Opened
<1>4. ASSUME NEW k \in Kinds, NEW key \in {NoKey, Key}, NEW g \in Generations, Create(k, key, g)
      PROVE  result' \notin Refusals
  <2> DEFINE created == CreateEmpty(k, key, g.pid, g.master, g.name, g.time)
  <2>1. result' = created.error
    BY <1>4 DEF Create, Opened
  <2>2. created.error \notin Refusals
    BY <1>2, CreateAnswer
  <2> QED
    BY <2>1, <2>2
<1>5. ASSUME NEW k \in Kinds, NEW key \in {NoKey, Key}, NEW g \in Generations, Save(k, key, g)
      PROVE  result' \notin Refusals
  <2>1. result' = Write(doc, k, key, g.time).error
    BY <1>5 DEF Save, Saved
  <2> QED
    BY <1>1, <1>2, <2>1, WriteAccepted
<1>6. ASSUME NEW plan, NEW g, StartEdit(plan, g) PROVE result' \notin Refusals
  BY <1>1, <1>6 DEF StartEdit, Answer, Refusals
<1>7. CASE EditStep
  BY <1>1, <1>7 DEF EditStep, AddTrack, RemoveTrack, AddPlaylist, RemovePlaylist, RenamePlaylist,
           ReplaceMembers, Current, GiveUp, FinishEdit, StopEditing, Refusals
<1>8. ASSUME NEW c, Inspect(c) PROVE result' \notin Refusals
  BY <1>1, <1>8 DEF Inspect
<1>9. CASE Close \/ Damage \/ UNCHANGED vars
  BY <1>1, <1>9 DEF Close, Damage, vars, Refusals
<1> QED
  BY <1>3, <1>4, <1>5, <1>6, <1>7, <1>8, <1>9 DEF Next

LEMMA MasterAlways == Spec => [](Typing /\ MasterInv)
<1>1. Init => MasterInv
  BY MastersType DEF Init, NoDocument, NoModel, MasterInv
<1>2. Typing /\ MasterInv /\ [Next]_vars => MasterInv'
  BY MasterStep
<1> QED
  BY <1>1, <1>2, TypingAlways, PTL DEF Spec

\* For every library: the writer never refuses what it generated itself, whatever
\* texts, identifiers and numbers of records it holds.
THEOREM OutputIsAccepted == Spec => []OutputAccepted
<1>1. Init => OutputAccepted
  BY DEF Init, OutputAccepted
<1>2. Typing /\ MasterInv /\ OutputAccepted /\ [Next]_vars => OutputAccepted'
  BY AcceptedStep
<1> QED
  BY <1>1, <1>2, MasterAlways, PTL DEF Spec

-----------------------------------------------------------------------------
(* What was written can be edited again.                                   *)

\* What is generated, and not kept, holds nothing but the library.
LEMMA GeneratedBack ==
  ASSUME NEW d \in Documents, d.model.master \in Masters, NEW k \in Kinds, NEW key \in Nat,
         NEW timestamp \in Cells, NEW answer, answer = Write(d, k, key, timestamp),
         answer.error = "none", d.modified \/ (d.original = <<>> /\ k # "preserve_only")
  PROVE  /\ ReadsBack(answer.out, k, IF k = "hash58" THEN key ELSE NoKey, d.model)
         /\ k = "hash58" => key # NoKey
<1> DEFINE plain == Serialize(d.model, k, timestamp)
           out == IF d.kind = "hash58" THEN Signed(key, plain) ELSE plain
           used == IF d.kind = "hash58" THEN key ELSE NoKey
<1>1. ~Keeps(d, k)
  <2>1. Keeps(d, k) => ~d.modified
    BY WriteSucceeds
  <2> QED
    BY <2>1 DEF Keeps
<1>2. d.kind = k /\ Valid(d) /\ (k = "hash58" => key # NoKey) /\ answer = Serialized(plain, d, key, timestamp)
  BY <1>1, WriteSucceeds
<1>3. Len(d.model.master) = 1
  BY <1>2, OnlyMaster
<1>4. /\ SerializeError(d.model, d.kind, timestamp, Len(plain)) = "none"
      /\ answer = Generated(out, d, key)
  <2> HIDE DEF plain
  <2>1. answer = Checked(SerializeError(d.model, d.kind, timestamp, Len(plain)), Generated(out, d, key))
    BY <1>2 DEF Serialized
  <2> HIDE DEF out
  <2> QED
    BY <2>1, CheckedError
<1>5. answer.out = out
  <2>1. answer = Checked(SelfCheckError(Read(out, d.kind, used), d), [error |-> "none", out |-> out])
    BY <1>4 DEF Generated
  <2> HIDE DEF out, used
  <2>2. answer = [error |-> "none", out |-> out]
    BY <2>1, CheckedError
  <2> QED
    BY <2>2
<1>6. ReadsBack(out, d.kind, used, d.model)
  <2>1. plain = Serialize(d.model, d.kind, timestamp)
    BY <1>2
  <2>2. d.kind = "hash58" => key # NoKey
    BY <1>2
  <2> HIDE DEF plain
  <2> QED
    BY <1>2, <1>3, <1>4, <2>1, <2>2, OutputBack
<1> QED
  BY <1>2, <1>5, <1>6

\* A document read back is nothing but the library, so it is understood.
Understands(w, k) == Read(w, k, KeyOf(k)).error = "none" /\ ~Read(w, k, KeyOf(k)).doc.opaque

LEMMA BackUnderstood ==
  ASSUME NEW w, NEW k, NEW m, ReadsBack(w, k, KeyOf(k), m)
  PROVE  Understands(w, k)
BY DEF ReadsBack, Understands

\* While there is no file the document was made for an empty library; what was
\* written is understood.
EditableInv ==
  /\ phase # "closed" /\ file = <<>> => ~doc.opaque
  /\ written => \E k \in Kinds : Understands(file, k)

LEMMA CreateUnderstood ==
  ASSUME Typing, NEW k \in Kinds, NEW key \in {NoKey, Key}, NEW g \in Generations,
         Create(k, key, g), phase' # "closed"
  PROVE  ~doc'.opaque
<1> DEFINE empty == EmptyLibrary(k, g.pid, g.master, g.name)
           created == CreateEmpty(k, key, g.pid, g.master, g.name, g.time)
           answer == Write(empty, k, key, g.time)
           used == IF k = "hash58" THEN key ELSE NoKey
<1>1. key \in Nat /\ g.pid \in Wide /\ g.master \in Wide /\ g.name \in Seq(Nat) /\ g.time \in Cells
  BY DatabaseAssumption DEF NoKey
<1>2. created.error = "none" /\ doc' = created.doc
  BY DEF Create, Opened
<1>3. answer.error = "none" /\ created = Read(answer.out, k, used) /\ k # "preserve_only"
  <2>1. /\ created = CreateEmpty(k, key, g.pid, g.master, g.name, g.time)
        /\ answer = Write(EmptyLibrary(k, g.pid, g.master, g.name), k, key, g.time)
        /\ used = IF k = "hash58" THEN key ELSE NoKey
    OBVIOUS
  <2> HIDE DEF created, answer, used
  <2> QED
    BY <1>1, <1>2, <2>1, CreateAnswer
<1>4. empty \in Documents /\ empty.model.master \in Masters /\ empty.original = <<>>
  <2> DEFINE master == [pid |-> g.master, name |-> g.name, kind |-> "master", members |-> <<>>]
  <2>1. master \in Playlist /\ empty.model.master = <<master>>
    BY <1>1, EmptySeq DEF Playlist, EmptyLibrary
  <2>2. empty.original = <<>>
    BY DEF EmptyLibrary
  <2> HIDE DEF master
  <2> QED
    BY <1>1, <2>1, <2>2, MastersType, EmptyLibraryType
<1>5. answer = Write(empty, k, key, g.time)
  OBVIOUS
<1> HIDE DEF created, answer, empty
<1>6. ReadsBack(answer.out, k, used, empty.model)
  BY <1>1, <1>3, <1>4, <1>5, GeneratedBack
<1> QED
  BY <1>2, <1>3, <1>6 DEF ReadsBack

LEMMA SaveUnderstood ==
  ASSUME Typing, MasterInv, SourceInv, EditableInv, NEW k \in Kinds, NEW key \in {NoKey, Key},
         NEW g \in Generations, Save(k, key, g), written'
  PROVE  \E kind \in Kinds : Understands(file', kind)
<1> DEFINE answer == Write(doc, k, key, g.time)
           used == IF k = "hash58" THEN key ELSE NoKey
<1>1. phase # "closed" /\ key \in Nat /\ g.time \in Cells /\ doc \in Documents /\ doc.model.master \in Masters
  BY DatabaseAssumption DEF Save, NoKey, Typing, TypeOK, MasterInv
<1>2. answer.error # "none" => file' = file /\ written
  BY DEF Save, Saved
<1>3. answer.error = "none" => /\ file' = answer.out
                               /\ doc.modified \/ file = <<>> \/ (written /\ answer.out = file)
  BY DEF Save, Saved
<1>4. answer = Write(doc, k, key, g.time)
  OBVIOUS
<1> HIDE DEF answer, used
<1>5. CASE file' = file /\ written
  BY <1>5 DEF EditableInv
<1>6. CASE answer.error = "none" /\ doc.modified
  <2>1. ReadsBack(answer.out, k, used, doc.model) /\ (k = "hash58" => key # NoKey)
    BY <1>1, <1>4, <1>6, GeneratedBack DEF used
  <2>2. used = KeyOf(k)
    BY <2>1 DEF Save, KeyOf, used
  <2> QED
    BY <1>3, <1>6, <2>1, <2>2, BackUnderstood
<1>7. CASE answer.error = "none" /\ ~doc.modified /\ file = <<>>
  <2>1. /\ doc.kind # "preserve_only" /\ doc.original # <<>>
        /\ Read(doc.original, doc.kind, KeyOf(doc.kind)).error = "none"
        /\ Read(doc.original, doc.kind, KeyOf(doc.kind)).doc = doc
        /\ ~doc.opaque
    BY <1>1, <1>7 DEF SourceInv, EditableInv
  <2>2. answer.out = doc.original
    <3>1. Keeps(doc, k)
      BY <1>7, <2>1 DEF Keeps
    <3>2. answer = [error |-> "none", out |-> doc.original]
      BY <1>4, <1>7, <3>1, WriteSucceeds
    <3> QED
      BY <3>2
  <2>3. Understands(file', doc.kind) /\ doc.kind \in Kinds
    BY <1>1, <1>3, <1>7, <2>1, <2>2 DEF Understands, Documents
  <2> QED
    BY <2>3
<1> QED
  BY <1>2, <1>3, <1>5, <1>6, <1>7

LEMMA EditableStep ==
  ASSUME Typing, MasterInv, SourceInv, EditableInv, [Next]_vars
  PROVE  EditableInv'
<1>1. ASSUME NEW k \in Kinds, NEW key \in {NoKey, Key}, Open(k, key) PROVE EditableInv'
  <2>1. file' = file /\ written' = written
    BY <1>1 DEF Open
  <2>2. phase' # "closed" => Read(file, k, key).error = "none"
    BY <1>1 DEF Open, Opened
  <2>3. phase' # "closed" => file # <<>>
    BY <2>2, NothingReads
  <2> QED
    BY <2>1, <2>3 DEF EditableInv
<1>2. ASSUME NEW k \in Kinds, NEW key \in {NoKey, Key}, NEW g \in Generations, Create(k, key, g)
      PROVE  EditableInv'
  <2>1. file' = file /\ written' = written
    BY <1>2 DEF Create
  <2>2. phase' # "closed" => ~doc'.opaque
    BY <1>2, CreateUnderstood
  <2> QED
    BY <2>1, <2>2 DEF EditableInv
<1>3. ASSUME NEW k \in Kinds, NEW key \in {NoKey, Key}, NEW g \in Generations, Save(k, key, g)
      PROVE  EditableInv'
  <2>1. UNCHANGED <<phase, doc>>
    BY <1>3 DEF Save
  <2>2. written' => \E kind \in Kinds : Understands(file', kind)
    BY <1>3, SaveUnderstood
  <2>3. phase # "closed" /\ file' = <<>> => file = <<>>
    <3> SUFFICES ASSUME phase # "closed", file' = <<>>, file # <<>> PROVE FALSE
      OBVIOUS
    <3> DEFINE answer == Write(doc, k, key, g.time)
    <3>1. answer.error = "none" /\ file' = answer.out
      BY <1>3 DEF Save, Saved
    <3>2. answer.out = doc.original
          \/ Read(answer.out, k, IF k = "hash58" THEN key ELSE NoKey).error = "none"
      BY <3>1, WriteAnswer
    <3> HIDE DEF answer
    <3> QED
      BY <3>1, <3>2, NothingReads DEF SourceInv
  <2> QED
    BY <2>1, <2>2, <2>3 DEF EditableInv
<1>4. ASSUME NEW plan, NEW g, StartEdit(plan, g) PROVE EditableInv'
  BY <1>4 DEF StartEdit, Answer, EditableInv
<1>5. CASE AddTrack \/ RemoveTrack \/ AddPlaylist \/ RemovePlaylist \/ RenamePlaylist
             \/ ReplaceMembers \/ GiveUp
  BY <1>5 DEF AddTrack, RemoveTrack, AddPlaylist, RemovePlaylist, RenamePlaylist,
              ReplaceMembers, Current, GiveUp, StopEditing, EditableInv
<1>6. CASE FinishEdit
  <2>1. phase # "closed" /\ UNCHANGED <<file, written>>
    BY <1>6 DEF FinishEdit, StopEditing
  <2>2. doc' = doc \/ doc' = [doc EXCEPT !.model = draft, !.modified = TRUE]
    BY <1>6 DEF FinishEdit
  <2>3. doc'.opaque = doc.opaque
    BY <2>2 DEF Typing, TypeOK, Documents
  <2> QED
    BY <2>1, <2>3 DEF EditableInv
<1>7. CASE Close
  BY <1>7 DEF Close, EditableInv
<1>8. ASSUME NEW c, Inspect(c) PROVE EditableInv'
  BY <1>8 DEF Inspect, EditableInv
<1>9. CASE Damage
  BY <1>9 DEF Damage, EditableInv
<1>10. CASE UNCHANGED vars
  BY <1>10 DEF vars, EditableInv
<1> QED
  BY <1>1, <1>2, <1>3, <1>4, <1>5, <1>6, <1>7, <1>8, <1>9, <1>10 DEF Next, EditStep

\* For every library: while the bytes are those the writer generated, some profile
\* reads them with nothing to keep blindly.
THEOREM WrittenIsEditable == Spec => []WrittenStaysEditable
<1>1. Init => SourceInv /\ EditableInv
  BY DEF Init, SourceInv, EditableInv
<1>2. Typing /\ MasterInv /\ SourceInv /\ EditableInv /\ [Next]_vars => SourceInv' /\ EditableInv'
  BY SourceStep, EditableStep
<1>3. EditableInv => WrittenStaysEditable
  BY DEF EditableInv, Understands, WrittenStaysEditable
<1> QED
  BY <1>1, <1>2, <1>3, MasterAlways, PTL DEF Spec

-----------------------------------------------------------------------------
(* What the reader keeps without understanding.                            *)

LEMMA OpaqueStep ==
  ASSUME [Next]_vars, phase = "open", phase' = "open", doc.opaque, file' # file
  PROVE  file' = doc.original
<1>1. PICK k \in Kinds, key \in {NoKey, Key}, g \in Generations : Save(k, key, g)
  BY FileChanged DEF Damage
<1> DEFINE answer == Write(doc, k, key, g.time)
<1>2. answer.error = "none" /\ file' = answer.out
  BY <1>1 DEF Save, Saved
<1>3. Keeps(doc, k)
  BY <1>2, WriteSucceeds
<1>4. answer = [error |-> "none", out |-> doc.original]
  BY <1>2, <1>3, WriteSucceeds
<1> HIDE DEF answer
<1> QED
  BY <1>2, <1>4

\* For every library: a document with data the reader kept without understanding
\* is saved as the bytes it was read from or not at all.
THEOREM OpaqueBytesAreKept ==
  Spec => [][phase = "open" /\ phase' = "open" /\ doc.opaque /\ file' # file
             => file' = doc.original]_vars
<1>1. [Next]_vars => [phase = "open" /\ phase' = "open" /\ doc.opaque /\ file' # file
                      => file' = doc.original]_vars
  BY OpaqueStep
<1> QED
  BY <1>1, PTL DEF Spec

LEMMA ReportedStep ==
  ASSUME Typing, UnknownDataReported, [Next]_vars
  PROVE  UnknownDataReported'
<1>1. ASSUME NEW k \in Kinds, NEW key \in {NoKey, Key}, Open(k, key) PROVE UnknownDataReported'
  <2>1. file \in Seq(Cells)
    BY DEF Typing, TypeOK
  <2>2. phase' # "closed" => Read(file, k, key).error = "none" /\ doc' = Read(file, k, key).doc
    BY <1>1 DEF Open, Opened
  <2>3. phase' # "closed" => doc'.original = file
    BY <2>1, <2>2, ReadContents
  <2> QED
    BY <2>1, <2>2, <2>3, ReadReports DEF UnknownDataReported
<1>2. ASSUME NEW k \in Kinds, NEW key \in {NoKey, Key}, NEW g \in Generations, Create(k, key, g)
      PROVE  UnknownDataReported'
  <2> SUFFICES ASSUME phase' # "closed" PROVE UnknownData(doc'.original) => doc'.opaque
    BY DEF UnknownDataReported
  <2> DEFINE created == CreateEmpty(k, key, g.pid, g.master, g.name, g.time)
             answer == Write(EmptyLibrary(k, g.pid, g.master, g.name), k, key, g.time)
             used == IF k = "hash58" THEN key ELSE NoKey
  <2>1. key \in Nat /\ g.pid \in Wide /\ g.master \in Wide /\ g.name \in Seq(Nat) /\ g.time \in Cells
    BY DatabaseAssumption DEF NoKey
  <2>2. created.error = "none" /\ doc' = created.doc
    BY <1>2 DEF Create, Opened
  <2>3. /\ created = CreateEmpty(k, key, g.pid, g.master, g.name, g.time)
        /\ answer = Write(EmptyLibrary(k, g.pid, g.master, g.name), k, key, g.time)
        /\ used = IF k = "hash58" THEN key ELSE NoKey
    OBVIOUS
  <2> HIDE DEF created, answer, used
  <2>4. answer.out \in Seq(Cells) /\ created = Read(answer.out, k, used)
    BY <2>1, <2>2, <2>3, CreateAnswer
  <2>5. doc'.original = answer.out
    BY <2>2, <2>4, ReadContents
  <2> QED
    BY <2>2, <2>4, <2>5, ReadReports
<1>3. ASSUME NEW k, NEW key, NEW g, Save(k, key, g) PROVE UnknownDataReported'
  BY <1>3 DEF Save, UnknownDataReported
<1>4. ASSUME NEW plan, NEW g, StartEdit(plan, g) PROVE UnknownDataReported'
  BY <1>4 DEF StartEdit, Answer, UnknownDataReported
<1>5. CASE AddTrack \/ RemoveTrack \/ AddPlaylist \/ RemovePlaylist \/ RenamePlaylist
             \/ ReplaceMembers \/ GiveUp
  BY <1>5 DEF AddTrack, RemoveTrack, AddPlaylist, RemovePlaylist, RenamePlaylist,
              ReplaceMembers, Current, GiveUp, StopEditing, UnknownDataReported
<1>6. CASE FinishEdit
  <2>1. phase # "closed"
    BY <1>6 DEF FinishEdit
  <2>2. doc' = doc \/ doc' = [doc EXCEPT !.model = draft, !.modified = TRUE]
    BY <1>6 DEF FinishEdit
  <2>3. doc'.opaque = doc.opaque /\ doc'.original = doc.original
    BY <2>2 DEF Typing, TypeOK, Documents
  <2> QED
    BY <2>1, <2>3 DEF UnknownDataReported
<1>7. CASE Close
  BY <1>7 DEF Close, UnknownDataReported
<1>8. ASSUME NEW c, Inspect(c) PROVE UnknownDataReported'
  BY <1>8 DEF Inspect, UnknownDataReported
<1>9. CASE Damage
  BY <1>9 DEF Damage, UnknownDataReported
<1>10. CASE UNCHANGED vars
  BY <1>10 DEF vars, UnknownDataReported
<1> QED
  BY <1>1, <1>2, <1>3, <1>4, <1>5, <1>6, <1>7, <1>8, <1>9, <1>10 DEF Next, EditStep

\* For every file, damaged ones included, that the reader takes: data in one of
\* the places UnknownData names, found by an independent walk over the record
\* sizes, sets the flag that the writer and the editor look at.
THEOREM UnknownIsReported == Spec => []UnknownDataReported
<1>1. Init => UnknownDataReported
  BY DEF Init, UnknownDataReported
<1>2. Typing /\ UnknownDataReported /\ [Next]_vars => UnknownDataReported'
  BY ReportedStep
<1> QED
  BY <1>1, <1>2, TypingAlways, PTL DEF Spec

\* For every file: one with data in such a place is saved bit by bit as it was read
\* or not at all.
THEOREM ReportedIsKept == Spec => ReportedDataKept
<1>1. UnknownDataReported /\ [Next]_vars =>
        [phase = "open" /\ phase' = "open" /\ UnknownData(doc.original) /\ file' # file
         => file' = doc.original]_vars
  BY OpaqueStep DEF UnknownDataReported
<1> QED
  BY <1>1, UnknownIsReported, PTL DEF Spec, ReportedDataKept

=============================================================================
