--------------------------- MODULE DatabaseFormat ---------------------------
(***************************************************************************)
(* The iTunesDB file of src/src/core/database: what the reader accepts,    *)
(* what the validator asks of a document, what the writer produces.        *)
(*                                                                         *)
(* A file is a sequence of cells.  A cell is one 32-bit field of a record, *)
(* or one UTF-16 unit of a text; offsets, header sizes and lengths count   *)
(* cells, and the offset of a field is its byte offset in the code divided *)
(* by four.  A 64-bit identifier takes two cells, low half first.  The     *)
(* diagnostics of the reader are kept as one flag, opaque: the code sets   *)
(* has_opaque_dependency whenever there is a diagnostic.                   *)
(***************************************************************************)
EXTENDS Integers, Sequences, SequencesExt, TLC

CONSTANTS
  Width,             \* values a cell can hold; 2^32 in the program
  Layout,            \* Layout[k]: the numbers of format_profile of kind k
  ObservedTrack,     \* the track header of a signed library, 584 bytes
  ExtendedTrack,     \* the one that is readable but not writable, 624 bytes
  ObservedPlaylists  \* its playlist headers, 140 and 184 bytes

Kinds == {"unsigned", "preserve_only", "hash58"}

\* The values of a cell, and of a 64-bit identifier.
Cells == 0 .. Width - 1
Wide == 0 .. Width * Width - 1

ASSUME FormatAssumption ==
  /\ Width \in Nat /\ Width > 115   \* cells hold the markers and the versions
  /\ Layout \in [Kinds -> [root : Nat, version : Cells, dataset : Nat, list : Nat, track : Nat,
                          playlist : Nat, item : Nat, maxIn : Nat, maxOut : Nat]]
  /\ \A k \in Kinds : /\ Layout[k].root >= IF k = "hash58" THEN 27 ELSE 8
                      /\ Layout[k].dataset >= 4 /\ Layout[k].list >= 3
                      /\ Layout[k].track >= 30 /\ Layout[k].playlist >= 9
                      /\ Layout[k].item >= 7

\* Of each profile: what is written is not too large to be read, and the version
\* and the playlist headers of a signed library are among those the reader takes.
ASSUME ProfileAssumption ==
  /\ \A k \in Kinds : Layout[k].maxOut <= Layout[k].maxIn
  /\ Layout["hash58"].version \in {49, 115} /\ Layout["hash58"].playlist \in ObservedPlaylists

-----------------------------------------------------------------------------
(* Cells.                                                                  *)

mhbd == 101  mhsd == 102  mhlt == 103  mhlp == 104  mhla == 105
mhit == 106  mhod == 107  mhyp == 108  mhip == 109  sqlite == 110

NoKey == 0
Outside == 0

\* Mutant: the comparison is off by one.
FitsLoosely(at, length, limit) == at <= limit /\ length <= limit - at + 1

Fits(at, length, limit) == at <= limit /\ length <= limit - at

\* A read outside the file is undefined; Within tells whether it happens.
Within(w, at, n) == at + n <= Len(w)
Cell(w, at) == IF at < Len(w) THEN w[at + 1] ELSE Outside
Id(w, at) == Cell(w, at) + Width * Cell(w, at + 1)
Low(id) == id % Width
High(id) == (id \div Width) % Width

\* The header and section sizes every record starts with.
Header(w, at) == Cell(w, at + 1)
Size(w, at) == Cell(w, at + 2)

\* Errors come first: the first of two, and a record instead of a result.
Or(error, next) == IF error # "none" THEN error ELSE next
Failed(error) == [error |-> error]
Checked(error, outcome) == IF error # "none" THEN Failed(error) ELSE outcome

\* Step applied to a state and 1, 2, ... n.
Iterate(Step(_, _), start, n) ==
  LET state[i \in 0 .. n] == IF i = 0 THEN start ELSE Step(state[i - 1], i)
  IN state[n]

\* A counted loop over records of w.  A record takes three cells or more, so that
\* beyond as many records as fit, and one, the state is one in error whatever the
\* count.
Rounds(w, count) == IF count > Len(w) \div 3 THEN 1 + Len(w) \div 3 ELSE count

-----------------------------------------------------------------------------
(* Text.  UTF-16 with 16 units instead of 65536: 8 and 9 are the high      *)
(* surrogates, 10 and 11 the low ones, 16 to 19 the code points beyond one *)
(* unit.  A UTF-8 string is its sequence of code points.                   *)

HighUnits == 8 .. 9
LowUnits == 10 .. 11
MaxPoint == 19

NextUnit(t, u) ==
  IF ~t.ok THEN t
  ELSE IF t.high # 0
  THEN IF u \in LowUnits
       THEN [t EXCEPT !.high = 0, !.text = Append(@, 16 + 2 * (t.high - 8) + (u - 10))]
       ELSE [t EXCEPT !.ok = FALSE]
  ELSE IF u \in HighUnits THEN [t EXCEPT !.high = u]
  ELSE IF u \in LowUnits THEN [t EXCEPT !.ok = FALSE]
  ELSE [t EXCEPT !.text = Append(@, u)]

Decoded(units) ==
  Iterate(LAMBDA t, i : NextUnit(t, units[i] % 16),
          [ok |-> TRUE, high |-> 0, text |-> <<>>], Len(units))

Decode(units) ==
  LET all == Decoded(units)
  IN [ok |-> all.ok /\ all.high = 0, text |-> all.text]

Encodable(text) ==
  \A i \in DOMAIN text : text[i] \in (0 .. MaxPoint) \ (HighUnits \cup LowUnits)

\* Mutant: the halves of a surrogate pair are swapped.
EncodeSwapped(text) ==
  FlattenSeq([i \in DOMAIN text |->
    IF text[i] < 16 THEN <<text[i]>>
    ELSE <<8 + ((text[i] - 16) % 2), 10 + ((text[i] - 16) \div 2)>>])

Encode(text) ==
  FlattenSeq([i \in DOMAIN text |->
    IF text[i] < 16 THEN <<text[i]>>
    ELSE <<8 + ((text[i] - 16) \div 2), 10 + ((text[i] - 16) % 2)>>])

-----------------------------------------------------------------------------
(* The reader: records.  Each returns the first error, "none" if the       *)
(* record is accepted, "undefined" if it reads outside the file.           *)

EnvelopeError(w, at, end, minimum, marker) ==
  IF ~Fits(at, 3, end) \/ end > Len(w) THEN "truncated_input"
  ELSE IF ~Within(w, at, 3) THEN "undefined"
  ELSE IF Cell(w, at) # marker THEN "invalid_marker"
  ELSE IF Header(w, at) < minimum \/ Size(w, at) < Header(w, at) THEN "header_too_small"
  ELSE IF ~Fits(at, Size(w, at), end) THEN "section_out_of_bounds"
  ELSE "none"

TextTypes == 1 .. 4   \* title, location, album, artist

\* parse_mhod: type, length and text of a data child.
MhodText(w, at) == Decode(SubSeq(w, at + 11, at + 10 + Cell(w, at + 7)))
MhodError(w, at, end) ==
  Or(EnvelopeError(w, at, end, 6, mhod),
     IF ~Within(w, at, 4) THEN "undefined"
     ELSE IF Cell(w, at + 3) \notin TextTypes THEN "none"
     ELSE IF Header(w, at) # 6 \/ Size(w, at) < 10 THEN "unsupported_encoding"
     ELSE IF ~Fits(at + 10, Cell(w, at + 7), at + Size(w, at)) THEN "section_out_of_bounds"
     ELSE IF ~Within(w, at + 10, Cell(w, at + 7)) THEN "undefined"
     ELSE IF ~MhodText(w, at).ok THEN "invalid_text"
     ELSE "none")

\* The loop over data children: the last text of each type wins.
NextChild(w, c, type, error) ==
  IF error # "none" THEN [c EXCEPT !.error = error]
  ELSE [c EXCEPT !.at = @ + Size(w, @), !.seen = @ \cup {type},
                 !.text = IF type \in TextTypes
                          THEN [@ EXCEPT ![type] = MhodText(w, c.at).text] ELSE @]

ChildStep(w, end, c) ==
  IF c.error # "none" THEN c
  ELSE NextChild(w, c, Cell(w, c.at + 3), MhodError(w, c.at, end))

Children(w, first, end, count) ==
  Iterate(LAMBDA c, i : ChildStep(w, end, c),
          [at |-> first, error |-> "none", seen |-> {}, text |-> [t \in TextTypes |-> <<>>]],
          Rounds(w, count))

Body(w, at) == at + Header(w, at)
End(w, at) == at + Size(w, at)

\* Mutant: trailing payload of a track is not reported.
TrackFromSilently(w, at, fixed, kids) ==
  Checked(kids.error,
    [error |-> "none", opaque |-> ~(kids.seen \subseteq TextTypes),
     value |-> [id |-> Cell(w, at + 4), pid |-> IF fixed = 30 THEN Id(w, at + 28) ELSE 0,
                text |-> kids.text]])

\* A persistent identifier of zero stands for none.
TrackFrom(w, at, fixed, kids) ==
  Checked(kids.error,
    [error |-> "none", opaque |-> ~(kids.seen \subseteq TextTypes) \/ kids.at # End(w, at),
     value |-> [id |-> Cell(w, at + 4), pid |-> IF fixed = 30 THEN Id(w, at + 28) ELSE 0,
                text |-> kids.text]])

ParseTrack(w, at, end) ==
  LET fixed == IF Header(w, at) >= 30 THEN 30 ELSE 5
  IN Checked(Or(EnvelopeError(w, at, end, 5, mhit),
                IF ~Within(w, at, fixed) THEN "undefined"
                ELSE IF Cell(w, at + 3) > (End(w, at) - Body(w, at)) \div 6
                     THEN "count_exceeds_section" ELSE "none"),
             TrackFrom(w, at, fixed, Children(w, Body(w, at), End(w, at), Cell(w, at + 3))))

\* The members of a playlist follow its data children.
NextItem(w, c, error) ==
  IF error # "none" THEN [c EXCEPT !.error = error]
  ELSE [c EXCEPT !.at = @ + Size(w, @), !.members = Append(@, Cell(w, c.at + 6))]

ItemStep(w, end, c) ==
  IF c.error # "none" THEN c
  ELSE NextItem(w, c, Or(EnvelopeError(w, c.at, end, 7, mhip),
                         IF Within(w, c.at, 7) THEN "none" ELSE "undefined"))

Items(w, first, end, count) ==
  Iterate(LAMBDA c, i : ItemStep(w, end, c),
          [at |-> first, error |-> "none", members |-> <<>>], Rounds(w, count))

\* A rule of a smart playlist is a data child of type 50 or 51.
PlaylistFrom(w, at, kids, items) ==
  Checked(Or(kids.error, items.error),
    [error |-> "none", opaque |-> ~(kids.seen \subseteq {1}) \/ items.at # End(w, at),
     value |-> [pid |-> Id(w, at + 7), name |-> kids.text[1], members |-> items.members,
                kind |-> IF kids.seen \cap {50, 51} # {} THEN "smart"
                         ELSE IF Cell(w, at + 5) = 1 THEN "master" ELSE "ordinary"]])

ParsePlaylist(w, at, end) ==
  LET From(kids) == PlaylistFrom(w, at, kids, Items(w, kids.at, End(w, at), Cell(w, at + 4)))
  IN Checked(Or(EnvelopeError(w, at, end, 9, mhyp),
                IF ~Within(w, at, 9) THEN "undefined"
                ELSE IF \/ Cell(w, at + 3) > (End(w, at) - Body(w, at)) \div 6
                        \/ Cell(w, at + 4) > (End(w, at) - Body(w, at)) \div 3
                     THEN "count_exceeds_section" ELSE "none"),
             From(Children(w, Body(w, at), End(w, at), Cell(w, at + 3))))

-----------------------------------------------------------------------------
(* hash58: a keyed digest of the file with the database identifier and the *)
(* signature itself blanked.  HMAC-SHA1 over the derived key becomes a     *)
(* weighted sum that depends on the key and on the cells; it has           *)
(* collisions, and no property rests on its having none.                   *)

Canonical(w) == [i \in DOMAIN w |-> IF i - 1 \in {6, 7} \cup 13 .. 17 \cup 22 .. 26
                                    THEN 0 ELSE IF i = 13 THEN 1 ELSE w[i]]

Hash58(key, w) ==
  LET c == Canonical(w)
  IN 1 + Iterate(LAMBDA sum, i : (sum + i * c[i]) % (Width - 1), key, Len(w))

HashEnvelopeError(w) ==
  IF Len(w) < 27 THEN "hash_field_out_of_bounds"
  ELSE IF Cell(w, 0) # mhbd THEN "invalid_marker"
  ELSE IF Header(w, 0) < 27 \/ Header(w, 0) > Len(w) THEN "hash_field_out_of_bounds"
  ELSE "none"

VerifyError(key, w) ==
  Or(HashEnvelopeError(w),
     IF Cell(w, 12) # 1 THEN "invalid_hash_scheme"
     ELSE IF Cell(w, 22) = 0 THEN "missing_hash58"
     ELSE IF Cell(w, 22) # Hash58(key, w) THEN "hash58_mismatch"
     ELSE "none")

Signed(key, w) == [w EXCEPT ![23] = Hash58(key, w)]

-----------------------------------------------------------------------------
(* The reader: the file.                                                   *)

ListMarker(type) == CASE type = 1 -> mhlt [] type = 4 -> mhla [] OTHER -> mhlp

\* One dataset and the list it starts with.
DatasetError(w, at, end, k) ==
  LET last == End(w, at)
      list == Body(w, at)
      type == Cell(w, at + 3)
  IN Or(EnvelopeError(w, at, end, 4, mhsd),
     IF ~Fits(list, 3, last) THEN "truncated_input"
     ELSE IF ~Within(w, at, 4) \/ ~Within(w, list, 3) THEN "undefined"
     ELSE IF type \in 1 .. 5 /\ Cell(w, list) # ListMarker(type) THEN "invalid_marker"
     ELSE IF Header(w, list) < 3 \/ ~Fits(list, Header(w, list), last) THEN "header_too_small"
     ELSE IF /\ k = "hash58"
             /\ \/ Header(w, at) # Layout[k].dataset
                \/ Header(w, list) # Layout[k].list THEN "unsupported_signed_profile"
     ELSE "none")

NextDataset(w, d, list, error) ==
  IF error # "none" THEN [d EXCEPT !.error = error]
  ELSE [d EXCEPT !.at = End(w, @), !.sets = Append(@,
         [type |-> Cell(w, d.at + 3), count |-> Cell(w, list + 2),
          first |-> Body(w, list), last |-> End(w, d.at)])]

DatasetStep(w, k, d) ==
  IF d.error # "none" THEN d
  ELSE NextDataset(w, d, Body(w, d.at), DatasetError(w, d.at, Size(w, 0), k))

Datasets(w, k) ==
  Iterate(LAMBDA d, i : DatasetStep(w, k, d),
          [at |-> Header(w, 0), error |-> "none", sets |-> <<>>], Rounds(w, Cell(w, 5)))

\* A dataset the reader keeps without looking into it.
Preserved(set) == set.type \notin 1 .. 3 /\ ~(set.type = 4 /\ set.count = 0)

\* The first dataset of the first of these types that the file has.
Chosen(sets, types) ==
  LET has(t) == \E i \in DOMAIN sets : sets[i].type = t
      type == SelectInSeq(types, has)
  IN IF type = 0 THEN <<>>
     ELSE <<sets[SelectInSeq(sets, LAMBDA d : d.type = types[type])]>>

\* Signed libraries have record headers of observed sizes only.
TrackHeaderError(w, at, k) ==
  IF k = "hash58" /\ Header(w, at) \notin {ObservedTrack, ExtendedTrack}
  THEN "unsupported_signed_profile" ELSE "none"
PlaylistHeaderError(w, at, k) ==
  IF k = "hash58" /\ Header(w, at) \notin ObservedPlaylists
  THEN "unsupported_signed_profile" ELSE "none"

\* The records fill their dataset.
Filling(r, last) ==
  IF r.error = "none" /\ r.at # last THEN [r EXCEPT !.error = "count_exceeds_section"] ELSE r

NextTrack(w, r, t, k) ==
  IF Or(t.error, TrackHeaderError(w, r.at, k)) # "none"
  THEN [r EXCEPT !.error = Or(t.error, TrackHeaderError(w, r.at, k))]
  ELSE [r EXCEPT !.at = End(w, @), !.values = Append(@, t.value),
                 !.opaque = @ \/ t.opaque \/ (k = "hash58" /\ Header(w, r.at) = ExtendedTrack)]

TrackStep(w, last, k, r) ==
  IF r.error # "none" THEN r ELSE NextTrack(w, r, ParseTrack(w, r.at, last), k)

Tracks(w, set, k) ==
  Filling(Iterate(LAMBDA r, i : TrackStep(w, set.last, k, r),
                  [at |-> set.first, error |-> "none", values |-> <<>>, opaque |-> FALSE],
                  Rounds(w, set.count)),
          set.last)

PlaylistError(w, r, p, k) ==
  Or(p.error, Or(PlaylistHeaderError(w, r.at, k),
                 IF p.value.kind = "master" /\ r.master # <<>>
                 THEN "multiple_master_playlists" ELSE "none"))

NextPlaylist(w, r, p, error) ==
  IF error # "none" THEN [r EXCEPT !.error = error]
  ELSE [r EXCEPT !.at = End(w, @), !.opaque = @ \/ p.opaque,
                 !.master = IF p.value.kind = "master" THEN <<p.value>> ELSE @,
                 !.values = IF p.value.kind = "master" THEN @ ELSE Append(@, p.value)]

PlaylistStep(w, last, k, r) ==
  LET Add(p) == NextPlaylist(w, r, p, PlaylistError(w, r, p, k))
  IN IF r.error # "none" THEN r ELSE Add(ParsePlaylist(w, r.at, last))

Playlists(w, set, k) ==
  Filling(Iterate(LAMBDA r, i : PlaylistStep(w, set.last, k, r),
                  [at |-> set.first, error |-> "none", values |-> <<>>, master |-> <<>>,
                   opaque |-> FALSE],
                  Rounds(w, set.count)),
          set.last)

\* What is wrong with the root of a file read under profile kind k.
RootError(w, k) ==
  IF Len(w) > Layout[k].maxIn THEN "resource_limit_exceeded"
  ELSE IF Len(w) >= 4 /\ Cell(w, 0) = sqlite THEN "unsupported_container"
  ELSE Or(EnvelopeError(w, 0, Len(w), 8, mhbd),
     IF ~Within(w, 0, 8) THEN "undefined"
     ELSE IF Cell(w, 3) # 1 THEN "unsupported_container"
     ELSE IF k = "hash58" /\ Header(w, 0) # Layout[k].root THEN "unsupported_signed_profile"
     ELSE IF k = "hash58" /\ ~Within(w, 0, 13) THEN "undefined"
     ELSE IF k = "hash58" /\ Cell(w, 12) # 1 THEN "invalid_hash_scheme"
     ELSE IF k = "hash58" /\ Cell(w, 4) \notin {49, 115} THEN "unsupported_signed_profile"
     ELSE IF Cell(w, 5) > (Size(w, 0) - Header(w, 0)) \div 4 THEN "count_exceeds_section"
     ELSE "none")

NoTracks == [error |-> "none", values |-> <<>>, opaque |-> FALSE]
NoPlaylists == [error |-> "none", values |-> <<>>, master |-> <<>>, opaque |-> FALSE]

SignatureState(w, k, key) ==
  IF k # "hash58" THEN "not_applicable"
  ELSE IF key = NoKey THEN "not_checked"
  ELSE IF VerifyError(key, w) = "none" THEN "valid" ELSE "invalid"

\* The optional master playlist is a sequence of at most one.
Document(w, k, key, found, t, p) ==
  Checked(Or(t.error, p.error),
    [error |-> "none", doc |->
      [kind |-> k, original |-> w, modified |-> FALSE,
       opaque |-> \/ t.opaque \/ p.opaque \/ found.at # Size(w, 0) \/ Size(w, 0) # Len(w)
                  \/ \E i \in DOMAIN found.sets : Preserved(found.sets[i]),
       signature |-> SignatureState(w, k, key),
       model |-> [pid |-> Id(w, 6), tracks |-> t.values, master |-> p.master, lists |-> p.values]]])

Contents(w, k, key, found, trackSet, listSet) ==
  Document(w, k, key, found, IF trackSet = <<>> THEN NoTracks ELSE Tracks(w, trackSet[1], k),
                             IF listSet = <<>> THEN NoPlaylists ELSE Playlists(w, listSet[1], k))

\* reader::read.
Read(w, k, key) ==
  LET Of(found) ==
        Checked(Or(found.error,
                   IF k = "hash58" /\ ~IsPrefix(<<4, 1, 3, 2>>,
                                                [i \in DOMAIN found.sets |-> found.sets[i].type])
                   THEN "unsupported_signed_profile" ELSE "none"),
                Contents(w, k, key, found, Chosen(found.sets, <<1>>), Chosen(found.sets, <<2, 3>>)))
  IN Checked(RootError(w, k), Of(Datasets(w, k)))

-----------------------------------------------------------------------------
(* The validator.                                                          *)

Distinct(s) == \A i, j \in DOMAIN s : s[i] = s[j] => i = j
TrackIds(m) == [i \in DOMAIN m.tracks |-> m.tracks[i].id]

ValidTracks(m) ==
  /\ Distinct(TrackIds(m)) /\ 0 \notin Range(TrackIds(m))
  /\ \A i, j \in DOMAIN m.tracks :
       m.tracks[i].pid = m.tracks[j].pid /\ m.tracks[i].pid # 0 => i = j

ValidMaster(m) ==
  /\ Distinct(m.master[1].members)
  /\ Range(m.master[1].members) = Range(TrackIds(m))

ValidLists(m) ==
  /\ \A i \in DOMAIN m.lists :
       /\ m.lists[i].kind # "master"
       /\ m.lists[i].pid \notin {0, m.master[1].pid}
       /\ m.lists[i].kind = "ordinary" => Range(m.lists[i].members) \subseteq Range(TrackIds(m))
  /\ \A i, j \in DOMAIN m.lists : m.lists[i].pid = m.lists[j].pid => i = j

\* validator::validate accepts the document.
Valid(doc) ==
  LET m == doc.model
  IN /\ m.master # <<>> /\ m.master[1].kind = "master"
     /\ doc.kind \in {"unsigned", "hash58"} => m.pid # 0
     /\ ~(doc.kind = "hash58" /\ doc.signature = "invalid")
     /\ ValidTracks(m)
     /\ m.master[1].pid # 0
     /\ ValidMaster(m)
     /\ ValidLists(m)

-----------------------------------------------------------------------------
(* The writer.                                                             *)

\* append_fixed_record.  The fields are set in the header afterwards, the one at
\* offset n in the cell n + 1.
Record(marker, header, size) ==
  [i \in 1 .. header |-> IF i = 1 THEN marker ELSE IF i = 2 THEN header
                         ELSE IF i = 3 THEN size ELSE 0]

StringRecord(type, text) ==
  LET units == Encode(text)
  IN [Record(mhod, 6, 10 + Len(units)) EXCEPT ![4] = type] \o <<0, Len(units), 1, 0>> \o units

TrackRecord(t, k) ==
  LET kids == FlattenSeq([type \in TextTypes |-> StringRecord(type, t.text[type])])
      header == Layout[k].track
  IN [Record(mhit, header, header + Len(kids)) EXCEPT
        ![4] = 4, ![5] = t.id, ![29] = Low(t.pid), ![30] = High(t.pid)] \o kids

ItemRecord(id, k) == [Record(mhip, Layout[k].item, Layout[k].item) EXCEPT ![7] = id]

PlaylistRecord(p, k, timestamp) ==
  LET kids == StringRecord(1, p.name)
                \o FlattenSeq([i \in DOMAIN p.members |-> ItemRecord(p.members[i], k)])
      header == Layout[k].playlist
  IN [Record(mhyp, header, header + Len(kids)) EXCEPT
        ![4] = 1, ![5] = Len(p.members), ![6] = IF p.kind = "master" THEN 1 ELSE 0,
        ![7] = timestamp, ![8] = Low(p.pid), ![9] = High(p.pid)] \o kids

Dataset(type, marker, records, k) ==
  LET body == FlattenSeq(records)
      header == Layout[k].dataset
      list == Layout[k].list
  IN [Record(mhsd, header, header + list + Len(body)) EXCEPT ![4] = type]
       \o Record(marker, list, Len(records)) \o body

RootRecord(m, k, length) ==
  LET header == Layout[k].root
      fixed == [Record(mhbd, header, header + length) EXCEPT
                  ![4] = 1, ![5] = Layout[k].version, ![6] = IF k = "hash58" THEN 4 ELSE 2,
                  ![7] = Low(m.pid), ![8] = High(m.pid)]
  IN IF k = "hash58" THEN [fixed EXCEPT ![13] = 1] ELSE fixed

\* Mutant: padding follows the sections the root counts.
PaddedFile(m, k, body) == RootRecord(m, k, Len(body)) \o body \o <<0>>

WholeFile(m, k, body) == RootRecord(m, k, Len(body)) \o body

\* serialize, for a document that can be written.
Serialize(m, k, timestamp) ==
  LET lists == [i \in 1 .. 1 + Len(m.lists) |->
                 PlaylistRecord(IF i = 1 THEN m.master[1] ELSE m.lists[i - 1], k, timestamp)]
      tracks == Dataset(1, mhlt, [i \in DOMAIN m.tracks |-> TrackRecord(m.tracks[i], k)], k)
  IN WholeFile(m, k,
       IF k = "hash58"
       THEN Dataset(4, mhla, <<>>, k) \o tracks \o Dataset(3, mhlp, lists, k)
              \o Dataset(2, mhlp, lists, k)
       ELSE tracks \o Dataset(2, mhlp, lists, k))

Texts(m) ==
  (UNION {Range(m.tracks[i].text) : i \in DOMAIN m.tracks})
    \cup {m.lists[i].name : i \in DOMAIN m.lists} \cup {m.master[1].name}

SerializeError(m, k, timestamp, size) ==
  IF timestamp = 0 THEN "invalid_edit"
  ELSE IF k = "hash58" /\ (m.tracks # <<>> \/ m.lists # <<>>) THEN "unsupported_signed_profile"
  ELSE IF \E text \in Texts(m) : ~Encodable(text) THEN "invalid_text"
  ELSE IF \E i \in DOMAIN m.lists : m.lists[i].kind # "ordinary" THEN "opaque_dependency"
  ELSE IF size > Layout[k].maxOut THEN "resource_limit_exceeded"
  ELSE IF size >= Width THEN "length_overflow"
  ELSE "none"

\* Before it answers, the writer reads its output again, validates it and
\* compares it with the document (comparator::semantic).
SelfCheckError(reread, doc) ==
  IF reread.error # "none" THEN "generated_output_invalid"
  ELSE IF ~Valid(reread.doc) THEN "generated_output_invalid"
  ELSE IF reread.doc.model # doc.model THEN "comparison_mismatch"
  ELSE "none"

Generated(out, doc, key) ==
  Checked(SelfCheckError(Read(out, doc.kind, IF doc.kind = "hash58" THEN key ELSE NoKey), doc),
          [error |-> "none", out |-> out])

Serialized(plain, doc, key, timestamp) ==
  Checked(SerializeError(doc.model, doc.kind, timestamp, Len(plain)),
          Generated(IF doc.kind = "hash58" THEN Signed(key, plain) ELSE plain, doc, key))

\* Nothing was edited: the bytes the document was read from are kept.
Kept(doc, key) ==
  Checked(IF Len(doc.original) > Layout[doc.kind].maxOut THEN "resource_limit_exceeded"
          ELSE IF doc.kind = "hash58" THEN VerifyError(key, doc.original) ELSE "none",
          [error |-> "none", out |-> doc.original])

\* writer::write under profile kind k.
Write(doc, k, key, timestamp) ==
  IF k = "hash58" /\ key = NoKey THEN Failed("missing_device_key")
  ELSE IF doc.kind # k THEN Failed("profile_mismatch")
  ELSE IF ~Valid(doc) THEN Failed("invalid_document")
  ELSE IF k = "preserve_only" /\ doc.modified THEN Failed("profile_not_writable")
  ELSE IF k = "preserve_only" \/ (~doc.modified /\ doc.original # <<>>) THEN Kept(doc, key)
  ELSE IF doc.opaque THEN Failed("opaque_dependency")
  ELSE Serialized(Serialize(doc.model, k, timestamp), doc, key, timestamp)

\* The document create_empty starts from.
EmptyLibrary(k, pid, masterPid, name) ==
  [kind |-> k, original |-> <<>>, modified |-> FALSE, opaque |-> FALSE,
   signature |-> "not_applicable",
   model |-> [pid |-> pid, tracks |-> <<>>, lists |-> <<>>,
              master |-> <<[pid |-> masterPid, name |-> name, kind |-> "master", members |-> <<>>]>>]]

\* writer::create_empty.
CreateEmpty(k, key, pid, masterPid, name, timestamp) ==
  LET Reread(written) == Checked(written.error, Read(written.out, k, IF k = "hash58" THEN key ELSE NoKey))
  IN Checked(IF k = "preserve_only" THEN "profile_not_writable"
             ELSE IF k = "hash58" /\ key = NoKey THEN "missing_device_key"
             ELSE IF 0 \in {pid, masterPid, timestamp} \/ pid = masterPid
                  THEN "duplicate_persistent_id" ELSE "none",
             Reread(Write(EmptyLibrary(k, pid, masterPid, name), k, key, timestamp)))

=============================================================================
