------------------------- MODULE DatabaseProperties -------------------------
(***************************************************************************)
(* What the library database promises.                                     *)
(***************************************************************************)
EXTENDS Database

CONSTANTS
  Mystery,  \* a value put where a file holds data the reader keeps blindly
  Audio     \* paths of audio on the player

\* The engine puts audio nowhere else (paths_valid).
ASSUME AudioAssumption ==
  \A p \in Audio : p \in Seq(Nat) /\ SafePath(p) /\ IsPrefix(MusicRoot, p)

Track == [id : Cells, pid : Wide, text : TextOf]
Playlist == [pid : Wide, name : Seq(Nat), members : Seq(Cells),
             kind : {"master", "ordinary", "smart"}]
Model == [pid : Wide, tracks : Seq(Track), master : Seq(Playlist), lists : Seq(Playlist)]
Signatures == {"not_applicable", "not_checked", "valid", "invalid"}
Documents == [kind : Kinds, original : Seq(Cells), modified : BOOLEAN, opaque : BOOLEAN,
              signature : Signatures, model : Model]
Errors == {"none", "resource_limit_exceeded", "unsupported_container", "truncated_input",
  "invalid_marker", "header_too_small", "section_out_of_bounds", "unsupported_encoding",
  "invalid_text", "count_exceeds_section", "multiple_master_playlists",
  "unsupported_signed_profile", "invalid_hash_scheme", "hash58_mismatch", "missing_hash58",
  "hash_field_out_of_bounds", "missing_device_key", "profile_mismatch", "invalid_document",
  "profile_not_writable", "opaque_dependency", "invalid_edit", "length_overflow",
  "generated_output_invalid", "comparison_mismatch", "duplicate_persistent_id",
  "refused", "edited_invalid", "undefined"}

TypeOK ==
  /\ file \in Seq(Cells)
  /\ phase \in {"closed", "open", "editing"}
  /\ doc \in Documents /\ draft \in Model
  /\ todo \in Seq(Operations) /\ known \subseteq Wide /\ spare \in Seq(Wide)
  /\ result \in Errors
  /\ shown.model \in Model
  /\ edits \in 0 .. MaxEdits /\ damages \in 0 .. MaxDamage
  /\ written \in BOOLEAN
  /\ phase = "closed" => doc = NoDocument
  /\ phase # "editing" => draft = NoModel /\ todo = <<>> /\ spare = <<>> /\ known = {}

-----------------------------------------------------------------------------

\* However a file is damaged, under whatever profile and key it is read, the
\* bounds checks of require_envelope, of the counts and of the text lengths keep
\* every field the reader looks at inside the bytes it was given.
ReadsStayInside == result # "undefined"

\* The checks the writer makes of its own output (fresh reader, validator,
\* comparator) never fail: all a valid and fully understood document says
\* survives the way through the file, texts and 64-bit identifiers included.
OutputAccepted == result \notin {"generated_output_invalid", "comparison_mismatch"}

\* Between any two operations of a plan, not only after the last, the master
\* playlist holds every track exactly once and no ordinary playlist names a
\* track that is gone: a track added after a removal, which may be given the
\* identifier of the removed one, appears in no playlist by inheritance, and the
\* last identifier is never followed by zero.
DraftSound ==
  phase = "editing" =>
    /\ ValidTracks(draft) /\ draft.master # <<>>
    /\ ValidMaster(draft)
    /\ ValidLists(draft)

\* A track or playlist that a plan adds gets a persistent identifier nothing else
\* has, the database, the tracks and the playlists alike, nothing that the plan
\* removed before, and nothing that it added before and removed again: all of them
\* stay known until the plan ends.  The validator compares identifiers kind by
\* kind only, and sees only what is left at the end.
GeneratedIdsAreNew ==
  [][phase = "editing" /\ phase' = "editing" =>
       /\ Pids(draft) \cup Pids(doc.model) \subseteq known \cup {0}
       /\ known \subseteq known'
       /\ Len(draft'.tracks) > Len(draft.tracks) =>
            draft'.tracks[Len(draft'.tracks)].pid \in known' \ (known \cup {0})
       /\ Len(draft'.lists) > Len(draft.lists) =>
            draft'.lists[Len(draft'.lists)].pid \in known' \ (known \cup {0})]_vars

-----------------------------------------------------------------------------
(* Data the reader keeps without understanding, found by walking the sizes *)
(* of the records.                                                         *)

\* Where n records that follow one another start, and where the last one ends.
Offsets(w, first, n) ==
  LET at[i \in 0 .. n] == IF i = 0 THEN first ELSE End(w, at[i - 1]) IN at

\* The record at a has kids data children, one of a type that is not known, or
\* cells behind them and the others that follow.
Leftover(w, a, kids, others, types) ==
  LET at == Offsets(w, Body(w, a), kids + others)
  IN \/ \E i \in 0 .. kids - 1 : Cell(w, at[i] + 3) \notin types
     \/ at[kids + others] # End(w, a)

StrangeTrack(w, a) == Leftover(w, a, Cell(w, a + 3), 0, TextTypes)
StrangePlaylist(w, a) == Leftover(w, a, Cell(w, a + 3), Cell(w, a + 4), {1})

\* The records of the dataset at s.
CountIn(w, s) == Cell(w, Body(w, s) + 2)
RecordsIn(w, s) ==
  LET at == Offsets(w, Body(w, Body(w, s)), CountIn(w, s))
  IN {at[i] : i \in 0 .. CountIn(w, s) - 1}

\* Cells behind the root or behind its datasets, a dataset of a kind that is not
\* looked into, a strange track in the tracks or a strange playlist in the
\* playlists that are read.
UnknownData(w) ==
  LET n == Cell(w, 5)
      at == Offsets(w, Header(w, 0), n)
      type(i) == Cell(w, at[i] + 3)
      Is(i, t) == type(i) = t /\ \A j \in 0 .. i - 1 : type(j) # t
      listed == IF \E i \in 0 .. n - 1 : type(i) = 2 THEN 2 ELSE 3
  IN \/ Size(w, 0) # Len(w) \/ at[n] # Size(w, 0)
     \/ \E i \in 0 .. n - 1 :
          \/ type(i) \notin 1 .. 3 /\ ~(type(i) = 4 /\ CountIn(w, at[i]) = 0)
          \/ Is(i, 1) /\ \E a \in RecordsIn(w, at[i]) : StrangeTrack(w, a)
          \/ Is(i, listed) /\ \E a \in RecordsIn(w, at[i]) : StrangePlaylist(w, a)

\* Of every file that can be read, damaged ones included: whatever stands behind
\* the root, behind the datasets, in a dataset the reader does not look into, and
\* behind or among the children of the tracks and playlists it reads, is reported
\* (has_opaque_dependency); the writer is told by nothing else.  Not said of the
\* fields of a known header that are not read, of the rest of a text child or of
\* a member, and of a second dataset of a kind, the mirror of the playlists
\* included: those the reader drops without a word.
UnknownDataReported == phase # "closed" => (UnknownData(doc.original) => doc.opaque)

\* A save leaves such a file as it was, bit by bit, or fails.
ReportedDataKept ==
  [][phase = "open" /\ phase' = "open" /\ UnknownData(doc.original) /\ file' # file
       => file' = doc.original]_vars

\* What the reader keeps without understanding survives every save.
UnknownDataKept ==
  [][phase = "open" /\ phase' = "open" /\ Mystery \in Range(doc.original) /\ file' # file
       => Mystery \in Range(file')]_vars

\* A file the writer generated, from an edit or for an empty library, holds
\* nothing the reader has to keep blindly, so it can be edited again.
WrittenStaysEditable ==
  LET Understood(r) == r.error = "none" /\ ~r.doc.opaque
  IN written => \E k \in Kinds : Understood(Read(file, k, KeyOf(k)))

\* A location names a path: behind a colon, the path with slashes that may be
\* colons.
Names(location, p) ==
  /\ Len(location) = Len(p) + 1 /\ location[1] = Colon
  /\ \A i \in DOMAIN p : \/ location[i + 1] = p[i]
                         \/ location[i + 1] = Colon /\ p[i] = Slash

\* A path that leads to the music of the player and nowhere out of it.
BelowMusic(p) ==
  /\ IsPrefix(MusicRoot, p)
  /\ \A i \in 1 .. Len(p) - 2 :
       p[i] = Slash /\ p[i + 1] = Dot /\ p[i + 2] = Dot => i + 3 <= Len(p) /\ p[i + 3] # Slash

\* The transaction engine accepts a database the writer generated whenever every
\* track names audio of the player.  Of one it accepts it takes every audio file
\* that a track names as referenced, no audio file that none names, and nothing
\* outside the music: the audio the engine may not remove, and the files it looks
\* for, are those the edited library names.
EngineSeesTheAudio ==
  [][file' # file /\ written'
       => LET tracks == doc.model.tracks
              locations == {tracks[i].text[2] : i \in DOMAIN tracks}
              Named(p) == \E l \in locations : Names(l, p)
          IN /\ (\A l \in locations : \E p \in Audio : Names(l, p))
                  => Accepts(file', doc.kind)
             /\ Accepts(file', doc.kind) =>
                  /\ \A p \in Audio : p \in References(file', doc.kind) <=> Named(p)
                  /\ \A p \in References(file', doc.kind) : Named(p) /\ BelowMusic(p)]_vars

\* A library shown as ready has only playlists of its own tracks, each of them in
\* the master exactly once, and, when the key of the player is known, carries a
\* signature made with it.
ReadyIsSound ==
  shown.status = "ready_read_only" =>
    LET ids == TrackIds(shown.model)
        master == shown.model.master[1].members
    IN /\ Len(master) = Len(ids) /\ \A i \in DOMAIN ids : \E j \in DOMAIN master : master[j] = ids[i]
       /\ \A i \in DOMAIN ids, j \in DOMAIN ids : i < j => ids[i] # ids[j]
       /\ \A i \in DOMAIN shown.model.lists : shown.model.lists[i].kind = "ordinary" =>
            Range(shown.model.lists[i].members) \subseteq Range(ids)
       /\ shown.signed => Cell(file, 22) = Hash58(Key, file)

=============================================================================
