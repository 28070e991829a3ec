------------------------------ MODULE Database ------------------------------
(***************************************************************************)
(* A library database in use: a file is read into a document, the document *)
(* is edited by a plan and written back, discovery inspects the file of a  *)
(* player.  The bytes of the file are those of DatabaseFormat; whatever    *)
(* else happens to them (damage, another program's records) is part of the *)
(* environment.  editor::apply is taken apart into one step per operation  *)
(* of its plan, so that a refusal can strike in the middle of one.         *)
(***************************************************************************)
EXTENDS DatabaseFormat

CONSTANTS
  Files,        \* files first found
  Fragile,      \* those that get damaged
  Plans,        \* edit plans, sequences of operations
  Generations,  \* generation contexts the callers inject
  Key,          \* the hash58 key of the player
  MaxPath,      \* the longest path the engine takes, 512 bytes in the program
  Candidates,   \* what enumeration says of the player
  Scribbles,    \* values that damage leaves in a cell
  MaxDamage,    \* bound on damages
  MaxEdits      \* bound on edit plans started, less the damages

\* The operations of edit_plan.
TextOf == [TextTypes -> Seq(Nat)]
Operations ==
  [op : {"add_track"}, text : TextOf] \cup [op : {"remove_track"}, id : Nat]
  \cup [op : {"add_playlist"}, name : Seq(Nat)] \cup [op : {"remove_playlist"}, pid : Nat]
  \cup [op : {"rename_playlist"}, pid : Nat, name : Seq(Nat)]
  \cup [op : {"replace_members"}, pid : Nat, members : Seq(Nat)]

ASSUME DatabaseAssumption ==
  /\ MaxDamage \in Nat /\ MaxEdits \in Nat /\ MaxPath \in Nat
  /\ Key \in Nat \ {NoKey}
  /\ \A w \in Files : w \in Seq(Cells)
  /\ \A v \in Scribbles : v \in Cells
  /\ \A plan \in Plans : plan \in Seq(Operations)
  /\ \A g \in Generations :
       /\ g.ids \in Seq(Wide) /\ g.pid \in Wide /\ g.master \in Wide
       /\ g.name \in Seq(Nat) /\ g.time \in Cells
  /\ \A c \in Candidates : c.key \in {NoKey, Key}

VARIABLES
  file,     \* the bytes of the database
  phase,    \* no document, one open, one being edited
  doc,      \* the document
  draft,    \* the model being edited
  todo,     \* the rest of the plan
  spare,    \* persistent identifiers not used yet
  known,    \* persistent identifiers the editor has seen
  result,   \* what the last operation answered
  shown,    \* what discovery publishes of the player
  edits, damages,
  written   \* history: the writer generated the file

editVars == <<draft, todo, spare, known>>
vars == <<file, phase, doc, editVars, result, shown, edits, damages, written>>

NoModel == [pid |-> 0, tracks |-> <<>>, master |-> <<>>, lists |-> <<>>]
NoDocument == [kind |-> "preserve_only", original |-> <<>>, modified |-> FALSE,
               opaque |-> FALSE, signature |-> "not_applicable", model |-> NoModel]
NotShown == [status |-> "none", problem |-> "none", signed |-> FALSE, model |-> NoModel]

-----------------------------------------------------------------------------
(* Reading and closing.                                                    *)

KeyOf(k) == IF k = "hash58" THEN Key ELSE NoKey

Opened(r) ==
  /\ result' = r.error
  /\ IF r.error = "none" THEN phase' = "open" /\ doc' = r.doc
                         ELSE UNCHANGED <<phase, doc>>

Open(k, key) ==
  /\ phase = "closed"
  /\ key \in {NoKey, KeyOf(k)}
  /\ Opened(Read(file, k, key))
  /\ shown' = NotShown
  /\ UNCHANGED <<file, editVars, edits, damages, written>>

\* create_empty answers with the document reread from its own output; it is
\* called for a player that has no database.
Create(k, key, g) ==
  /\ phase = "closed" /\ file = <<>>
  /\ key \in {NoKey, KeyOf(k)}
  /\ Opened(CreateEmpty(k, key, g.pid, g.master, g.name, g.time))
  /\ shown' = NotShown
  /\ UNCHANGED <<file, editVars, edits, damages, written>>

Close ==
  /\ phase = "open"
  /\ phase' = "closed" /\ doc' = NoDocument /\ result' = "none"
  /\ UNCHANGED <<file, editVars, shown, edits, damages, written>>

-----------------------------------------------------------------------------
(* editor::apply.                                                          *)

Pids(m) ==
  {m.pid} \cup {m.master[i].pid : i \in DOMAIN m.master}
    \cup ({m.tracks[i].pid : i \in DOMAIN m.tracks} \ {0})
    \cup {m.lists[i].pid : i \in DOMAIN m.lists}

Answer(r) ==
  /\ result' = r
  /\ UNCHANGED <<file, phase, doc, editVars, shown, damages, written>>

StartEdit(plan, g) ==
  /\ phase = "open" /\ edits + damages < MaxEdits
  /\ edits' = edits + 1
  /\ IF ~Valid(doc) THEN Answer("invalid_document")
     ELSE IF plan = <<>> THEN Answer("none")
     ELSE IF doc.kind # "unsigned" THEN Answer("profile_not_writable")
     ELSE IF doc.opaque THEN Answer("opaque_dependency")
     ELSE /\ phase' = "editing" /\ draft' = doc.model /\ todo' = plan
          /\ spare' = g.ids /\ known' = Pids(doc.model)
          /\ UNCHANGED <<file, doc, result, shown, damages, written>>

MaxId(m) == Max({0} \cup Range(TrackIds(m)))
TrackAt(m, id) == SelectInSeq(m.tracks, LAMBDA t : t.id = id)
Ordinary(p) == p.kind = "ordinary"
ListAt(m, pid) == SelectInSeq(m.lists, LAMBDA p : Ordinary(p) /\ p.pid = pid)

\* next_persistent_id.
PidRefused == spare = <<>> \/ Head(spare) \in known \cup {0}

\* Mutant: an identifier given away is not remembered.
TakePidForgetting == spare' = Tail(spare) /\ UNCHANGED known

TakePid == spare' = Tail(spare) /\ known' = known \cup {Head(spare)}

\* Mutant: identifiers are not checked for exhaustion.
IdsExhaustedNever(m) == FALSE

IdsExhausted(m) == MaxId(m) = Width - 1

\* An operation the editor refuses; the whole plan is given up.
OperationRefused(o) ==
  CASE o.op = "add_track" -> IdsExhausted(draft) \/ PidRefused
    [] o.op = "add_playlist" -> PidRefused
    [] o.op = "remove_track" -> o.id = 0 \/ TrackAt(draft, o.id) = 0
    [] o.op = "replace_members" ->
         \/ o.pid = 0 \/ ListAt(draft, o.pid) = 0
         \/ ~Distinct(o.members) \/ ~(Range(o.members) \subseteq Range(TrackIds(draft)) \ {0})
    [] OTHER -> o.pid = 0 \/ ListAt(draft, o.pid) = 0

Current(name) ==
  /\ phase = "editing" /\ todo # <<>>
  /\ Head(todo).op = name /\ ~OperationRefused(Head(todo))
  /\ todo' = Tail(todo)
  /\ UNCHANGED <<file, phase, doc, result, shown, edits, damages, written>>

AddTrack ==
  /\ Current("add_track")
  /\ TakePid
  /\ LET id == (MaxId(draft) + 1) % Width
     IN draft' = [draft EXCEPT
          !.tracks = Append(@, [id |-> id, pid |-> Head(spare), text |-> Head(todo).text]),
          !.master[1].members = Append(@, id)]

Without(s, id) ==
  Iterate(LAMBDA kept, i : IF s[i] = id THEN kept ELSE Append(kept, s[i]), <<>>, Len(s))

\* Mutant: a removed track stays a member of the ordinary playlists.
PurgedNowhere(lists, id) == lists

Purged(lists, id) ==
  [i \in DOMAIN lists |-> IF Ordinary(lists[i])
                          THEN [lists[i] EXCEPT !.members = Without(@, id)] ELSE lists[i]]

RemoveTrack ==
  /\ Current("remove_track")
  /\ LET id == Head(todo).id
     IN draft' = [draft EXCEPT
          !.tracks = RemoveAt(@, TrackAt(draft, id)),
          !.master[1].members = Without(@, id),
          !.lists = Purged(@, id)]
  /\ UNCHANGED <<spare, known>>

AddPlaylist ==
  /\ Current("add_playlist")
  /\ TakePid
  /\ draft' = [draft EXCEPT !.lists = Append(@,
       [pid |-> Head(spare), name |-> Head(todo).name, kind |-> "ordinary", members |-> <<>>])]

RemovePlaylist ==
  /\ Current("remove_playlist")
  /\ draft' = [draft EXCEPT !.lists = RemoveAt(@, ListAt(draft, Head(todo).pid))]
  /\ UNCHANGED <<spare, known>>

RenamePlaylist ==
  /\ Current("rename_playlist")
  /\ draft' = [draft EXCEPT !.lists[ListAt(draft, Head(todo).pid)].name = Head(todo).name]
  /\ UNCHANGED <<spare, known>>

ReplaceMembers ==
  /\ Current("replace_members")
  /\ draft' = [draft EXCEPT !.lists[ListAt(draft, Head(todo).pid)].members = Head(todo).members]
  /\ UNCHANGED <<spare, known>>

StopEditing(r) ==
  /\ phase' = "open" /\ result' = r
  /\ draft' = NoModel /\ todo' = <<>> /\ spare' = <<>> /\ known' = {}
  /\ UNCHANGED <<file, shown, edits, damages, written>>

GiveUp ==
  /\ phase = "editing" /\ todo # <<>> /\ OperationRefused(Head(todo))
  /\ StopEditing("refused")
  /\ UNCHANGED doc

FinishEdit ==
  /\ phase = "editing" /\ todo = <<>>
  /\ LET edited == [doc EXCEPT !.model = draft, !.modified = TRUE]
     IN IF Valid(edited) THEN doc' = edited /\ StopEditing("none")
        ELSE UNCHANGED doc /\ StopEditing("edited_invalid")

-----------------------------------------------------------------------------
(* Writing.  The caller puts the bytes in the place of the file.           *)

Saved(w) ==
  /\ result' = w.error
  /\ IF w.error = "none"
     THEN /\ file' = w.out
          /\ written' = (doc.modified \/ file = <<>> \/ (written /\ w.out = file))
     ELSE UNCHANGED <<file, written>>

Save(k, key, g) ==
  /\ phase = "open"
  /\ key \in {NoKey, KeyOf(k)}
  /\ Saved(Write(doc, k, key, g.time))
  /\ UNCHANGED <<phase, doc, editVars, shown, edits, damages>>

-----------------------------------------------------------------------------
(* traditional_database_validator, what the transaction engine asks of a   *)
(* database: the audio it references, if it is one.  Some of the units of a *)
(* text stand for the characters a path is made of, Forbidden for any of   *)
(* those no name may hold, three units for whole names: iPod_Control, Music *)
(* and any name reserved for a device.  The other units are letters.       *)

Colon == 4
Slash == 5
Dot == 6
Space == 7
Forbidden == 12
Reserved == 13
PodControl == 14
Music == 15

MusicRoot == <<PodControl, Slash, Music, Slash>>

\* Where a part of a path, between slashes, starts and ends.
PartStarts(p, i) == i = 1 \/ p[i - 1] = Slash
PartEnds(p, i) == i = Len(p) \/ p[i + 1] = Slash

\* safe_path: no part is empty, ends in a dot or a space or is a reserved name, one
\* with an extension included; a part of dots alone ends in one.
SafePath(p) ==
  /\ p # <<>> /\ Len(p) <= MaxPath
  /\ \A i \in DOMAIN p :
       /\ p[i] \notin {Colon, Forbidden}
       /\ p[i] = Slash => ~PartStarts(p, i) /\ ~PartEnds(p, i)
       /\ PartEnds(p, i) => p[i] \notin {Dot, Space}
       /\ PartStarts(p, i) /\ p[i] = Reserved => ~PartEnds(p, i) /\ p[i + 1] # Dot

\* Mutant: only the first colon becomes a slash.
ConvertedOnce(location) ==
  LET rest == Tail(location)
  IN [i \in DOMAIN rest |-> IF rest[i] = Colon /\ \A j \in 1 .. i - 1 : rest[j] # Colon
                            THEN Slash ELSE rest[i]]

\* The colon a location starts with is dropped, the others become slashes.
Converted(location) ==
  LET rest == Tail(location)
  IN [i \in DOMAIN rest |-> IF rest[i] = Colon THEN Slash ELSE rest[i]]

\* What the adapter takes for the location of an audio file.
Playable(location) ==
  /\ location # <<>> /\ Head(location) = Colon
  /\ SafePath(Converted(location)) /\ IsPrefix(MusicRoot, Converted(location))

Usable(r) ==
  /\ r.error = "none" /\ Valid(r.doc)
  /\ \A i \in DOMAIN r.doc.model.tracks : Playable(r.doc.model.tracks[i].text[2])
Accepts(w, k) == k # "preserve_only" /\ Usable(Read(w, k, KeyOf(k)))

Paths(tracks) == {Converted(tracks[i].text[2]) : i \in DOMAIN tracks}
References(w, k) == Paths(Read(w, k, KeyOf(k)).doc.model.tracks)

-----------------------------------------------------------------------------
(* device::inspect, for a candidate c and the file read from it.           *)

\* What keeps the database of a candidate from being looked at.
Barred(c) ==
  IF c.family = "unknown" THEN <<"unidentified", "identity_unproven">>
  ELSE IF ~c.mapped THEN <<"unidentified", "identity_conflict">>
  ELSE IF ~c.mounted THEN <<"not_mounted", "no_volume">>
  ELSE IF c.problem # "none" THEN <<"read_error", c.problem>>
  ELSE IF ~c.filesystem THEN <<"unsupported_filesystem", "filesystem">>
  ELSE IF c.recovery THEN <<"recovery_required", "recovery_record">>
  ELSE IF c.family = "later" THEN <<"format_pending", "format_unimplemented">>
  ELSE IF c.file = "missing" THEN
    <<IF c.authorized /\ c.family = "signed" /\ c.key # NoKey THEN "initializable"
      ELSE "format_pending", "database_missing">>
  ELSE IF c.file # "present" THEN <<"read_error", c.file>>
  ELSE <<"none", "none">>

\* What the bytes say, read without the key and with it.  A key that does not
\* parse checks nothing: it is NoKey.
Judgement(parsed, verified, checked) ==
  IF parsed.error = "resource_limit_exceeded" THEN <<"read_error", "resource_limit">>
  ELSE IF parsed.error \in {"unsupported_signed_profile", "profile_mismatch", "unsupported_encoding"}
  THEN <<"format_pending", "format_unimplemented">>
  ELSE IF parsed.error # "none" THEN <<"database_corrupt", "database_invalid">>
  ELSE IF checked /\ (verified.error # "none" \/ verified.doc.signature # "valid" \/ ~Valid(verified.doc))
  THEN <<"database_corrupt", "signature_invalid">>
  ELSE IF ~Valid(parsed.doc) THEN <<"database_corrupt", "database_invalid">>
  ELSE <<"ready_read_only", "none">>

Shown(c, verdict, parsed) ==
  [status |-> verdict[1], problem |-> verdict[2], signed |-> c.family = "signed" /\ c.key # NoKey,
   model |-> IF verdict[1] = "ready_read_only" THEN parsed.doc.model ELSE NoModel]

\* Mutant: the signature is not checked against the key.
VerdictUnsigned(c, w, parsed, verified) ==
  IF Len(w) >= 5 /\ (Cell(w, 0) # mhbd \/ Cell(w, 4) \notin 9 .. 115)
  THEN <<"format_pending", "format_unimplemented">>
  ELSE Judgement(parsed, verified, FALSE)

Verdict(c, w, parsed, verified) ==
  IF Len(w) >= 5 /\ (Cell(w, 0) # mhbd \/ Cell(w, 4) \notin 9 .. 115)
  THEN <<"format_pending", "format_unimplemented">>
  ELSE Judgement(parsed, verified, c.family = "signed" /\ c.key # NoKey)

Inspect(c) ==
  /\ phase = "closed"
  /\ LET k == IF c.family = "signed" THEN "hash58" ELSE "preserve_only"
         Show(parsed, verified) ==
           Shown(c, IF Barred(c)[1] # "none" THEN Barred(c) ELSE Verdict(c, file, parsed, verified),
                 parsed)
     IN shown' = Show(Read(file, k, NoKey), Read(file, k, c.key))
  /\ UNCHANGED <<file, phase, doc, editVars, result, edits, damages, written>>

-----------------------------------------------------------------------------
(* The environment.                                                        *)

\* A cell is overwritten, the file is cut off, or something is appended.
Damage ==
  /\ phase = "closed" /\ damages < MaxDamage /\ file \in Fragile
  /\ \/ \E i \in DOMAIN file, v \in Scribbles : file' = [file EXCEPT ![i] = v]
     \/ \E n \in 0 .. Len(file) - 1 : file' = SubSeq(file, 1, n)
     \/ \E v \in Scribbles : file' = Append(file, v)
  /\ damages' = damages + 1 /\ written' = FALSE /\ shown' = NotShown
  /\ UNCHANGED <<phase, doc, editVars, result, edits>>

Init ==
  /\ file \in Files
  /\ phase = "closed" /\ doc = NoDocument
  /\ draft = NoModel /\ todo = <<>> /\ spare = <<>> /\ known = {}
  /\ result = "none" /\ shown = NotShown
  /\ edits = 0 /\ damages = 0 /\ written = FALSE

EditStep ==
  \/ AddTrack \/ RemoveTrack
  \/ AddPlaylist \/ RemovePlaylist \/ RenamePlaylist \/ ReplaceMembers
  \/ GiveUp \/ FinishEdit

Next ==
  \/ \E k \in Kinds, key \in {NoKey, Key} :
       \/ Open(k, key)
       \/ \E g \in Generations : Create(k, key, g) \/ Save(k, key, g)
  \/ \E plan \in Plans, g \in Generations : StartEdit(plan, g)
  \/ EditStep
  \/ Close
  \/ \E c \in Candidates : Inspect(c)
  \/ Damage

Spec == Init /\ [][Next]_vars

=============================================================================
