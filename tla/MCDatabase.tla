----------------------------- MODULE MCDatabase -----------------------------
(***************************************************************************)
(* Small instances of the library database.                                *)
(***************************************************************************)
EXTENDS DatabaseProperties

Numbers == [root |-> 8, version |-> 42, dataset |-> 4, list |-> 3, track |-> 30,
            playlist |-> 9, item |-> 7, maxIn |-> 290, maxOut |-> 270]
MCLayout == [k \in Kinds |-> IF k # "hash58" THEN Numbers
                             ELSE [Numbers EXCEPT !.root = 27, !.version = 115, !.playlist = 10]]

\* Texts: a title, the location of a song and, with a slash in it, of another,
\* locations without the first colon, out of the music and into no file, a name
\* beyond one unit, a name no UTF-8 string has.
Title == <<1>>
SongPath == MusicRoot \o <<2>>
Song == <<Colon, PodControl, Colon, Music, Colon, 2>>
Hymn == <<Colon, PodControl, Slash, Music, Colon, 3>>
NoColon == SongPath
Parent == <<Colon, PodControl, Colon, Music, Colon, Dot, Dot>>
Device == <<Colon, PodControl, Colon, Music, Colon, Reserved, Dot, 1>>
Emoji == <<17>>
Broken == <<9>>

TrackOf(id, pid, path) == [id |-> id, pid |-> pid,
                           text |-> 1 :> Title @@ 2 :> path @@ 3 :> <<>> @@ 4 :> Emoji]
ListOf(kind, pid, members) == [pid |-> pid, name |-> Title, kind |-> kind, members |-> members]
Library == [pid |-> 20, tracks |-> <<TrackOf(1, 21, Song)>>,
            master |-> <<ListOf("master", 22, <<1>>)>>, lists |-> <<ListOf("ordinary", 23, <<1>>)>>]
Nothing == [Library EXCEPT !.tracks = <<>>, !.master[1].members = <<>>, !.lists = <<>>]

Plain == Serialize(Library, "unsigned", 1)
EmptySigned == Signed(Key, Serialize(Nothing, "hash58", 1))

\* Offsets of the parts of Plain.
TracksAt == 8
ListsAt == TracksAt + Size(Plain, TracksAt)
TrackRecordAt == TracksAt + 7
MasterAt == ListsAt + 7
OrdinaryAt == MasterAt + Size(Plain, MasterAt)

\* w with cells put in at an offset, the sizes and the count at given offsets
\* grown to match.
Grown(w, at, cells, sizes, counts) ==
  LET v == [i \in DOMAIN w |-> IF i - 3 \in sizes THEN w[i] + Len(cells)
                               ELSE IF i - 1 \in counts THEN w[i] + 1 ELSE w[i]]
  IN SubSeq(v, 1, at) \o cells \o SubSeq(v, at + 1, Len(v))

Blob(type) == [Record(mhod, 6, 7) EXCEPT ![4] = type] \o <<Mystery>>
MoreData == [Record(mhsd, 4, 8) EXCEPT ![4] = 5] \o Record(mhlp, 3, 3) \o <<Mystery>>

\* Data the reader keeps blindly, at the end of the file and of the root, in a
\* track, in a playlist, as the rule of a smart playlist, as a dataset.
StrangeFiles == {
  Append(Plain, Mystery),
  Grown(Plain, Len(Plain), <<Mystery>>, {0}, {}),
  Grown(Plain, TrackRecordAt + 30, Blob(9), {0, TracksAt, TrackRecordAt}, {TrackRecordAt + 3}),
  Grown(Plain, ListsAt, <<Mystery>>, {0, TracksAt, TrackRecordAt}, {}),
  Grown(Plain, MasterAt + 9, Blob(52), {0, ListsAt, MasterAt}, {MasterAt + 3}),
  Grown(Plain, OrdinaryAt + 9, Blob(50), {0, ListsAt, OrdinaryAt}, {OrdinaryAt + 3}),
  Grown(Plain, Len(Plain), MoreData, {0}, {5})}

\* A mirror of the playlists, and fields of a track header, that the reader skips
\* in records it takes for understood.
Mirror == Dataset(3, mhlp, <<PlaylistRecord(ListOf("master", 22, <<1>>), "unsigned", Mystery)>>, "unsigned")
SkippedFiles == {Grown(Plain, ListsAt, Mirror, {0}, {5}), [Plain EXCEPT ![TrackRecordAt + 11] = Mystery]}

MCFragile == {Plain, EmptySigned}
TwoMasters == Serialize([Library EXCEPT !.lists[1].kind = "master"], "unsigned", 1)

\* A library whose last track identifier is the last there is.
LastId == Width - 1
Exhausted == Serialize([Library EXCEPT !.tracks[1].id = LastId, !.master[1].members = <<LastId>>,
                                       !.lists[1].members = <<LastId>>], "unsigned", 1)

MCFiles == {Plain, EmptySigned, TwoMasters, Exhausted, <<>>} \cup StrangeFiles

MCAudio == {SongPath, MusicRoot \o <<3>>, MusicRoot \o <<1, Slash, 2>>}

Gen(ids) == [pid |-> 30, master |-> 31, name |-> Title, time |-> 5, ids |-> ids]
MCGenerations == {Gen(<<40, 41>>), Gen(<<40, 40>>), [Gen(<<23, 23>>) EXCEPT !.master = 30, !.time = 0]}

Add(path) == [op |-> "add_track", text |-> 1 :> Title @@ 2 :> path @@ 3 :> <<>> @@ 4 :> <<>>]
Drop(id) == [op |-> "remove_track", id |-> id]
NewList(name) == [op |-> "add_playlist", name |-> name]
DropList(pid) == [op |-> "remove_playlist", pid |-> pid]
Rename(pid, name) == [op |-> "rename_playlist", pid |-> pid, name |-> name]
Replace(pid, members) == [op |-> "replace_members", pid |-> pid, members |-> members]
MCPlans == {<<Drop(1), Add(Song)>>, <<Add(NoColon), Replace(23, <<2, 1>>)>>,
            <<NewList(Emoji)>>, <<DropList(23), Drop(7)>>, <<Add(Parent)>>, <<Add(Device)>>,
            <<Rename(23, Broken)>>, <<Add(Song), Add(Hymn)>>, <<Add(Hymn), Drop(2), Add(Song)>>, <<>>}

Healthy == [family |-> "traditional", mapped |-> TRUE, mounted |-> TRUE, problem |-> "none",
            filesystem |-> TRUE, recovery |-> FALSE, authorized |-> TRUE, key |-> NoKey,
            file |-> "present"]
MCCandidates == {Healthy, [Healthy EXCEPT !.family = "signed"],
  [Healthy EXCEPT !.family = "signed", !.key = Key],
  [Healthy EXCEPT !.family = "signed", !.key = Key, !.file = "missing"],
  [Healthy EXCEPT !.file = "sharing_violation"], [Healthy EXCEPT !.recovery = TRUE],
  [Healthy EXCEPT !.family = "unknown"], [Healthy EXCEPT !.mapped = FALSE],
  [Healthy EXCEPT !.mounted = FALSE], [Healthy EXCEPT !.filesystem = FALSE],
  [Healthy EXCEPT !.problem = "io_failure"], [Healthy EXCEPT !.family = "later"]}
=============================================================================
