--------------------------- MODULE MCTransaction ---------------------------
(***************************************************************************)
(* Small instances of the transaction engine.                              *)
(***************************************************************************)
EXTENDS TransactionProperties, TLC

CONSTANTS d0, d1, d2, d3,   \* databases
          a, b, c,          \* audio paths
          x, y,             \* audio contents
          o1, o2, o3        \* operations

\* Three requests against library d0, which references a: o1 adds b; o2 drops
\* a, and can follow only o1; o3 edits the library without touching audio.  On a
\* player without a database o1 may be the initialization both others follow.
MCRefs == d0 :> {a} @@ d1 :> {a, b} @@ d2 :> {b} @@ d3 :> {a}
MCNew == o1 :> d1 @@ o2 :> d2 @@ o3 :> d3
MCAdd == o1 :> (b :> x) @@ o2 :> <<>> @@ o3 :> <<>>
MCDel == o1 :> <<>> @@ o2 :> (a :> x) @@ o3 :> <<>>
MCAudio == a :> x @@ b :> Absent @@ c :> Absent

\* One replacement: o1 adds b and c and drops a.
SwapNew == o1 :> d1
SwapRefs == d0 :> {a} @@ d1 :> {b, c}
SwapAdd == o1 :> (b :> x @@ c :> y)
SwapDel == o1 :> (a :> x)

\* Two initializations of an empty player that import the same audio, and an
\* update of either library that adds c.
RetryRefs == d1 :> {b} @@ d2 :> {b} @@ d3 :> {b, c}
RetryNew == o1 :> d1 @@ o2 :> d2 @@ o3 :> d3
RetryAdd == o1 :> (b :> x) @@ o2 :> (b :> x) @@ o3 :> (c :> x)
RetryDel == o1 :> <<>> @@ o2 :> <<>> @@ o3 :> <<>>
RetryAudio == b :> Absent @@ c :> Absent
=============================================================================
